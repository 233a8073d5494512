---------------------------- MODULE StagingCache ----------------------------
(***************************************************************************)
(* The two staging textures through which src/src/obsc.cpp reads pixels:   *)
(* "readback", the whole frame (mapResource and captureFrame), and         *)
(* "strip", a rectangle (captureStripInto).  Each is kept from one call to *)
(* the next and reused while its remembered description still fits.        *)
(*                                                                         *)
(* A rectangle is modelled on one axis, the code treating both alike.  A   *)
(* description is a length and a format, the latter standing for all the   *)
(* fields that a staging texture copies from its source.                   *)
(***************************************************************************)
EXTENDS Integers

CONSTANTS
  MaxLength,      \* the longest texture
  Formats,        \* formats a shared texture may have
  Unqueryable,    \* those whose textures have no DXGI surface (arrays, mips)
  UintSize        \* number of values of a UINT, 2^32 in the code

ASSUME StagingAssumption ==
  /\ MaxLength \in Nat /\ UintSize \in Nat
  /\ MaxLength < UintSize
  /\ Unqueryable \subseteq Formats

VARIABLES
  source,         \* description of Context::sourceTexture
  texture,        \* what readbackTexture and stripTexture really are
  desc,           \* readbackTextureDesc and stripTextureDesc
  surfaces,       \* the kinds whose surface pointer is not null
  surface,        \* Context::surface: the mapped one to unmap, if any
  mapped,         \* the kinds whose surface is mapped
  copied,         \* "yes" once this call's copy took effect
  asked,          \* the call in progress: its kind and rectangle
  pc

cacheVars == <<texture, desc, surfaces>>
vars == <<source, cacheVars, surface, mapped, copied, asked, pc>>

Kinds == {"readback", "strip"}

Layouts == [length: 1..MaxLength, format: Formats]

(* No texture; also the zeroed description, which fits no request. *)
NoLayout == [length |-> 0, format |-> "unknown"]

(* The non-negative values of an int. *)
Ints == {n \in 0..UintSize : 2 * n < UintSize}

Requests == [kind: Kinds, from: Ints, length: Ints]

Steps == {"idle", "refresh", "prepare", "ensure", "copy", "map", "deliver"}

TypeOK ==
  /\ source \in Layouts \cup {NoLayout}
  /\ texture \in [Kinds -> [length: Nat, format: Formats \cup {"unknown"}]]
  /\ desc \in [Kinds -> [length: Nat, format: Formats \cup {"unknown"}]]
  /\ surfaces \subseteq Kinds
  /\ surface \in Kinds \cup {"none"}
  /\ mapped \subseteq Kinds
  /\ copied \in {"yes", "no"}
  /\ asked \in Requests
  /\ pc \in Steps

Init ==
  /\ source = NoLayout
  /\ texture = [k \in Kinds |-> NoLayout]
  /\ desc = [k \in Kinds |-> NoLayout]
  /\ surfaces = {} /\ surface = "none" /\ mapped = {}
  /\ copied = "no"
  /\ asked = [kind |-> "readback", from |-> 0, length |-> 0]
  /\ pc = "idle"

-----------------------------------------------------------------------------
kind == asked.kind

(* stagingDescFor: the source's description with the length wanted. *)
StagingDesc ==
  IF kind = "readback" THEN source
                       ELSE [source EXCEPT !.length = asked.length]

(* Slip: any cached texture of the format will do. *)
SameDescButLength(a, b) == a.format = b.format

SameDesc(a, b) == a.length = b.length /\ a.format = b.format

(* Arithmetic on UINT wraps around. *)
Uint(n) == n % UintSize

(* Slip: the origin of the rectangle is not checked. *)
FitsSansOrigin(from, length, total) == length <= Uint(total - from)

(* captureStripInto accepts the rectangle. *)
Fits(from, length, total) == from <= total /\ length <= Uint(total - from)

(* Slip: the surface stays mapped. *)
UnmapForgotten == UNCHANGED <<mapped, surface>>

UnmapSurface ==
  /\ mapped' = mapped \ {surface}
  /\ surface' = "none"

(* Slip: the caches outlive the texture they were made for. *)
CachesKept == UnmapSurface /\ UNCHANGED cacheVars

ResetStagingCaches ==
  /\ UnmapSurface
  /\ texture' = [k \in Kinds |-> NoLayout]
  /\ desc' = [k \in Kinds |-> NoLayout]
  /\ surfaces' = {}

-----------------------------------------------------------------------------
(* A capture function is called with arguments that pass its first test. *)
Call(request) ==
  /\ pc = "idle"
  /\ request.kind = "strip" => request.length > 0
  /\ asked' = request
  /\ copied' = "no"
  /\ pc' = "refresh"
  /\ UNCHANGED <<source, cacheVars, surface, mapped>>

(* refreshSharedTexture fails, keeps the source, or opens another.  That   *)
(* attach ends with the same operation makes no difference here.           *)
Refresh ==
  /\ pc = "refresh"
  /\ \/ pc' = "idle" /\ UNCHANGED <<source, cacheVars, surface, mapped>>
     \/ /\ source # NoLayout
        /\ pc' = "prepare"
        /\ UNCHANGED <<source, cacheVars, surface, mapped>>
     \/ /\ source' \in Layouts
        /\ ResetStagingCaches
        /\ pc' = "prepare"
  /\ UNCHANGED <<copied, asked>>

Prepare ==
  /\ pc = "prepare"
  /\ UnmapSurface
  /\ pc' = IF \/ source = NoLayout
              \/ /\ kind = "strip"
                 /\ ~Fits(asked.from, asked.length, source.length)
             THEN "idle" ELSE "ensure"
  /\ UNCHANGED <<source, cacheVars, copied, asked>>

Reusable == texture[kind] # NoLayout /\ SameDesc(desc[kind], StagingDesc)

CreateFails ==
  /\ texture' = [texture EXCEPT ![kind] = NoLayout]
  /\ surfaces' = surfaces \ {kind}
  /\ pc' = "idle"
  /\ UNCHANGED desc

(* The texture was made, but As() finds no surface: the remembered         *)
(* description is that of the texture before it.                           *)
QueryFails ==
  /\ source.format \in Unqueryable
  /\ texture' = [texture EXCEPT ![kind] = StagingDesc]
  /\ surfaces' = surfaces \ {kind}
  /\ pc' = "idle"
  /\ UNCHANGED desc

Built ==
  /\ source.format \notin Unqueryable
  /\ texture' = [texture EXCEPT ![kind] = StagingDesc]
  /\ surfaces' = surfaces \cup {kind}
  /\ desc' = [desc EXCEPT ![kind] = StagingDesc]
  /\ pc' = "copy"

Ensure ==
  /\ pc = "ensure"
  /\ \/ Reusable /\ pc' = "copy" /\ UNCHANGED cacheVars
     \/ ~Reusable /\ (CreateFails \/ QueryFails \/ Built)
  /\ UNCHANGED <<source, surface, mapped, copied, asked>>

(* CopyResource and CopySubresourceRegion return nothing: a copy that does *)
(* not fit its target, or whose target is mapped, is dropped silently.     *)
Copy ==
  /\ pc = "copy"
  /\ copied' = IF texture[kind] = StagingDesc /\ kind \notin mapped
                 THEN "yes" ELSE "no"
  /\ pc' = "map"
  /\ UNCHANGED <<source, cacheVars, surface, mapped, asked>>

(* Map is called through the surface pointer; null is a crash. *)
Map ==
  /\ pc = "map"
  /\ kind \in surfaces
  /\ \/ pc' = "idle" /\ UNCHANGED <<surface, mapped>>
     \/ /\ kind \notin mapped
        /\ mapped' = mapped \cup {kind}
        /\ surface' = IF kind = "readback" THEN kind ELSE surface
        /\ pc' = "deliver"
  /\ UNCHANGED <<source, cacheVars, copied, asked>>

(* captureFrame unmaps after copying, unless the vector cannot be had;     *)
(* captureStripInto always does.                                           *)
Deliver ==
  /\ pc = "deliver"
  /\ \/ kind = "readback" /\ UnmapSurface
     \/ kind = "readback" /\ UNCHANGED <<mapped, surface>>
     \/ kind = "strip" /\ mapped' = mapped \ {kind} /\ UNCHANGED surface
  /\ pc' = "idle"
  /\ UNCHANGED <<source, cacheVars, copied, asked>>

(* Also the first half of a re-attach. *)
Shutdown ==
  /\ pc = "idle"
  /\ ResetStagingCaches
  /\ source' = NoLayout
  /\ UNCHANGED <<copied, asked, pc>>

Next ==
  \/ \E request \in Requests : Call(request)
  \/ Refresh \/ Prepare \/ Ensure \/ Copy \/ Map \/ Deliver
  \/ Shutdown

Spec == Init /\ [][Next]_vars

-----------------------------------------------------------------------------
(* Properties *)

(* The texture copied into is not mapped, not even after a frame whose     *)
(* vector could not be allocated left the surface mapped (obsc.cpp:214).   *)
CopyTargetUnmapped == pc = "copy" => kind \notin mapped

(* Map never meets a null surface (obsc.cpp:268, 417): a texture without   *)
(* surface, left by a failed As(), is never taken for a reusable one.      *)
SurfaceToMap == pc = "map" => kind \in surfaces

(* The pixels handed out are those this call copied, from a rectangle that *)
(* lies in the source, through a staging texture of exactly its size.      *)
DeliversWhatWasAsked ==
  pc = "deliver" =>
    /\ copied = "yes"
    /\ texture[kind] = StagingDesc
    /\ kind = "strip" => asked.from + asked.length <= source.length

=============================================================================
