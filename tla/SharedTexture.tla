---------------------------- MODULE SharedTexture ----------------------------
(***************************************************************************)
(* Capture::refreshSharedTexture (src/src/obsc.cpp:485-524), read by read, *)
(* against a hook that publishes a new capture meanwhile.  Nothing locks   *)
(* the hook info: its fields and the texture handle are separate words the *)
(* hook writes in an order of its own.                                     *)
(*                                                                         *)
(* A publication is numbered by the map_id under which the hook makes it.  *)
(* The hook and the system are EXTERNAL, as obsc.cpp uses them: a mapping  *)
(* keeps its name while either side has it open, a shared texture its      *)
(* handle while either side holds it.                                      *)
(*                                                                         *)
(* It implements TextureContract, as Capture does in which a refresh is    *)
(* one step.                                                               *)
(***************************************************************************)
EXTENDS Naturals

CONSTANTS
  MaxMapId,       \* bound: publications of the hook
  Windows,        \* values of HookInfo::window
  Handles,        \* values a texture's shared handle may take
  Types,          \* capture types the hook may choose
  NoHandle,       \* the zero handle
  Noise           \* what a memory publication holds in place of a handle

ASSUME SharedTextureAssumption ==
  /\ MaxMapId \in Nat
  /\ NoHandle \notin Handles /\ Noise \notin Handles /\ Noise # NoHandle
  /\ Types \subseteq {"Texture", "Memory"}

VARIABLES
  \* the hook
  count,          \* publications begun
  published,      \* the last one completed
  live,           \* the one whose mapping and texture the hook holds, or 0
  todo,           \* words of it the hook has still to write
  made,           \* what each publication is made of
  shared,         \* the HookInfo fields the client reads
  texHandle,      \* ShtexData::tex_handle of each mapping
  \* Context
  device,         \* "yes" when both hookInfoView and device are there
  view,           \* textureDataView: the publication it maps, or 0
  hookWindow,
  textureMapId,
  textureHandle,
  source,         \* sourceTexture: the publication it comes from, or 0
  \* the call in progress
  pc,
  window, mapId, handle,    \* its local variables
  result,
  attached,       \* history: `published' when attach read the type and went
                  \* through with it, 0 when none has
  floor,          \* history: `published' when the call began
  quiet           \* history: "yes" while the hook, having completed a
                  \* texture capture, does nothing during the call, and the
                  \* system fails in nothing

hookVars == <<count, published, live, todo, made, shared, texHandle>>
sessionVars == <<device, attached>>
viewVars == <<view, hookWindow, textureMapId>>
textureVars == <<textureHandle, source>>
localVars == <<window, mapId, handle>>
vars == <<hookVars, sessionVars, viewVars, textureVars, pc, localVars, result,
          floor, quiet>>

Ids == 1..MaxMapId

Words == {"type", "window", "map_id", "tex_handle"}

CaptureTypes == {"Texture", "Memory"}
AnyWindow == Windows \cup {0}
AnyHandle == Handles \cup {NoHandle, Noise}

(* A publication's capture type, window and texture handle. *)
Made == [type: CaptureTypes, window: AnyWindow, handle: AnyHandle]

Steps == {"idle", "readType", "readWindow", "readMapId", "openView",
          "readHandle", "compareHandle", "openResource"}

TypeOK ==
  /\ count \in 0..MaxMapId /\ published \in 0..count
  /\ live \in {0, count}
  /\ todo \subseteq Words
  /\ made \in [Ids -> Made]
  /\ shared \in [type: CaptureTypes, window: AnyWindow, map_id: 0..count]
  /\ texHandle \in [Ids -> AnyHandle]
  /\ device \in {"yes", "no"} /\ attached \in 0..published
  /\ view \in 0..count /\ source \in 0..count
  /\ hookWindow \in AnyWindow /\ textureMapId \in 0..count
  /\ textureHandle \in AnyHandle
  /\ window \in AnyWindow /\ mapId \in 0..count /\ handle \in AnyHandle
  /\ quiet \in {"yes", "no"}
  /\ pc \in Steps
  /\ result \in {"none", "true", "false", "threw"}
  /\ floor \in 0..published

Init ==
  /\ count = 0 /\ published = 0 /\ live = 0 /\ todo = {}
  /\ made = [i \in Ids |-> [type |-> "Memory", window |-> 0, handle |-> NoHandle]]
  /\ shared = [type |-> "Memory", window |-> 0, map_id |-> 0]
  /\ texHandle = [i \in Ids |-> NoHandle]
  /\ device = "no" /\ attached = 0
  /\ view = 0 /\ hookWindow = 0 /\ textureMapId = 0
  /\ textureHandle = NoHandle /\ source = 0
  /\ pc = "idle"
  /\ window = 0 /\ mapId = 0 /\ handle = NoHandle
  /\ result = "none" /\ floor = 0 /\ quiet = "no"

-----------------------------------------------------------------------------
(* The hook *)

HookActs ==
  /\ quiet' = IF pc = "idle" THEN quiet ELSE "no"
  /\ UNCHANGED <<sessionVars, viewVars, textureVars, pc, localVars, result,
                 floor>>

(* The handle of the only texture still held when the hook holds none. *)
HandlesInUse == {made[i].handle : i \in {source} \ {0}}

(* A new capture: mapping and texture are created, the words not written.  *)
HookAllocates ==
  /\ live = 0 /\ count < MaxMapId
  /\ count' = count + 1 /\ live' = count'
  /\ todo' = Words
  /\ \E w \in Windows :
       \/ /\ "Texture" \in Types
          /\ \E h \in Handles \ HandlesInUse :
               made' = [made EXCEPT ![count'] =
                          [type |-> "Texture", window |-> w, handle |-> h]]
       \/ /\ "Memory" \in Types
          /\ \E h \in {NoHandle, Noise} :
               made' = [made EXCEPT ![count'] =
                          [type |-> "Memory", window |-> w, handle |-> h]]
  /\ UNCHANGED <<published, shared, texHandle>>
  /\ HookActs

(* One of its words becomes visible; with the last, HookReady is due. *)
HookWrites(word) ==
  /\ word \in todo /\ live # 0
  /\ todo' = todo \ {word}
  /\ published' = IF todo' = {} THEN live ELSE published
  /\ \/ /\ word = "tex_handle"
        /\ texHandle' = [texHandle EXCEPT ![live] = made[live].handle]
        /\ UNCHANGED shared
     \/ /\ word = "type" /\ shared' = [shared EXCEPT !.type = made[live].type]
        /\ UNCHANGED texHandle
     \/ /\ word = "window"
        /\ shared' = [shared EXCEPT !.window = made[live].window]
        /\ UNCHANGED texHandle
     \/ /\ word = "map_id" /\ shared' = [shared EXCEPT !.map_id = live]
        /\ UNCHANGED texHandle
  /\ UNCHANGED <<count, live, made>>
  /\ HookActs

(* The capture is freed: Stop, a resize, the keepalive gone. *)
HookFrees ==
  /\ live # 0 /\ todo = {}
  /\ live' = 0
  /\ UNCHANGED <<count, published, todo, made, shared, texHandle>>
  /\ HookActs

-----------------------------------------------------------------------------
(* The client *)

Return(r) == pc' = "idle" /\ result' = r
Goto(step) == pc' = step /\ UNCHANGED result

(* refreshSharedTexture is entered. *)
Begin ==
  /\ pc' = "readType" /\ result' = "none"
  /\ floor' = published
  /\ quiet' = IF live # 0 /\ todo = {} /\ made[live].type = "Texture"
                THEN "yes" ELSE "no"
  /\ UNCHANGED <<hookVars, viewVars, textureVars, localVars>>

(* A capture function refreshes, in whatever state the session is. *)
Call ==
  /\ pc = "idle"
  /\ Begin
  /\ UNCHANGED sessionVars

(* The end of attach: HookReady was there, so that the hook has completed  *)
(* a capture, perhaps an earlier one.  A texture capture gets a device and *)
(* a refresh, any other does without; the device may be refused.           *)
Attach ==
  /\ pc = "idle" /\ device = "no" /\ published # 0
  /\ \/ /\ shared.type = "Texture"
        /\ device' = "yes" /\ attached' = published
        /\ Begin
     \/ /\ attached' = IF shared.type = "Texture" THEN 0 ELSE published
        /\ result' = "none"
        /\ UNCHANGED <<hookVars, device, viewVars, textureVars, pc, localVars,
                       floor, quiet>>

ReadType ==
  /\ pc = "readType"
  /\ \/ device = "no" /\ Return(IF source # 0 THEN "true" ELSE "false")
     \/ device = "yes" /\ shared.type # "Texture" /\ Return("false")
     \/ device = "yes" /\ shared.type = "Texture" /\ Goto("readWindow")
  /\ UNCHANGED <<hookVars, sessionVars, viewVars, textureVars, localVars,
                 floor, quiet>>

ReadWindow ==
  /\ pc = "readWindow"
  /\ window' = shared.window
  /\ Goto("readMapId")
  /\ UNCHANGED <<hookVars, sessionVars, viewVars, textureVars, mapId, handle,
                 floor, quiet>>

(* Slip: a new map_id alone is not noticed. *)
SameWindowIsEnough(id) == view # 0 /\ window = hookWindow

ViewIsCurrent(id) == view # 0 /\ window = hookWindow /\ id = textureMapId

ReadMapId ==
  /\ pc = "readMapId"
  /\ mapId' = shared.map_id
  /\ Goto(IF ViewIsCurrent(mapId') THEN "readHandle" ELSE "openView")
  /\ UNCHANGED <<hookVars, sessionVars, viewVars, textureVars, window, handle,
                 floor, quiet>>

(* The mapping named <SHMEM_TEXTURE>_<window>_<map_id> exists. *)
Exists(w, id) == id \in {live, view} \ {0} /\ made[id].window = w

(* Slip: what was read is remembered before the mapping is open. *)
RememberIdsFirst == hookWindow' = window /\ textureMapId' = mapId

(* What a failed opening changes of Context. *)
KeepIds == UNCHANGED <<hookWindow, textureMapId>>

(* openMappedView, and the swap of the views if it succeeds.  It also      *)
(* fails when the system cannot map what exists: no failure of the hook's. *)
OpenView ==
  /\ pc = "openView"
  /\ \/ /\ Exists(window, mapId)
        /\ view' = mapId /\ hookWindow' = window /\ textureMapId' = mapId
        /\ Goto("readHandle")
        /\ UNCHANGED quiet
     \/ /\ KeepIds
        /\ quiet' = IF Exists(window, mapId) THEN "no" ELSE quiet
        /\ Return("false")
        /\ UNCHANGED view
  /\ UNCHANGED <<hookVars, sessionVars, textureVars, localVars, floor>>

ReadHandle ==
  /\ pc = "readHandle"
  /\ handle' = texHandle[view]
  /\ Goto("compareHandle")
  /\ UNCHANGED <<hookVars, sessionVars, viewVars, textureVars, window, mapId,
                 floor, quiet>>

CompareHandle ==
  /\ pc = "compareHandle"
  /\ \/ handle = NoHandle /\ Return("false")
     \/ /\ handle # NoHandle
        /\ \/ handle = textureHandle /\ source # 0 /\ Return("true")
           \/ ~(handle = textureHandle /\ source # 0) /\ Goto("openResource")
  /\ UNCHANGED <<hookVars, sessionVars, viewVars, textureVars, localVars,
                 floor, quiet>>

(* The textures that can be opened by the handle read. *)
Named == {i \in {live, source} \ {0} :
            made[i].type = "Texture" /\ made[i].handle = handle}

(* Slip: the handle is remembered before the texture is open. *)
HandleRememberedFirst ==
  /\ textureHandle' = handle
  /\ \/ source' \in Named /\ Return("true")
     \/ Return("threw") /\ UNCHANGED source

(* OpenSharedResource opens whichever texture has the handle by now, or    *)
(* throws; nothing of Context has changed then.                            *)
TakeTexture ==
  \/ source' \in Named /\ textureHandle' = handle /\ Return("true")
  \/ Return("threw") /\ UNCHANGED textureVars

OpenResource ==
  /\ pc = "openResource"
  /\ TakeTexture
  /\ UNCHANGED <<hookVars, sessionVars, viewVars, localVars, floor, quiet>>

(* Capture::shutdown. *)
Shutdown ==
  /\ pc = "idle"
  /\ device' = "no" /\ attached' = 0
  /\ view' = 0 /\ hookWindow' = 0 /\ textureMapId' = 0
  /\ textureHandle' = NoHandle /\ source' = 0
  /\ result' = "none"
  /\ UNCHANGED <<hookVars, pc, localVars, floor, quiet>>

-----------------------------------------------------------------------------
HookStep ==
  \/ HookAllocates \/ HookFrees
  \/ \E word \in Words : HookWrites(word)

ClientStep ==
  \/ Call \/ Attach \/ Shutdown
  \/ ReadType \/ ReadWindow \/ ReadMapId \/ OpenView \/ ReadHandle
  \/ CompareHandle \/ OpenResource

Next == HookStep \/ ClientStep

Spec == Init /\ [][Next]_vars

-----------------------------------------------------------------------------
(* Properties *)

(* When refreshSharedTexture returns true, the source texture is one the   *)
(* hook had not yet superseded when the call began, however the hook's     *)
(* writes fell between the reads (obsc.cpp:489-510).                       *)
FreshWhenTrue == result = "true" => source >= floor

(* No failure is kept: a call during which the hook, its capture complete, *)
(* does nothing returns false only for want of a device, whatever torn     *)
(* mixture of old and new words the calls before it saw; and then only to  *)
(* a session that is not attached, or was before that capture was complete *)
(* and took the hook for one without a texture (obsc.cpp:147, 487-508).    *)
NoFalseAlarm ==
  result = "false" /\ quiet = "yes" => device = "no" /\ attached < published

-----------------------------------------------------------------------------
(* The texture held is current while it is of the last capture that the    *)
(* hook has completed and that the client knows of.                        *)
textureState ==
  CASE source = 0 -> "none"
    [] source # 0 /\ source >= published /\ source >= view -> "current"
    [] OTHER -> "stale"

(* It was when the call in progress began, or has been since. *)
wasCurrent == pc # "idle" /\ source # 0 /\ source >= floor /\ source >= view

Contract == INSTANCE TextureContract WITH
  texture <- textureState, busy <- (pc # "idle"), fresh <- wasCurrent

(* However the hook's writes fall between the reads, a call has one of the *)
(* outcomes of the contract: it succeeds with a texture that was current   *)
(* during it, replaces what it held by the current one only, and fails     *)
(* otherwise with what it held, throwing only if that is not current: the  *)
(* remembered handle is always that of the texture held                    *)
(* (obsc.cpp:489-523).                                                     *)
ImplementsContract == Contract!ContractSpec

=============================================================================
