--------------------------- MODULE StagingProofs ---------------------------
(***************************************************************************)
(* Proofs about StagingCache, for textures of any length and UINTs of any  *)
(* width that holds it.                                                    *)
(***************************************************************************)
EXTENDS StagingCache, TLAPS

(* captureStripInto's bounds test accepts exactly the rectangles that lie  *)
(* in the texture: its UINT subtraction never wraps (obsc.cpp:244-246).    *)
LEMMA FitsExactly ==
  ASSUME NEW from \in Nat, NEW length \in Nat, NEW total \in 0..MaxLength
  PROVE Fits(from, length, total) <=> from + length <= total
<1>1. CASE from <= total
  <2>1. total - from \in 0..(UintSize - 1)
    BY <1>1, StagingAssumption
  <2>2. Uint(total - from) = total - from
    BY <2>1, StagingAssumption DEF Uint
  <2> QED BY <1>1, <2>1, <2>2, StagingAssumption DEF Fits
<1>2. CASE ~(from <= total)
  BY <1>2, StagingAssumption DEF Fits
<1> QED BY <1>1, <1>2

(* Only the readback surface outlives a call mapped, and then              *)
(* Context::surface refers to it.                                          *)
MappingsKnown ==
  /\ surface \in {"none", "readback"}
  /\ "readback" \in mapped => surface = "readback"
  /\ "strip" \in mapped => pc = "deliver" /\ kind = "strip"
  /\ pc \in {"ensure", "copy", "map"} => kind \notin mapped

(* Caches are those of the present source: a description is remembered     *)
(* only of textures that got their surface, which is all of them or none.  *)
CachesFitSource ==
  \A k \in Kinds :
    /\ desc[k] = NoLayout
         \/ /\ desc[k].format = source.format
            /\ source.format \notin Unqueryable
    /\ texture[k] # NoLayout /\ k \notin surfaces
         => source.format \in Unqueryable
    /\ k \in surfaces => texture[k] = desc[k]

(* What a call knows when it has come so far. *)
CallOnTrack ==
  /\ asked.kind = "strip" /\ pc # "idle" => asked.length > 0
  /\ pc \in {"ensure", "copy", "map", "deliver"} =>
       /\ source \in Layouts
       /\ kind = "strip" => asked.from + asked.length <= source.length
  /\ pc \in {"copy", "map", "deliver"} =>
       kind \in surfaces /\ texture[kind] = StagingDesc
  /\ pc \in {"map", "deliver"} => copied = "yes"

IInv == TypeOK /\ MappingsKnown /\ CachesFitSource /\ CallOnTrack

-----------------------------------------------------------------------------
LEMMA LayoutsAreTyped ==
  /\ NoLayout \notin Layouts
  /\ Layouts \cup {NoLayout}
       \subseteq [length: Nat, format: Formats \cup {"unknown"}]
BY StagingAssumption DEF Layouts, NoLayout

(* What is wanted of a staging texture has the source's format. *)
LEMMA WantedLayout ==
  ASSUME TypeOK, source \in Layouts,
         kind = "strip" => asked.length > 0
  PROVE  /\ StagingDesc \in [length: Nat, format: Formats \cup {"unknown"}]
         /\ StagingDesc.format = source.format
         /\ StagingDesc.length > 0
         /\ StagingDesc # NoLayout
BY StagingAssumption
   DEF TypeOK, StagingDesc, Layouts, NoLayout, Requests, Ints, kind, Kinds

LEMMA InitHolds == Init => IInv
<1> SUFFICES ASSUME Init PROVE IInv
  OBVIOUS
<1>1. TypeOK
  BY StagingAssumption, LayoutsAreTyped
     DEF Init, TypeOK, Kinds, Requests, Ints, Steps, NoLayout
<1>2. MappingsKnown
  BY DEF Init, MappingsKnown
<1>3. CachesFitSource
  BY DEF Init, CachesFitSource
<1>4. CallOnTrack
  BY DEF Init, CallOnTrack
<1> QED BY <1>1, <1>2, <1>3, <1>4 DEF IInv

LEMMA CallKeeps ==
  ASSUME IInv, NEW request \in Requests, Call(request)
  PROVE  IInv'
<1> USE DEF IInv, Call, cacheVars
<1>1. TypeOK'
  BY DEF TypeOK, Steps
<1>2. MappingsKnown'
  BY DEF MappingsKnown, kind
<1>3. CachesFitSource'
  BY DEF CachesFitSource
<1>4. CallOnTrack'
  BY DEF CallOnTrack
<1> QED BY <1>1, <1>2, <1>3, <1>4

(* What resetStagingCaches leaves fits any source. *)
LEMMA ResetFits ==
  ASSUME IInv, ResetStagingCaches, pc \in {"idle", "refresh"}, UNCHANGED asked,
         source' \in Layouts \cup {NoLayout},
         pc' = IF pc = "idle" THEN "idle" ELSE "prepare", UNCHANGED copied
  PROVE  IInv'
<1> USE DEF IInv, ResetStagingCaches, UnmapSurface
<1>1. TypeOK'
  BY LayoutsAreTyped DEF TypeOK, Steps
<1>2. MappingsKnown'
  BY DEF MappingsKnown
<1>3. CachesFitSource'
  BY DEF CachesFitSource, Kinds
<1>4. CallOnTrack'
  BY DEF CallOnTrack
<1> QED BY <1>1, <1>2, <1>3, <1>4

LEMMA RefreshKeeps == ASSUME IInv, Refresh PROVE IInv'
<1>1. CASE UNCHANGED <<source, cacheVars, surface, mapped>>
  <2> USE <1>1 DEF IInv, Refresh, cacheVars
  <2>0. pc' \in {"idle", "prepare"} /\ UNCHANGED <<copied, asked>>
    OBVIOUS
  <2>1. TypeOK'
    BY <2>0 DEF TypeOK, Steps
  <2>2. MappingsKnown'
    BY <2>0 DEF MappingsKnown, kind
  <2>3. CachesFitSource'
    BY DEF CachesFitSource
  <2>4. CallOnTrack'
    BY <2>0 DEF CallOnTrack
  <2> QED BY <2>1, <2>2, <2>3, <2>4
<1>2. CASE source' \in Layouts /\ ResetStagingCaches /\ pc' = "prepare"
  BY <1>2, ResetFits DEF Refresh
<1> QED BY <1>1, <1>2 DEF Refresh

LEMMA ShutdownKeeps == ASSUME IInv, Shutdown PROVE IInv'
BY ResetFits DEF Shutdown

LEMMA PrepareKeeps == ASSUME IInv, Prepare PROVE IInv'
<1> USE DEF IInv, Prepare, cacheVars
<1>1. TypeOK'
  BY DEF TypeOK, Steps, UnmapSurface
<1>2. MappingsKnown'
  BY DEF MappingsKnown, UnmapSurface, TypeOK, Requests, Kinds, kind
<1>3. CachesFitSource'
  BY DEF CachesFitSource
<1>4. CallOnTrack'
  <2>1. pc' \in {"idle", "ensure"}
    OBVIOUS
  <2>2. pc' = "ensure" => source \in Layouts
    BY DEF TypeOK
  <2>3. ASSUME pc' = "ensure", kind = "strip"
        PROVE  asked.from + asked.length <= source.length
    <3>1. source.length \in 0..MaxLength /\ asked.from \in Nat
            /\ asked.length \in Nat
      BY <2>2, <2>3, StagingAssumption
         DEF TypeOK, Layouts, Requests, Ints
    <3>2. Fits(asked.from, asked.length, source.length)
      BY <2>3
    <3> QED BY <3>1, <3>2, FitsExactly
  <2> QED BY <2>1, <2>2, <2>3 DEF CallOnTrack, kind
<1> QED BY <1>1, <1>2, <1>3, <1>4

(* A cached texture taken for reusable has its surface and the exact       *)
(* description wanted.                                                     *)
LEMMA ReusableIsWhole ==
  ASSUME IInv, pc = "ensure", Reusable
  PROVE  kind \in surfaces /\ texture[kind] = StagingDesc
<1> USE DEF IInv
<1>1. /\ StagingDesc \in [length: Nat, format: Formats \cup {"unknown"}]
      /\ StagingDesc.format = source.format
      /\ StagingDesc.length > 0
  BY WantedLayout DEF CallOnTrack, kind
<1>2. kind \in Kinds
  BY DEF TypeOK, Requests, kind
<1>3. desc[kind] \in [length: Nat, format: Formats \cup {"unknown"}]
  BY <1>2 DEF TypeOK
<1>4. desc[kind] = StagingDesc
  BY <1>1, <1>3 DEF Reusable, SameDesc
<1>5. source.format \notin Unqueryable
  BY <1>1, <1>2, <1>4 DEF CachesFitSource, NoLayout
<1> QED BY <1>2, <1>4, <1>5 DEF CachesFitSource, Reusable

LEMMA EnsureKeeps == ASSUME IInv, Ensure PROVE IInv'
<1> USE DEF IInv, Ensure, cacheVars
<1>1. /\ kind \in Kinds /\ source \in Layouts
      /\ UNCHANGED <<kind, StagingDesc>>
  BY DEF TypeOK, Requests, CallOnTrack, kind, StagingDesc
<1>2. /\ StagingDesc \in [length: Nat, format: Formats \cup {"unknown"}]
      /\ StagingDesc.format = source.format
      /\ StagingDesc # NoLayout
  BY <1>1, WantedLayout DEF CallOnTrack, kind
<1>3. CASE Reusable /\ pc' = "copy" /\ UNCHANGED cacheVars
  <2>1. kind \in surfaces /\ texture[kind] = StagingDesc
    BY <1>3, ReusableIsWhole
  <2>2. TypeOK'
    BY <1>3 DEF TypeOK, Steps
  <2>3. MappingsKnown'
    BY <1>1, <1>3 DEF MappingsKnown
  <2>4. CachesFitSource'
    BY <1>3 DEF CachesFitSource
  <2>5. CallOnTrack'
    BY <1>1, <1>3, <2>1 DEF CallOnTrack
  <2> QED BY <2>2, <2>3, <2>4, <2>5
<1>4. CASE CreateFails
  <2> USE <1>4 DEF CreateFails
  <2>1. TypeOK'
    BY LayoutsAreTyped DEF TypeOK, Steps
  <2>2. MappingsKnown'
    BY <1>1 DEF MappingsKnown
  <2>3. CachesFitSource'
    BY <1>1 DEF CachesFitSource, TypeOK
  <2>4. CallOnTrack'
    BY DEF CallOnTrack
  <2> QED BY <2>1, <2>2, <2>3, <2>4
<1>5. CASE QueryFails
  <2> USE <1>5 DEF QueryFails
  <2>1. TypeOK'
    BY <1>2 DEF TypeOK, Steps
  <2>2. MappingsKnown'
    BY <1>1 DEF MappingsKnown
  <2>3. CachesFitSource'
    BY <1>1 DEF CachesFitSource, TypeOK
  <2>4. CallOnTrack'
    BY DEF CallOnTrack
  <2> QED BY <2>1, <2>2, <2>3, <2>4
<1>6. CASE Built
  <2> USE <1>6 DEF Built
  <2>1. TypeOK'
    BY <1>1, <1>2 DEF TypeOK, Steps
  <2>2. MappingsKnown'
    BY <1>1 DEF MappingsKnown
  <2>3. CachesFitSource'
    BY <1>1, <1>2 DEF CachesFitSource, TypeOK
  <2>4. CallOnTrack'
    BY <1>1 DEF CallOnTrack, TypeOK
  <2> QED BY <2>1, <2>2, <2>3, <2>4
<1> QED BY <1>3, <1>4, <1>5, <1>6

LEMMA CopyKeeps == ASSUME IInv, Copy PROVE IInv'
<1> USE DEF IInv, Copy, cacheVars
<1>1. TypeOK'
  BY DEF TypeOK, Steps
<1>2. MappingsKnown'
  BY DEF MappingsKnown, kind
<1>3. CachesFitSource'
  BY DEF CachesFitSource
<1>4. UNCHANGED <<kind, StagingDesc>>
  BY DEF kind, StagingDesc
<1>5. CallOnTrack'
  BY <1>4 DEF CallOnTrack, MappingsKnown
<1> QED BY <1>1, <1>2, <1>3, <1>5

LEMMA MapKeeps == ASSUME IInv, Map PROVE IInv'
<1> USE DEF IInv, Map, cacheVars
<1>1. kind \in Kinds /\ UNCHANGED <<kind, StagingDesc>>
  BY DEF TypeOK, Requests, kind, StagingDesc
<1>2. TypeOK'
  BY <1>1 DEF TypeOK, Steps
<1>3. MappingsKnown'
  BY <1>1 DEF MappingsKnown, Kinds
<1>4. CachesFitSource'
  BY DEF CachesFitSource
<1>5. CallOnTrack'
  BY <1>1 DEF CallOnTrack
<1> QED BY <1>2, <1>3, <1>4, <1>5

LEMMA DeliverKeeps == ASSUME IInv, Deliver PROVE IInv'
<1> USE DEF IInv, Deliver, cacheVars
<1>1. TypeOK'
  BY DEF TypeOK, Steps, UnmapSurface
<1>2. MappingsKnown'
  BY DEF MappingsKnown, UnmapSurface, TypeOK
<1>3. CachesFitSource'
  BY DEF CachesFitSource
<1>4. CallOnTrack'
  BY DEF CallOnTrack
<1> QED BY <1>1, <1>2, <1>3, <1>4

LEMMA NextKeeps == IInv /\ [Next]_vars => IInv'
<1> SUFFICES ASSUME IInv, [Next]_vars PROVE IInv'
  OBVIOUS
<1>1. CASE \E request \in Requests : Call(request)
  BY <1>1, CallKeeps
<1>2. CASE Refresh
  BY <1>2, RefreshKeeps
<1>3. CASE Prepare
  BY <1>3, PrepareKeeps
<1>4. CASE Ensure
  BY <1>4, EnsureKeeps
<1>5. CASE Copy
  BY <1>5, CopyKeeps
<1>6. CASE Map
  BY <1>6, MapKeeps
<1>7. CASE Deliver
  BY <1>7, DeliverKeeps
<1>8. CASE Shutdown
  BY <1>8, ShutdownKeeps
<1>9. CASE UNCHANGED vars
  BY <1>9 DEF IInv, TypeOK, MappingsKnown, CachesFitSource, CallOnTrack, kind,
              StagingDesc, vars, cacheVars
<1> QED BY <1>1, <1>2, <1>3, <1>4, <1>5, <1>6, <1>7, <1>8, <1>9 DEF Next

LEMMA Inductive == Spec => []IInv
BY InitHolds, NextKeeps, PTL DEF Spec

-----------------------------------------------------------------------------
(* Every variable keeps its type. *)
THEOREM StagingTypeCorrect == Spec => []TypeOK
<1>1. IInv => TypeOK
  BY DEF IInv
<1> QED BY <1>1, Inductive, PTL

(* CopyResource and CopySubresourceRegion (obsc.cpp:264, 414) never get a  *)
(* mapped target: mapResource and captureStripInto unmap what a failed     *)
(* captureFrame left.                                                      *)
THEOREM CopiesIntoUnmapped == Spec => []CopyTargetUnmapped
<1>1. IInv => CopyTargetUnmapped
  BY DEF IInv, MappingsKnown, CopyTargetUnmapped
<1> QED BY <1>1, Inductive, PTL

(* The Map calls (obsc.cpp:268, 417) never go through a null surface,      *)
(* whichever creations and queries failed before.                          *)
THEOREM MapsARealSurface == Spec => []SurfaceToMap
<1>1. IInv => SurfaceToMap
  BY DEF IInv, CallOnTrack, SurfaceToMap
<1> QED BY <1>1, Inductive, PTL

(* What captureFrame and captureStripInto hand out was copied by the same  *)
(* call, out of the texture's bounds never, at the size asked for.         *)
THEOREM DeliversAsAsked == Spec => []DeliversWhatWasAsked
<1>1. IInv => DeliversWhatWasAsked
  BY DEF IInv, CallOnTrack, DeliversWhatWasAsked
<1> QED BY <1>1, Inductive, PTL

=============================================================================
