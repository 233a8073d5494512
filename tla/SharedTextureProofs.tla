------------------------ MODULE SharedTextureProofs ------------------------
(***************************************************************************)
(* Proofs about SharedTexture, for any number of publications, windows and *)
(* handles.                                                                *)
(***************************************************************************)
EXTENDS SharedTexture, TLAPS

(* Which publication each word the client can read belongs to: the latest  *)
(* begun if the hook has written it, the one before otherwise.             *)
WordsInOrder ==
  /\ live = 0 => todo = {}
  /\ published = IF todo = {} THEN count ELSE count - 1
  /\ shared.map_id = IF "map_id" \in todo THEN count - 1 ELSE count
  /\ todo = {} /\ count > 0 =>
       /\ shared.type = made[count].type
       /\ shared.window = made[count].window
  /\ count > 0 /\ "type" \notin todo => shared.type = made[count].type
  /\ count > 0 /\ "window" \notin todo => shared.window = made[count].window
  /\ \A i \in 1..count :
       texHandle[i] = IF i = count /\ "tex_handle" \in todo
                        THEN NoHandle ELSE made[i].handle
  /\ \A i \in Ids : i > count => texHandle[i] = NoHandle

(* The remembered ids are those of the mapping in view. *)
ViewNamed ==
  view # 0 => textureMapId = view /\ hookWindow = made[view].window

(* A texture's handle is not given to a later one while the client holds   *)
(* the texture, and only textures have one.                                *)
HandlesApart ==
  /\ source # 0 =>
       /\ made[source].handle = textureHandle
       /\ made[source].handle \in Handles
       /\ \A j \in 1..count : j > source => made[j].handle # made[source].handle
  /\ \A i \in 1..count : made[i].type = "Texture" <=> made[i].handle \in Handles

(* What the call has found so far is no older than its beginning. *)
CallIsFresh ==
  /\ floor <= published
  /\ pc = "openView" => mapId >= floor
  /\ pc \in {"readHandle", "compareHandle", "openResource"} =>
       view # 0 /\ view >= floor
  /\ pc \in {"compareHandle", "openResource"} =>
       handle \in {NoHandle, made[view].handle}
  /\ pc = "openResource" => handle # NoHandle
  /\ pc # "idle" => result = "none"

(* A call that nothing disturbs sees one publication only. *)
QuietCall ==
  quiet = "yes" /\ pc # "idle" =>
    /\ live # 0 /\ todo = {}
    /\ made[count].type = "Texture"
    /\ pc \in {"readMapId", "openView"} => window = made[count].window
    /\ pc = "openView" => mapId = count
    /\ pc \in {"readHandle", "compareHandle", "openResource"} => view = count
    /\ pc \in {"compareHandle", "openResource"} => handle = made[count].handle

(* Without a device nothing has been opened; and attach went through       *)
(* without one because the capture it found has no texture.                *)
NoDevice ==
  /\ device = "no" => source = 0 /\ pc \in {"idle", "readType"}
  /\ device = "no" /\ attached = published /\ count > 0 /\ todo = {} =>
       made[count].type # "Texture"

IInv ==
  /\ TypeOK /\ WordsInOrder /\ ViewNamed /\ HandlesApart /\ CallIsFresh
  /\ QuietCall /\ NoDevice /\ FreshWhenTrue /\ NoFalseAlarm

-----------------------------------------------------------------------------
LEMMA InitHolds == Init => IInv
<1> SUFFICES ASSUME Init PROVE IInv
  OBVIOUS
<1> USE SharedTextureAssumption DEF Init
<1>1. TypeOK
  BY DEF TypeOK, Ids, Made, CaptureTypes, AnyWindow, AnyHandle, Steps, Words
<1>2. WordsInOrder
  BY DEF WordsInOrder, Ids
<1>3. ViewNamed /\ HandlesApart /\ CallIsFresh /\ QuietCall
  BY DEF ViewNamed, HandlesApart, CallIsFresh, QuietCall
<1>4. NoDevice
  BY DEF NoDevice
<1>5. FreshWhenTrue /\ NoFalseAlarm
  BY DEF FreshWhenTrue, NoFalseAlarm
<1> QED BY <1>1, <1>2, <1>3, <1>4, <1>5 DEF IInv

LEMMA IdsInOrder ==
  ASSUME IInv
  PROVE  /\ count \in Nat /\ published \in Nat /\ floor \in Nat
         /\ published <= count /\ floor <= published
         /\ live \in {0, count} /\ view \in 0..count /\ source \in 0..count
         /\ 1..count \subseteq Ids
         /\ \A j \in 1..count : made[j] \in Made
BY SharedTextureAssumption DEF IInv, TypeOK, Ids

LEMMA HookAllocatesKeeps == ASSUME IInv, HookAllocates PROVE IInv'
<1> USE IdsInOrder DEF IInv, HookAllocates, HookActs, sessionVars, viewVars,
                       textureVars, localVars
<1>0. PICK m \in Made :
        /\ made' = [made EXCEPT ![count + 1] = m]
        /\ m.type = "Texture" <=> m.handle \in Handles
        /\ source # 0 => m.handle # made[source].handle \/ m.type # "Texture"
  <2>0. count' = count + 1
    OBVIOUS
  <2>1. ASSUME NEW w \in Windows, NEW h \in Handles \ HandlesInUse
        PROVE  LET m == [type |-> "Texture", window |-> w, handle |-> h]
               IN  /\ m \in Made
                   /\ m.type = "Texture" <=> m.handle \in Handles
                   /\ source # 0 => m.handle # made[source].handle
    BY DEF HandlesInUse, Made, CaptureTypes, AnyWindow, AnyHandle
  <2>2. ASSUME NEW w \in Windows, NEW h \in {NoHandle, Noise}
        PROVE  LET m == [type |-> "Memory", window |-> w, handle |-> h]
               IN  /\ m \in Made
                   /\ m.type = "Texture" <=> m.handle \in Handles
                   /\ m.type # "Texture"
    BY SharedTextureAssumption DEF Made, CaptureTypes, AnyWindow, AnyHandle
  <2>3. CASE \E w \in Windows, h \in Handles \ HandlesInUse :
               made' = [made EXCEPT ![count + 1] =
                          [type |-> "Texture", window |-> w, handle |-> h]]
    <3> HIDE DEF HookAllocates, IInv
    <3> QED BY <2>1, <2>3
  <2>4. CASE \E w \in Windows, h \in {NoHandle, Noise} :
               made' = [made EXCEPT ![count + 1] =
                          [type |-> "Memory", window |-> w, handle |-> h]]
    <3> HIDE DEF HookAllocates, IInv
    <3> QED BY <2>2, <2>4
  <2> QED
    <3> HIDE DEF IInv, HookActs
    <3> QED BY <2>0, <2>3, <2>4
<1>1. /\ live = 0 /\ todo = {} /\ published = count
      /\ count' = count + 1 /\ live' = count + 1 /\ count + 1 \in Ids
      /\ made \in [Ids -> Made]
  BY SharedTextureAssumption DEF WordsInOrder, TypeOK, Ids
<1>2. /\ made'[count + 1] = m
      /\ \A i \in 1..count : made'[i] = made[i]
      /\ made' \in [Ids -> Made]
  BY <1>0, <1>1
<1> HIDE DEF HookAllocates
<1> USE <1>1, <1>2
<1>3. UNCHANGED <<published, shared, texHandle, view, hookWindow, textureMapId,
                  textureHandle, source, pc, window, mapId, handle, result,
                  floor, device, attached>>
        /\ todo' = Words
        /\ quiet' = IF pc = "idle" THEN quiet ELSE "no"
  BY DEF HookAllocates
<1> USE <1>3
<1>4. TypeOK'
  BY SharedTextureAssumption DEF TypeOK, Ids
<1>5. WordsInOrder'
  <2>1. /\ live' # 0 /\ todo' # {}
        /\ {"map_id", "type", "window", "tex_handle"} \subseteq todo'
    BY DEF Words
  <2>2. \A i \in 1..count' :
          texHandle'[i] = IF i = count' /\ "tex_handle" \in todo'
                            THEN NoHandle ELSE made'[i].handle
    BY <2>1 DEF WordsInOrder
  <2>3. shared'.map_id = count' - 1 /\ published' = count' - 1
    BY DEF WordsInOrder
  <2>4. \A i \in Ids : i > count' => texHandle'[i] = NoHandle
    BY DEF WordsInOrder, Ids
  <2> QED BY <2>1, <2>2, <2>3, <2>4 DEF WordsInOrder
<1>6. ViewNamed'
  BY DEF ViewNamed
<1>7. HandlesApart'
  BY <1>0 DEF HandlesApart
<1>8. CallIsFresh'
  BY DEF CallIsFresh
<1>9. QuietCall'
  BY DEF QuietCall, TypeOK
<1>10. FreshWhenTrue' /\ NoFalseAlarm'
  BY DEF FreshWhenTrue, NoFalseAlarm
<1>11. NoDevice'
  BY DEF NoDevice, Words
<1> QED BY <1>4, <1>5, <1>6, <1>7, <1>8, <1>9, <1>10, <1>11 DEF IInv

LEMMA HookWritesKeeps ==
  ASSUME IInv, NEW word \in Words, HookWrites(word)
  PROVE  IInv'
<1> USE IdsInOrder DEF IInv, HookWrites, HookActs, sessionVars, viewVars,
                       textureVars, localVars
<1>0. live = count /\ count \in Ids /\ made[count] \in Made
  BY DEF TypeOK, Ids
<1>1. TypeOK'
  BY <1>0, SharedTextureAssumption
     DEF TypeOK, WordsInOrder, Made, Words
<1>2. WordsInOrder'
  <2> USE <1>0
  <2>1. CASE word = "tex_handle"
    <3>1. /\ texHandle'[count] = made[count].handle
          /\ \A i \in Ids : i # count => texHandle'[i] = texHandle[i]
          /\ UNCHANGED <<shared, made, count, live>>
          /\ todo' = todo \ {"tex_handle"}
      BY <2>1 DEF TypeOK, Words
    <3>2. \A i \in 1..count' :
            texHandle'[i] = IF i = count' /\ "tex_handle" \in todo'
                              THEN NoHandle ELSE made'[i].handle
      BY <3>1 DEF WordsInOrder
    <3>3. \A i \in Ids : i > count' => texHandle'[i] = NoHandle
      BY <3>1 DEF WordsInOrder, Ids
    <3> QED BY <2>1, <3>1, <3>2, <3>3 DEF WordsInOrder
  <2>2. CASE word = "type"
    BY <2>2 DEF WordsInOrder, TypeOK, Words
  <2>3. CASE word = "window"
    BY <2>3 DEF WordsInOrder, TypeOK, Words
  <2>4. CASE word = "map_id"
    BY <2>4 DEF WordsInOrder, TypeOK, Words
  <2> QED BY <2>1, <2>2, <2>3, <2>4 DEF Words
<1>3. ViewNamed' /\ HandlesApart'
  BY DEF ViewNamed, HandlesApart
<1>4. CallIsFresh'
  BY <1>0 DEF CallIsFresh
<1>5. QuietCall'
  BY DEF QuietCall
<1>6. FreshWhenTrue' /\ NoFalseAlarm'
  <2>1. published' >= published /\ published' \in Nat /\ attached \in Nat
    BY <1>0 DEF TypeOK
  <2> QED BY <2>1 DEF FreshWhenTrue, NoFalseAlarm
<1>7. NoDevice'
  BY DEF NoDevice, WordsInOrder, TypeOK
<1> QED BY <1>1, <1>2, <1>3, <1>4, <1>5, <1>6, <1>7 DEF IInv

LEMMA HookFreesKeeps == ASSUME IInv, HookFrees PROVE IInv'
<1> USE IdsInOrder DEF IInv, HookFrees, HookActs, sessionVars, viewVars,
                       textureVars, localVars
<1>1. TypeOK'
  BY DEF TypeOK
<1>2. WordsInOrder'
  BY DEF WordsInOrder
<1>3. ViewNamed' /\ HandlesApart'
  BY DEF ViewNamed, HandlesApart
<1>4. CallIsFresh' /\ QuietCall'
  BY DEF CallIsFresh, QuietCall
<1>5. FreshWhenTrue' /\ NoFalseAlarm'
  BY DEF FreshWhenTrue, NoFalseAlarm
<1>6. NoDevice'
  BY DEF NoDevice, WordsInOrder, TypeOK
<1> QED BY <1>1, <1>2, <1>3, <1>4, <1>5, <1>6 DEF IInv

LEMMA CallKeeps == ASSUME IInv, Call PROVE IInv'
<1> USE IdsInOrder DEF IInv, Call, Begin, hookVars, sessionVars,
                       viewVars, textureVars, localVars
<1>1. TypeOK'
  BY DEF TypeOK, Steps
<1>2. WordsInOrder'
  BY DEF WordsInOrder
<1>3. ViewNamed'
  BY DEF ViewNamed
<1>4. HandlesApart'
  BY DEF HandlesApart
<1>5. CallIsFresh'
  BY DEF CallIsFresh
<1>6. QuietCall'
  BY DEF QuietCall
<1>7. FreshWhenTrue'
  BY DEF FreshWhenTrue
<1>8. NoFalseAlarm'
  BY DEF NoFalseAlarm
<1>9. NoDevice'
  BY DEF NoDevice, WordsInOrder, TypeOK
<1> QED BY <1>1, <1>2, <1>3, <1>4, <1>5, <1>6, <1>7, <1>8, <1>9 DEF IInv

LEMMA AttachKeeps == ASSUME IInv, Attach PROVE IInv'
<1> USE IdsInOrder DEF IInv, Attach, Begin, hookVars, sessionVars,
                       viewVars, textureVars, localVars
<1>1. TypeOK'
  BY DEF TypeOK, Steps
<1>2. WordsInOrder'
  BY DEF WordsInOrder
<1>3. ViewNamed'
  BY DEF ViewNamed
<1>4. HandlesApart'
  BY DEF HandlesApart
<1>5. CallIsFresh'
  BY DEF CallIsFresh
<1>6. QuietCall'
  BY DEF QuietCall
<1>7. FreshWhenTrue'
  BY DEF FreshWhenTrue
<1>8. NoFalseAlarm'
  BY DEF NoFalseAlarm
<1>9. NoDevice'
  BY DEF NoDevice, WordsInOrder, TypeOK
<1> QED BY <1>1, <1>2, <1>3, <1>4, <1>5, <1>6, <1>7, <1>8, <1>9 DEF IInv

LEMMA ReadTypeKeeps == ASSUME IInv, ReadType PROVE IInv'
<1> USE IdsInOrder DEF IInv, ReadType, hookVars, sessionVars,
                       viewVars, textureVars, localVars, Return, Goto
<1>1. TypeOK'
  BY DEF TypeOK, Steps
<1>2. WordsInOrder'
  BY DEF WordsInOrder
<1>3. ViewNamed'
  BY DEF ViewNamed
<1>4. HandlesApart'
  BY DEF HandlesApart
<1>5. CallIsFresh'
  BY DEF CallIsFresh
<1>6. QuietCall'
  BY DEF QuietCall
<1>7. FreshWhenTrue'
  BY DEF FreshWhenTrue, NoDevice
<1>8. NoFalseAlarm'
  <2>1. quiet = "yes" => count > 0 /\ shared.type = "Texture"
    BY DEF QuietCall, WordsInOrder, TypeOK
  <2>2. quiet = "yes" /\ device = "no" => attached # published
    BY <2>1 DEF QuietCall, NoDevice
  <2>3. attached \in Nat /\ attached <= published
    BY DEF TypeOK
  <2> QED BY <2>1, <2>2, <2>3 DEF NoFalseAlarm
<1>9. NoDevice'
  BY DEF NoDevice, WordsInOrder, TypeOK
<1> QED BY <1>1, <1>2, <1>3, <1>4, <1>5, <1>6, <1>7, <1>8, <1>9 DEF IInv

LEMMA ReadWindowKeeps == ASSUME IInv, ReadWindow PROVE IInv'
<1> USE IdsInOrder DEF IInv, ReadWindow, hookVars, sessionVars,
                       viewVars, textureVars, localVars, Return, Goto
<1>1. TypeOK'
  BY DEF TypeOK, Steps
<1>2. WordsInOrder'
  BY DEF WordsInOrder
<1>3. ViewNamed'
  BY DEF ViewNamed
<1>4. HandlesApart'
  BY DEF HandlesApart
<1>5. CallIsFresh'
  BY DEF CallIsFresh
<1>6. QuietCall'
  BY DEF QuietCall, WordsInOrder
<1>7. FreshWhenTrue'
  BY DEF FreshWhenTrue
<1>8. NoFalseAlarm'
  BY DEF NoFalseAlarm
<1>9. NoDevice'
  BY DEF NoDevice, WordsInOrder, TypeOK
<1> QED BY <1>1, <1>2, <1>3, <1>4, <1>5, <1>6, <1>7, <1>8, <1>9 DEF IInv

LEMMA ReadMapIdKeeps == ASSUME IInv, ReadMapId PROVE IInv'
<1> USE IdsInOrder DEF IInv, ReadMapId, hookVars, sessionVars,
                       viewVars, textureVars, localVars, Return, Goto
<1>1. TypeOK'
  BY DEF TypeOK, Steps
<1>2. WordsInOrder'
  BY DEF WordsInOrder
<1>3. ViewNamed'
  BY DEF ViewNamed
<1>4. HandlesApart'
  BY DEF HandlesApart
<1>5. CallIsFresh'
  BY DEF CallIsFresh, WordsInOrder, ViewIsCurrent, ViewNamed, TypeOK
<1>6. QuietCall'
  BY DEF QuietCall, WordsInOrder, ViewIsCurrent, ViewNamed, TypeOK
<1>7. FreshWhenTrue'
  BY DEF FreshWhenTrue
<1>8. NoFalseAlarm'
  BY DEF NoFalseAlarm
<1>9. NoDevice'
  BY DEF NoDevice, WordsInOrder, TypeOK
<1> QED BY <1>1, <1>2, <1>3, <1>4, <1>5, <1>6, <1>7, <1>8, <1>9 DEF IInv

LEMMA OpenViewKeeps == ASSUME IInv, OpenView PROVE IInv'
<1> USE IdsInOrder DEF IInv, OpenView, hookVars, sessionVars,
                       viewVars, textureVars, localVars, Return, Goto, KeepIds
<1>1. TypeOK'
  BY DEF TypeOK, Steps, Exists
<1>2. WordsInOrder'
  BY DEF WordsInOrder
<1>3. ViewNamed'
  BY DEF ViewNamed, Exists
<1>4. HandlesApart'
  BY DEF HandlesApart
<1>5. CallIsFresh'
  BY DEF CallIsFresh, Exists
<1>6. QuietCall'
  BY DEF QuietCall, Exists
<1>7. FreshWhenTrue'
  BY DEF FreshWhenTrue
<1>8. NoFalseAlarm'
  BY DEF NoFalseAlarm, QuietCall, Exists, TypeOK
<1>9. NoDevice'
  BY DEF NoDevice, WordsInOrder, TypeOK
<1> QED BY <1>1, <1>2, <1>3, <1>4, <1>5, <1>6, <1>7, <1>8, <1>9 DEF IInv

LEMMA ReadHandleKeeps == ASSUME IInv, ReadHandle PROVE IInv'
<1> USE IdsInOrder DEF IInv, ReadHandle, hookVars, sessionVars,
                       viewVars, textureVars, localVars, Return, Goto
<1>0. /\ handle' \in {NoHandle, made[view].handle}
      /\ todo = {} => handle' = made[view].handle
  BY DEF CallIsFresh, WordsInOrder
<1>1. TypeOK'
  BY DEF TypeOK, Steps, CallIsFresh, Ids
<1>2. WordsInOrder'
  BY DEF WordsInOrder
<1>3. ViewNamed'
  BY DEF ViewNamed
<1>4. HandlesApart'
  BY DEF HandlesApart
<1>5. CallIsFresh'
  BY <1>0 DEF CallIsFresh
<1>6. QuietCall'
  BY <1>0 DEF QuietCall, CallIsFresh
<1>7. FreshWhenTrue'
  BY DEF FreshWhenTrue
<1>8. NoFalseAlarm'
  BY DEF NoFalseAlarm
<1>9. NoDevice'
  BY DEF NoDevice, WordsInOrder, TypeOK
<1> QED BY <1>1, <1>2, <1>3, <1>4, <1>5, <1>6, <1>7, <1>8, <1>9 DEF IInv

LEMMA CompareHandleKeeps == ASSUME IInv, CompareHandle PROVE IInv'
<1> USE IdsInOrder DEF IInv, CompareHandle, hookVars, sessionVars,
                       viewVars, textureVars, localVars, Return, Goto
<1>0. handle # NoHandle /\ handle = textureHandle /\ source # 0 => source >= view
  BY DEF HandlesApart, CallIsFresh
<1>1. TypeOK'
  BY DEF TypeOK, Steps
<1>2. WordsInOrder'
  BY DEF WordsInOrder
<1>3. ViewNamed'
  BY DEF ViewNamed
<1>4. HandlesApart'
  BY DEF HandlesApart
<1>5. CallIsFresh'
  BY DEF CallIsFresh
<1>6. QuietCall'
  BY DEF QuietCall
<1>7. FreshWhenTrue'
  BY <1>0 DEF FreshWhenTrue, CallIsFresh
<1>8. NoFalseAlarm'
  BY SharedTextureAssumption DEF NoFalseAlarm, QuietCall, HandlesApart, TypeOK
<1>9. NoDevice'
  BY DEF NoDevice, WordsInOrder, TypeOK
<1> QED BY <1>1, <1>2, <1>3, <1>4, <1>5, <1>6, <1>7, <1>8, <1>9 DEF IInv

LEMMA OpenResourceKeeps == ASSUME IInv, OpenResource PROVE IInv'
<1> USE IdsInOrder DEF IInv, OpenResource, hookVars, sessionVars,
                       viewVars, textureVars, localVars, Return, Goto, TakeTexture
<1>0. ASSUME NEW i \in Named
      PROVE  /\ i \in 1..count /\ i \in {source, count} /\ i >= view
             /\ made[i].handle = handle /\ handle \in Handles
  BY DEF Named, HandlesApart, CallIsFresh
<1>1. TypeOK'
  BY <1>0 DEF TypeOK, Steps
<1>2. WordsInOrder'
  BY DEF WordsInOrder
<1>3. ViewNamed'
  BY DEF ViewNamed
<1>4. HandlesApart'
  BY <1>0 DEF HandlesApart
<1>5. CallIsFresh'
  BY DEF CallIsFresh
<1>6. QuietCall'
  BY DEF QuietCall
<1>7. FreshWhenTrue'
  BY <1>0 DEF FreshWhenTrue, CallIsFresh
<1>8. NoFalseAlarm'
  BY DEF NoFalseAlarm
<1>9. NoDevice'
  BY DEF NoDevice, WordsInOrder, TypeOK
<1> QED BY <1>1, <1>2, <1>3, <1>4, <1>5, <1>6, <1>7, <1>8, <1>9 DEF IInv

LEMMA ShutdownKeeps == ASSUME IInv, Shutdown PROVE IInv'
<1> USE IdsInOrder DEF IInv, Shutdown, hookVars, sessionVars,
                       viewVars, textureVars, localVars
<1>1. TypeOK'
  BY DEF TypeOK, AnyWindow, AnyHandle
<1>2. WordsInOrder'
  BY DEF WordsInOrder
<1>3. ViewNamed'
  BY DEF ViewNamed
<1>4. HandlesApart'
  BY DEF HandlesApart
<1>5. CallIsFresh'
  BY DEF CallIsFresh
<1>6. QuietCall'
  BY DEF QuietCall
<1>7. FreshWhenTrue'
  BY DEF FreshWhenTrue
<1>8. NoFalseAlarm'
  BY DEF NoFalseAlarm
<1>9. NoDevice'
  BY DEF NoDevice, WordsInOrder, TypeOK
<1> QED BY <1>1, <1>2, <1>3, <1>4, <1>5, <1>6, <1>7, <1>8, <1>9 DEF IInv

LEMMA Inductive == Spec => []IInv
<1>1. IInv /\ [Next]_vars => IInv'
  <2> SUFFICES ASSUME IInv, [Next]_vars PROVE IInv'
    OBVIOUS
  <2>1. CASE HookStep
    BY <2>1, HookAllocatesKeeps, HookWritesKeeps, HookFreesKeeps DEF HookStep
  <2>2. CASE ClientStep
    BY <2>2, CallKeeps, AttachKeeps, ReadTypeKeeps, ReadWindowKeeps, ReadMapIdKeeps,
       OpenViewKeeps, ReadHandleKeeps, CompareHandleKeeps, OpenResourceKeeps,
       ShutdownKeeps DEF ClientStep
  <2>3. CASE UNCHANGED vars
    BY <2>3 DEF IInv, TypeOK, WordsInOrder, ViewNamed, HandlesApart,
                CallIsFresh, QuietCall, NoDevice, FreshWhenTrue,
                NoFalseAlarm, vars, hookVars, sessionVars, viewVars, textureVars, localVars
  <2> QED BY <2>1, <2>2, <2>3 DEF Next
<1> QED BY <1>1, InitHolds, PTL DEF Spec

-----------------------------------------------------------------------------
(* When refreshSharedTexture returns true (obsc.cpp:510, 523), the texture *)
(* held was not superseded before the call, in whatever order the hook     *)
(* wrote its words and the client read them.                               *)
THEOREM NeverStaleWhenTrue == Spec => []FreshWhenTrue
<1>1. IInv => FreshWhenTrue
  BY DEF IInv
<1> QED BY <1>1, Inductive, PTL

(* The remembered handle is that of the texture held, through every failed *)
(* opening.                                                                *)
HandleNamesSource == source # 0 => made[source].handle = textureHandle

(* The shortcut of obsc.cpp:509 is sound: Context::textureHandle is the    *)
(* handle of the texture held.                                             *)
THEOREM HandleIsOfSource == Spec => []HandleNamesSource
<1>1. IInv => HandleNamesSource
  BY DEF IInv, HandlesApart, HandleNamesSource
<1> QED BY <1>1, Inductive, PTL

(* A call that neither the hook nor the system disturbs returns false only *)
(* in a session without a device, which is not attached or was before the  *)
(* hook completed its present capture (obsc.cpp:147, 487-490, 498, 508),   *)
(* whatever the calls before it met.                                       *)
THEOREM UndisturbedSucceeds == Spec => []NoFalseAlarm
<1>1. IInv => NoFalseAlarm
  BY DEF IInv
<1> QED BY <1>1, Inductive, PTL

(* The frames of a session never go back in time: the texture is replaced  *)
(* by one of a later publication only, though the handle that leads to it  *)
(* was read earlier and may have been given away since, and is let go by a *)
(* shutdown only (obsc.cpp:512-521).                                       *)
FramesGoForward ==
  [][source' # source => source' > source \/ (Shutdown /\ source' = 0)]_vars

THEOREM FramesNeverGoBack == Spec => FramesGoForward
<1>1. IInv /\ [Next]_vars
        => [source' # source => source' > source \/ (Shutdown /\ source' = 0)]_vars
  <2> SUFFICES ASSUME IInv, Next, source' # source
               PROVE  source' > source \/ (Shutdown /\ source' = 0)
    OBVIOUS
  <2>1. ClientStep
    BY DEF Next, HookStep, HookAllocates, HookWrites, HookFrees, HookActs,
           textureVars
  <2>2. CASE OpenResource
    <3>1. source' \in {live, source} \ {0} /\ live \in {0, count}
      BY <2>2 DEF OpenResource, TakeTexture, textureVars, Named, IInv, TypeOK
    <3>2. source' = count /\ source \in 0..count /\ count \in Nat
      BY <3>1 DEF IInv, TypeOK
    <3> QED
      BY <3>2
  <2>3. CASE Shutdown
    BY <2>3 DEF Shutdown
  <2> QED
    BY <2>1, <2>2, <2>3
       DEF ClientStep, Call, Attach, Begin, ReadType, ReadWindow, ReadMapId, OpenView,
           ReadHandle, CompareHandle, textureVars
<1> QED
  BY <1>1, Inductive, PTL DEF Spec, FramesGoForward

-----------------------------------------------------------------------------
(* The refinement of TextureContract *)

(* A view older than the texture held leads to that texture all the same,  *)
(* and what is opened is never what is held.                               *)
HeldIsKnown ==
  /\ view # 0 /\ source > view => made[view].handle = textureHandle
  /\ pc = "openResource" => ~(handle = textureHandle /\ source # 0)

LEMMA HookKeepsKnown == ASSUME IInv, HeldIsKnown, HookStep PROVE HeldIsKnown'
<1>1. UNCHANGED <<view, source, pc, handle, textureHandle>>
  BY DEF HookStep, HookAllocates, HookWrites, HookFrees, HookActs, viewVars,
         textureVars, localVars
<1>2. \A i \in 1..count : made'[i] = made[i]
  <2>1. CASE HookAllocates
    <3>1. PICK m : made' = [made EXCEPT ![count + 1] = m]
      BY <2>1 DEF HookAllocates
    <3>2. \A i \in 1..count : i # count + 1
      BY IdsInOrder
    <3> QED BY <3>1, <3>2, IdsInOrder DEF IInv, TypeOK
  <2>2. CASE HookFrees \/ \E word \in Words : HookWrites(word)
    BY <2>2 DEF HookFrees, HookWrites
  <2> QED BY <2>1, <2>2 DEF HookStep
<1>3. view # 0 => view \in 1..count
  BY IdsInOrder
<1> QED BY <1>1, <1>2, <1>3 DEF HeldIsKnown

LEMMA ClientKeepsKnown == ASSUME IInv, HeldIsKnown, ClientStep PROVE HeldIsKnown'
<1> USE DEF HeldIsKnown, hookVars, viewVars, textureVars, localVars
<1>1. CASE Call \/ Attach \/ ReadType \/ ReadWindow \/ ReadMapId \/ ReadHandle
  BY <1>1 DEF Call, Attach, Begin, ReadType, ReadWindow, ReadMapId, ReadHandle, Return, Goto
<1>2. CASE OpenView
  <2>1. view' \in {view, count}
    BY <1>2 DEF OpenView, Exists, IInv, TypeOK
  <2>2. UNCHANGED <<source, made, textureHandle>> /\ pc' # "openResource"
    BY <1>2 DEF OpenView, Goto, Return
  <2> QED BY <2>1, <2>2, IdsInOrder
<1>3. CASE CompareHandle
  BY <1>3 DEF CompareHandle, Return, Goto
<1>4. CASE OpenResource
  <2>1. UNCHANGED <<view, made, handle>> /\ pc' = "idle"
    BY <1>4 DEF OpenResource, TakeTexture, Return
  <2>2. \/ UNCHANGED <<source, textureHandle>>
        \/ textureHandle' = made[view].handle
    BY <1>4 DEF OpenResource, TakeTexture, IInv, CallIsFresh
  <2> QED BY <2>1, <2>2
<1>5. CASE Shutdown
  BY <1>5 DEF Shutdown
<1> QED BY <1>1, <1>2, <1>3, <1>4, <1>5 DEF ClientStep

LEMMA KnownHolds == Spec => [](IInv /\ HeldIsKnown)
<1>1. Init => HeldIsKnown
  BY DEF Init, HeldIsKnown
<1>2. IInv /\ HeldIsKnown /\ [Next]_vars => HeldIsKnown'
  <2>1. ASSUME HeldIsKnown, UNCHANGED vars PROVE HeldIsKnown'
    BY <2>1 DEF HeldIsKnown, vars, hookVars, viewVars, textureVars, localVars
  <2> QED BY <2>1, HookKeepsKnown, ClientKeepsKnown DEF Next
<1> QED BY <1>1, <1>2, Inductive, PTL DEF Spec

LEMMA HookRefines ==
  ASSUME IInv, IInv', HookStep
  PROVE  [Contract!ContractNext]_(Contract!contractVars)
<1>1. UNCHANGED <<view, source, pc, result, floor>>
  BY DEF HookStep, HookAllocates, HookWrites, HookFrees, HookActs, viewVars,
         textureVars
<1>2. published' \in {published, count}
  BY DEF HookStep, HookAllocates, HookWrites, HookFrees, IInv, TypeOK
<1>3. textureState' = IF textureState = "current" /\ ~(source >= published')
                        THEN "stale" ELSE textureState
  BY <1>1, <1>2, IdsInOrder DEF textureState
<1>4. wasCurrent' = wasCurrent
  BY <1>1 DEF wasCurrent
<1>5. CASE textureState' = textureState
  BY <1>1, <1>4, <1>5 DEF Contract!contractVars
<1>6. CASE textureState' # textureState
  BY <1>1, <1>3, <1>4, <1>6 DEF Contract!ContractNext, Contract!Supersede
<1> QED BY <1>5, <1>6

(* The steps that only read. *)
LEMMA ReadsRefine ==
  ASSUME IInv,
         Call \/ Attach \/ ReadType \/ ReadWindow \/ ReadMapId \/ ReadHandle
  PROVE  [Contract!ContractNext]_(Contract!contractVars)
<1>1. UNCHANGED <<view, source, published>>
  BY DEF Call, Attach, Begin, ReadType, ReadWindow, ReadMapId, ReadHandle,
         hookVars, viewVars, textureVars
<1>2. UNCHANGED textureState
  BY <1>1 DEF textureState
<1>3. CASE pc = "idle" /\ Begin
  <2>1. pc = "idle" /\ pc' # "idle" /\ result' = "none" /\ floor' = published
    BY <1>3 DEF Begin
  <2>2. wasCurrent' = (textureState = "current")
    BY <1>1, <2>1 DEF wasCurrent, textureState
  <2> QED
    BY <1>2, <2>1, <2>2 DEF Contract!ContractNext, Contract!Begin
<1>4. CASE pc # "idle" /\ Return("false")
  BY <1>2, <1>4 DEF Contract!ContractNext, Contract!Fail, Return, wasCurrent
<1>5. CASE pc # "idle" /\ pc' # "idle" /\ UNCHANGED <<result, floor>>
  BY <1>1, <1>2, <1>5 DEF Contract!contractVars, wasCurrent
<1>6. CASE pc = "idle" /\ pc' = "idle" /\ result' = "none"
  BY <1>2, <1>6 DEF Contract!ContractNext, Contract!Forget, wasCurrent
<1>7. CASE Call \/ Attach
  BY <1>3, <1>6, <1>7 DEF Call, Attach
<1>8. ReadType /\ device = "no" => source = 0
  BY DEF IInv, NoDevice
<1> QED
  BY <1>4, <1>5, <1>7, <1>8
     DEF ReadType, ReadWindow, ReadMapId, ReadHandle, Goto, Return

LEMMA OpenViewRefines ==
  ASSUME IInv, OpenView
  PROVE  [Contract!ContractNext]_(Contract!contractVars)
<1>1. UNCHANGED <<source, published, floor>> /\ pc = "openView"
  BY DEF OpenView, hookVars, textureVars
<1>2. CASE view' = view /\ Return("false")
  <2>1. UNCHANGED textureState
    BY <1>1, <1>2 DEF textureState
  <2> QED
    BY <1>1, <1>2, <2>1
       DEF Contract!ContractNext, Contract!Fail, Return, wasCurrent
<1>3. CASE view' \in {view, count} /\ Goto("readHandle")
  <2>1. view' >= view /\ view' \in Nat
    BY <1>3, IdsInOrder
  <2>2. /\ wasCurrent' => wasCurrent
        /\ textureState' \in {textureState,
             IF textureState = "current" THEN "stale" ELSE textureState}
    BY <1>1, <1>3, <2>1, IdsInOrder DEF wasCurrent, textureState, Goto
  <2>3. textureState' = textureState /\ textureState = "current"
          => wasCurrent' = wasCurrent
    BY <1>1, <1>3, <2>1, IdsInOrder DEF wasCurrent, textureState, Goto
  <2>4. wasCurrent \in BOOLEAN /\ wasCurrent' \in BOOLEAN
    BY DEF wasCurrent
  <2>5. pc # "idle" /\ pc' # "idle" /\ result' = result
    BY <1>1, <1>3 DEF Goto
  <2> QED
    BY <2>2, <2>3, <2>4, <2>5
       DEF Contract!ContractNext, Contract!Supersede, Contract!contractVars
<1> QED
  BY <1>2, <1>3 DEF OpenView, Exists, IInv, TypeOK

(* The shortcut: what is held has the handle the call found. *)
LEMMA CompareHandleRefines ==
  ASSUME IInv, CompareHandle
  PROVE  [Contract!ContractNext]_(Contract!contractVars)
<1>1. UNCHANGED <<view, source, published, floor>> /\ pc = "compareHandle"
  BY DEF CompareHandle, hookVars, viewVars, textureVars
<1>2. UNCHANGED textureState
  BY <1>1 DEF textureState
<1>3. CASE Return("false")
  BY <1>1, <1>2, <1>3
     DEF Contract!ContractNext, Contract!Fail, Return, wasCurrent
<1>4. CASE handle # NoHandle /\ handle = textureHandle /\ source # 0
           /\ Return("true")
  <2>1. source >= view /\ source >= floor
    BY <1>1, <1>4, IdsInOrder DEF IInv, HandlesApart, CallIsFresh
  <2>2. wasCurrent
    BY <1>1, <1>4, <2>1 DEF wasCurrent
  <2> QED
    BY <1>1, <1>2, <1>4, <2>2
       DEF Contract!ContractNext, Contract!Succeed, Return, wasCurrent
<1>5. CASE Goto("openResource")
  BY <1>1, <1>2, <1>5 DEF Contract!contractVars, Goto, wasCurrent
<1> QED BY <1>3, <1>4, <1>5 DEF CompareHandle

(* What is opened is the hook's, the latest there is; and an opening that  *)
(* fails was called for.                                                   *)
LEMMA OpenResourceRefines ==
  ASSUME IInv, HeldIsKnown, OpenResource
  PROVE  [Contract!ContractNext]_(Contract!contractVars)
<1>1. UNCHANGED <<view, published, count>> /\ pc = "openResource" /\ pc' = "idle"
  BY DEF OpenResource, TakeTexture, hookVars, viewVars, Return
<1>2. CASE source' \in Named /\ Return("true")
  <2>1. source' = count /\ count # 0
    BY <1>1, <1>2, IdsInOrder
       DEF Named, HeldIsKnown, IInv, HandlesApart
  <2>2. textureState' = "current"
    BY <1>1, <2>1, IdsInOrder DEF textureState
  <2> QED
    BY <1>1, <1>2, <2>2
       DEF Contract!ContractNext, Contract!Succeed, Return, wasCurrent
<1>3. CASE Return("threw") /\ UNCHANGED textureVars
  <2>1. UNCHANGED textureState
    BY <1>1, <1>3 DEF textureState, textureVars
  <2>2. textureState # "current"
    <3>1. /\ view # 0 /\ handle = made[view].handle
          /\ ~(handle = textureHandle /\ source # 0)
      BY <1>1 DEF HeldIsKnown, IInv, CallIsFresh
    <3>2. source # 0 => made[source].handle = textureHandle
      BY DEF IInv, HandlesApart
    <3>3. source # 0 => ~(source >= view)
      BY <3>1, <3>2, IdsInOrder DEF HeldIsKnown
    <3> QED BY <3>3 DEF textureState
  <2> QED
    BY <1>1, <1>3, <2>1, <2>2
       DEF Contract!ContractNext, Contract!Fail, Return, wasCurrent
<1> QED BY <1>2, <1>3 DEF OpenResource, TakeTexture

LEMMA ShutdownRefines ==
  ASSUME Shutdown
  PROVE  [Contract!ContractNext]_(Contract!contractVars)
BY DEF Shutdown, textureState, wasCurrent, Contract!ContractNext,
       Contract!Drop

(* refreshSharedTexture keeps TextureContract, for any number of           *)
(* publications, windows and handles, the values of handles reused: it     *)
(* behaves as if it looked at the hook's capture in one step, as Capture   *)
(* has it (obsc.cpp:485-524).                                              *)
THEOREM RefreshKeepsContract == Spec => ImplementsContract
<1>1. Init => Contract!ContractInit
  BY DEF Init, Contract!ContractInit, textureState, wasCurrent
<1>2. IInv /\ HeldIsKnown /\ IInv' /\ [Next]_vars
        => [Contract!ContractNext]_(Contract!contractVars)
  <2> SUFFICES ASSUME IInv, HeldIsKnown, IInv', [Next]_vars
               PROVE  [Contract!ContractNext]_(Contract!contractVars)
    OBVIOUS
  <2>1. CASE UNCHANGED vars
    BY <2>1 DEF vars, hookVars, viewVars, textureVars, textureState,
                wasCurrent, Contract!contractVars
  <2> QED
    BY <2>1, HookRefines, ReadsRefine, OpenViewRefines, CompareHandleRefines,
       OpenResourceRefines, ShutdownRefines DEF Next, ClientStep
<1> QED
  BY <1>1, <1>2, KnownHolds, PTL DEF Spec, ImplementsContract,
     Contract!ContractSpec

=============================================================================
