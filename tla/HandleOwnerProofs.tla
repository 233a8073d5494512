------------------------- MODULE HandleOwnerProofs -------------------------
(***************************************************************************)
(* Proofs about HandleOwner, for any number of Capture objects and handle  *)
(* values: as long as objects moved from are only destroyed, the library   *)
(* closes no handle that is not its own, and loses none but the process    *)
(* each attach() opens and the handle of a wrapper that cannot be made.    *)
(*                                                                         *)
(* Until a call is made on an object moved from, ownership is sound: what  *)
(* a member holds is open and the library's, unless it dangles (Owned);    *)
(* nothing dangles but in objects moved from (DanglingWasMoved); and a     *)
(* handle has one holder among the live objects, others being copies of    *)
(* that pointer in objects moved from (OneOwner).                          *)
(***************************************************************************)
EXTENDS HandleOwner, TLAPS

Refs == Objects \X Members

HandleOf(r) == member[r[1]][r[2]]

TableValues == {"free", "ours", "other"} \cup LetGo

(* A member that holds a handle it may use and close. *)
Valid(r) == HandleOf(r) # Null /\ r \notin dangling

Owned == \A r \in Refs : Valid(r) => table[HandleOf(r)] = "ours"

DanglingWasMoved == \A r \in dangling : life[r[1]] = "moved" /\ r[2] \in Plain

OneOwner ==
  \A r, s \in Refs : Valid(r) /\ Valid(s) /\ HandleOf(r) = HandleOf(s) =>
    /\ r[2] = s[2]
    /\ life[r[1]] = "live" /\ life[s[1]] = "live" => r = s

(* What an object holds in each part of its life. *)
HoldsByLife ==
  \A o \in Objects :
    /\ life[o] = "unborn" => \A m \in Members : ~Holds(o, m)
    /\ life[o] = "moved" => \A m \in Smart : ~Holds(o, m)
    /\ life[o] = "live" /\ ~Holds(o, "keepalive") =>
         \A m \in Members : ~Holds(o, m)

(* An attach() under way takes its views into a Context without any. *)
AttachesAfresh ==
  \A o \in Objects :
    /\ Attaches(o) => life[o] = "live"
    /\ attaching[o] \in {"hookInfo", "views"} => Holds(o, "keepalive")
    /\ attaching[o] = "hookInfo" => \A m \in Plain : ~Holds(o, m)

(* What the library is to close is held by a member that will close it. *)
OursHeld ==
  \A h \in Handles : table[h] = "ours" =>
    \/ abandoned \/ misused
    \/ \E r \in Holding({h}) : r \notin dangling /\ life[r[1]] = "live"

SoundOwnership ==
  /\ Owned /\ DanglingWasMoved /\ OneOwner
  /\ HoldsByLife /\ AttachesAfresh
  /\ ~foreign
  /\ OursHeld

HandleInv == TypeOK /\ (~misused => SoundOwnership)

-----------------------------------------------------------------------------
LEMMA MemberNames ==
  /\ Smart \subseteq Members /\ Plain \subseteq Members
  /\ Members = Smart \cup Plain
  /\ "keepalive" \in Smart /\ "keepalive" \notin Plain
  /\ "hookInfo" \in Plain /\ "textureData" \in Plain
  /\ \A m \in Members : m \in Plain <=> m # "keepalive"
BY DEF Members, Smart, Plain

LEMMA RefShape ==
  /\ \A o \in Objects, m \in Members :
       /\ <<o, m>> \in Refs /\ <<o, m>>[1] = o /\ <<o, m>>[2] = m
  /\ \A r \in Refs : /\ r[1] \in Objects /\ r[2] \in Members
                     /\ r = <<r[1], r[2]>>
BY DEF Refs

LEMMA InitHolds == Init => HandleInv
<1> SUFFICES ASSUME Init PROVE HandleInv
  OBVIOUS
<1>1. TypeOK
  BY DEF Init, TypeOK, Empty
<1>2. \A r \in Refs : ~Valid(r)
  BY DEF Init, Valid, HandleOf, Empty, Refs
<1>3. Owned /\ OneOwner /\ DanglingWasMoved
  BY <1>2 DEF Init, Owned, OneOwner, DanglingWasMoved
<1>4. HoldsByLife /\ AttachesAfresh
  BY MemberNames DEF Init, HoldsByLife, AttachesAfresh, Holds, Empty, Attaches
<1>5. OursHeld
  BY DEF Init, OursHeld
<1> QED BY <1>1, <1>3, <1>4, <1>5 DEF HandleInv, SoundOwnership, Init

(* Steps that leave members and handles alone. *)
LEMMA StillSteps ==
  ASSUME HandleInv, NEW o \in Objects, Construct(o) \/ AttachEnds(o)
  PROVE  HandleInv'
<1>1. /\ UNCHANGED <<member, table, dangling, history>>
      /\ \/ /\ life[o] = "unborn" /\ life' = [life EXCEPT ![o] = "live"]
            /\ UNCHANGED attaching
         \/ /\ attaching' = [attaching EXCEPT ![o] = "no"]
            /\ UNCHANGED life
  BY DEF Construct, AttachEnds, GoesOnWith
<1> USE <1>1 DEF history
<1>2. TypeOK'
  BY DEF HandleInv, TypeOK
<1> SUFFICES ASSUME ~misused PROVE SoundOwnership'
  BY <1>2 DEF HandleInv
<1>3. \A r \in Refs : /\ Valid(r)' <=> Valid(r)
                     /\ HandleOf(r)' = HandleOf(r)
  BY DEF Valid, HandleOf
<1>4. Owned'
  BY <1>3 DEF HandleInv, SoundOwnership, Owned
<1>5. DanglingWasMoved'
  BY DEF HandleInv, TypeOK, SoundOwnership, DanglingWasMoved
<1>6. \A p \in Objects : (life[p] = "unborn")' => life[p] = "unborn"
  BY DEF HandleInv, TypeOK
<1>7. OneOwner'
  <2>1. \A r \in Refs : Valid(r) /\ life'[r[1]] = "live" => life[r[1]] = "live"
    BY RefShape DEF HandleInv, TypeOK, SoundOwnership, HoldsByLife, Valid, HandleOf, Holds
  <2> QED BY <1>3, <2>1 DEF HandleInv, SoundOwnership, OneOwner
<1>8. HoldsByLife'
  BY DEF HandleInv, TypeOK, SoundOwnership, HoldsByLife, Holds
<1>9. AttachesAfresh'
  BY DEF HandleInv, TypeOK, SoundOwnership, AttachesAfresh, Holds, Attaches
<1>10. OursHeld'
  BY DEF HandleInv, TypeOK, SoundOwnership, OursHeld, Holding
<1> QED BY <1>4, <1>5, <1>7, <1>8, <1>9, <1>10
           DEF HandleInv, SoundOwnership

(* An unborn object holds nothing, one moved from no wrapper. *)
LEMMA ValidHolders ==
  ASSUME HandleInv, ~misused, NEW r \in Refs, HandleOf(r) # Null
  PROVE  /\ life[r[1]] \in {"live", "moved"}
         /\ life[r[1]] = "live" => Valid(r)
         /\ r[2] \notin Plain => life[r[1]] = "live"
BY RefShape, MemberNames
   DEF HandleInv, TypeOK, SoundOwnership, DanglingWasMoved, HoldsByLife,
       Valid, HandleOf, Holds

(* A member of a live object takes a handle from Windows. *)
LEMMA AcquireKeeps ==
  ASSUME HandleInv, ~misused, NEW o \in Objects, NEW m \in Members,
         life[o] = "live", ~Holds(o, m), Acquire(o, m),
         UNCHANGED <<life, foreign, misused, abandoned>>
  PROVE  /\ Owned' /\ DanglingWasMoved' /\ OneOwner' /\ OursHeld'
         /\ \A p \in Objects, n \in Members :
              Holds(p, n)' <=> Holds(p, n) \/ <<p, n>> = <<o, m>>
<1>1. PICK h \in Handles : Open(h, "ours") /\ Set(o, m, h)
  BY DEF Acquire
<1> USE HandleAssumption, MemberNames, RefShape DEF HandleInv
<1> DEFINE new == <<o, m>>
<1>2. /\ member' = [member EXCEPT ![o] = [@ EXCEPT ![m] = h]]
      /\ table[h] = "free" /\ table' = [table EXCEPT ![h] = "ours"]
      /\ dangling' = dangling \ {new}
  BY <1>1 DEF Acquire, Open, Set
<1>3. \A r \in Refs : HandleOf(r)' = IF r = new THEN h ELSE HandleOf(r)
  BY <1>2 DEF TypeOK, HandleOf
<1>4. Valid(new)' /\ \A r \in Refs : r # new => (Valid(r)' <=> Valid(r))
  <2>1. h # Null /\ new \in Refs /\ new \notin dangling'
    BY <1>2
  <2>2. \A r \in Refs : r # new => (r \in dangling' <=> r \in dangling)
    BY <1>2
  <2> QED BY <1>3, <2>1, <2>2 DEF Valid
<1>5. \A r \in Refs : Valid(r) => HandleOf(r) # h /\ HandleOf(r) \in Handles
  BY <1>2 DEF SoundOwnership, Owned, Valid, HandleOf, TypeOK
<1>6. Owned'
  BY <1>2, <1>3, <1>4, <1>5 DEF TypeOK, SoundOwnership, Owned
<1>7. DanglingWasMoved'
  BY <1>2 DEF SoundOwnership, DanglingWasMoved
<1>8. OneOwner'
  BY <1>3, <1>4, <1>5 DEF SoundOwnership, OneOwner
<1>9. OursHeld'
  <2> SUFFICES ASSUME NEW g \in Handles, table'[g] = "ours", ~abandoned
               PROVE  \E r \in Refs : /\ HandleOf(r)' = g /\ r \notin dangling'
                                      /\ life[r[1]] = "live"
    BY DEF OursHeld, Holding, HandleOf, Refs
  <2>1. CASE g = h
    <3>1. new \in Refs /\ new \notin dangling' /\ new[1] = o
      BY <1>2
    <3>2. HandleOf(new)' = g
      BY <3>1, <2>1, <1>3
    <3> QED BY <3>1, <3>2
  <2>2. CASE g # h
    <3>1. PICK r \in Refs : HandleOf(r) = g /\ r \notin dangling
                            /\ life[r[1]] = "live"
      BY <2>2, <1>2 DEF TypeOK, SoundOwnership, OursHeld, Holding, HandleOf, Refs
    <3>2. r # new
      BY <3>1 DEF HandleOf, Holds
    <3> QED BY <3>1, <3>2, <1>2, <1>3
  <2> QED BY <2>1, <2>2
<1>10. \A p \in Objects, n \in Members :
         Holds(p, n)' <=> Holds(p, n) \/ <<p, n>> = <<o, m>>
  BY <1>2 DEF TypeOK, Holds
<1> QED BY <1>6, <1>7, <1>8, <1>9, <1>10

LEMMA SetTyped ==
  ASSUME member \in [Objects -> [Members -> Handles \cup {Null}]],
         NEW o \in Objects, NEW m \in Members,
         NEW h \in Handles \cup {Null}, Set(o, m, h)
  PROVE  member' \in [Objects -> [Members -> Handles \cup {Null}]]
<1>1. [member[o] EXCEPT ![m] = h] \in [Members -> Handles \cup {Null}]
  OBVIOUS
<1>2. member' = [member EXCEPT ![o] = [member[o] EXCEPT ![m] = h]]
  BY DEF Set
<1> QED
  BY <1>1, <1>2

LEMMA TypeHolds ==
  ASSUME TypeOK, [Next]_vars
  PROVE  TypeOK'
<1> USE HandleAssumption, MemberNames DEF TypeOK, TableValues
<1>1. ASSUME NEW o \in Objects, Construct(o) \/ AttachEnds(o) PROVE TypeOK'
  BY <1>1 DEF Construct, AttachEnds, GoesOnWith, history
<1>2. ASSUME NEW o \in Objects, AcquireKeepalive(o) \/ AcquireHookInfo(o)
      PROVE  TypeOK'
  <2>1. PICK m \in Members : Acquire(o, m)
    BY <1>2 DEF AcquireKeepalive, AcquireHookInfo
  <2>2. member' \in [Objects -> [Members -> Handles \cup {Null}]]
    BY <2>1, SetTyped DEF Acquire
  <2>3. table' \in [Handles -> TableValues]
    BY <2>1 DEF Acquire, Open
  <2>4. dangling' \subseteq Objects \X Members
    BY <2>1 DEF Acquire
  <2> QED BY <1>2, <2>2, <2>3, <2>4
          DEF AcquireKeepalive, AcquireHookInfo, GoesOnWith, history
<1>9. ASSUME NEW o \in Objects, AttachBegins(o) \/ WrapperFails(o)
      PROVE  TypeOK'
  <2>1. table' \in [Handles -> TableValues]
    BY <1>9 DEF AttachBegins, WrapperFails, Open, LetGo
  <2> QED BY <1>9, <2>1 DEF AttachBegins, WrapperFails, GoesOnWith, Called
<1>3. ASSUME NEW o \in Objects, NEW M, NEW N, NEW before, Close(o, M, N, before),
             before \in [Handles -> TableValues]
      PROVE  /\ table' \in [Handles -> TableValues]
             /\ dangling' \subseteq Objects \X Members
             /\ foreign' \in BOOLEAN
  BY <1>3 DEF Close, Holding
<1>4. ASSUME NEW o \in Objects, Refresh(o) PROVE TypeOK'
  <2>1. PICK h \in Handles : Replace(o, h)
    BY <1>4 DEF Refresh
  <2>2. [table EXCEPT ![h] = "ours"] \in [Handles -> TableValues]
    OBVIOUS
  <2>3. member' \in [Objects -> [Members -> Handles \cup {Null}]]
    BY <2>1, SetTyped DEF Replace
  <2> QED BY <1>3, <1>4, <2>1, <2>2, <2>3 DEF Refresh, Replace, Called
<1>5. ASSUME NEW o \in Objects, Shutdown(o) \/ Destroy(o) PROVE TypeOK'
  <2>1. PICK M : Close(o, M, Members, table)
    BY <1>5 DEF Shutdown, Destroy
  <2>2. member' \in [Objects -> [Members -> Handles \cup {Null}]]
    BY <1>5 DEF Shutdown, Destroy, Forgotten, Empty
  <2> QED BY <1>3, <1>5, <2>1, <2>2 DEF Shutdown, Destroy, Called, Abandons
<1>6. ASSUME NEW o \in Objects, NEW p \in Objects, Move(o, p) PROVE TypeOK'
  <2>1. member' \in [Objects -> [Members -> Handles \cup {Null}]]
    BY <1>6 DEF Move, MovedFrom
  <2>2. table' \in [Handles -> TableValues]
    BY <1>6 DEF Move
  <2>3. dangling' \subseteq Objects \X Members
    <3>1. {<<p, m>> : m \in {n \in Plain : <<o, n>> \in dangling}}
            \subseteq Objects \X Members
      <4>1. \A n \in Plain : <<p, n>> \in Objects \X Members
        OBVIOUS
      <4> QED BY ONLY <4>1
    <3>2. dangling \ ({p} \X Members) \subseteq Objects \X Members
      OBVIOUS
    <3> QED BY <1>6, <3>1, <3>2 DEF Move
  <2> QED BY <1>6, <2>1, <2>2, <2>3 DEF Move, Abandons
<1>7. ASSUME NEW h \in Handles, OtherOpens(h) \/ OtherCloses(h) PROVE TypeOK'
  BY <1>7 DEF OtherOpens, OtherCloses, Open, history
<1>8. CASE UNCHANGED vars
  BY <1>8 DEF vars, history
<1> QED BY <1>1, <1>2, <1>4, <1>5, <1>6, <1>7, <1>8, <1>9 DEF Next

LEMMA AttachSteps ==
  ASSUME HandleInv, NEW o \in Objects,
         AcquireKeepalive(o) \/ AcquireHookInfo(o), ~misused'
  PROVE  SoundOwnership'
<1> USE MemberNames DEF HandleInv, SoundOwnership
<1>1. ~misused /\ life[o] = "live"
  <2>1. ~misused /\ Attaches(o)
    BY DEF AcquireKeepalive, AcquireHookInfo, Attaches, history
  <2> QED BY <2>1 DEF AttachesAfresh
<1>2. PICK m \in {"keepalive", "hookInfo"} :
        /\ ~Holds(o, m) /\ Acquire(o, m)
        /\ IF m = "keepalive"
             THEN attaching[o] = "keepalive" /\ GoesOnWith(o, "hookInfo")
             ELSE attaching[o] = "hookInfo" /\ GoesOnWith(o, "views")
        /\ UNCHANGED <<life, foreign, abandoned>>
  BY <1>1 DEF AcquireKeepalive, NewSession, AcquireHookInfo, history,
              AttachesAfresh
<1>3. /\ Owned' /\ DanglingWasMoved' /\ OneOwner' /\ OursHeld'
      /\ \A p \in Objects, n \in Members :
           Holds(p, n)' <=> Holds(p, n) \/ <<p, n>> = <<o, m>>
  <2>1. UNCHANGED misused
    BY DEF AcquireKeepalive, AcquireHookInfo, history
  <2> QED BY <1>1, <1>2, <2>1, AcquireKeeps
<1>4. HoldsByLife'
  <2> SUFFICES ASSUME NEW p \in Objects PROVE HoldsByLife!(p)'
    BY DEF HoldsByLife
  <2>1. CASE p # o
    BY <2>1, <1>1, <1>2, <1>3 DEF HoldsByLife
  <2>2. CASE p = o
    <3>1. m = "hookInfo" => Holds(o, "keepalive")
      BY <1>1, <1>2 DEF AttachesAfresh, Attaches
    <3> QED BY <2>2, <3>1, <1>1, <1>2, <1>3 DEF HoldsByLife
  <2> QED BY <2>1, <2>2
<1>5. AttachesAfresh'
  <2> SUFFICES ASSUME NEW p \in Objects PROVE AttachesAfresh!(p)'
    BY DEF AttachesAfresh
  <2>1. CASE p # o
    BY <2>1, <1>1, <1>2, <1>3 DEF AttachesAfresh, GoesOnWith, Attaches, TypeOK
  <2>2. CASE p = o /\ m = "keepalive"
    BY <2>2, <1>1, <1>2, <1>3
       DEF AttachesAfresh, HoldsByLife, GoesOnWith, Attaches, TypeOK
  <2>3. CASE p = o /\ m = "hookInfo"
    BY <2>3, <1>1, <1>2, <1>3
       DEF AttachesAfresh, HoldsByLife, GoesOnWith, Attaches, TypeOK
  <2> QED BY <2>1, <2>2, <2>3, <1>2
<1> QED BY <1>1, <1>2, <1>3, <1>4, <1>5

(* shutdown() and the destructor: o lets go of everything and has closed   *)
(* what M held.                                                            *)
LEMMA ReleaseKeeps ==
  ASSUME HandleInv, ~misused, NEW o \in Objects, NEW M \in SUBSET Members,
         ~Attaches(o), life[o] = "live" \/ (life[o] = "moved" /\ M = Smart),
         Close(o, M, Members, table), Forgotten(o), UNCHANGED attaching,
         life' = life \/ life' = [life EXCEPT ![o] = "unborn"],
         abandoned => abandoned',
         life[o] = "live" /\ (\E m \in Members \ M : Holds(o, m)) => abandoned'
  PROVE  SoundOwnership'
<1> USE HandleAssumption, MemberNames, RefShape DEF HandleInv
<1> DEFINE closed == HandlesOf(o, M)
<1>1. /\ table' = [h \in Handles |-> IF h \in closed THEN "free" ELSE table[h]]
      /\ dangling' = (dangling \cup Holding(closed)) \ ({o} \X Members)
      /\ foreign' = (foreign \/ \E m \in M : <<o, m>> \in dangling)
      /\ member' = [member EXCEPT ![o] = Empty]
  BY DEF Close, Forgotten
<1>2. \A m \in M : Holds(o, m) => life[o] = "live"
  BY DEF SoundOwnership, HoldsByLife
<1>3. \A h \in closed :
        \E m \in M : /\ HandleOf(<<o, m>>) = h /\ Valid(<<o, m>>)
                    /\ life[o] = "live"
  BY <1>2 DEF HandlesOf, Holds, HandleOf, Valid, SoundOwnership, DanglingWasMoved
<1>4. \A r \in Refs : r[1] # o => HandleOf(r)' = HandleOf(r) /\ life'[r[1]] = life[r[1]]
  BY <1>1 DEF TypeOK, HandleOf
<1>5. \A r \in Refs : r[1] = o => HandleOf(r)' = Null /\ ~Valid(r)'
  BY <1>1 DEF TypeOK, HandleOf, Valid, Empty
<1>6. \A r \in Refs : Valid(r)' =>
        r[1] # o /\ Valid(r) /\ HandleOf(r) \notin closed
  BY <1>1, <1>4, <1>5 DEF Valid, Holding, HandleOf, Refs
<1>7. Owned'
  BY <1>1, <1>4, <1>6 DEF TypeOK, SoundOwnership, Owned, Valid, HandleOf
<1>8. DanglingWasMoved'
  <2> SUFFICES ASSUME NEW r \in dangling'
               PROVE  life'[r[1]] = "moved" /\ r[2] \in Plain
    BY DEF DanglingWasMoved
  <2>1. r \in Refs /\ r[1] # o
    BY <1>1 DEF TypeOK, Holding, Refs
  <2>2. CASE r \in dangling
    BY <2>1, <2>2, <1>4 DEF SoundOwnership, DanglingWasMoved
  <2>3. CASE r \notin dangling
    <3>1. HandleOf(r) \in closed
      BY <2>3, <1>1 DEF Holding, HandleOf
    <3>2. Valid(r)
      BY <2>3, <3>1 DEF Valid, HandlesOf
    <3>3. PICK m \in M : /\ HandleOf(<<o, m>>) = HandleOf(r) /\ Valid(<<o, m>>)
                         /\ life[o] = "live"
      BY <3>1, <1>3
    <3>4. life[r[1]] # "live"
      BY <2>1, <3>2, <3>3 DEF SoundOwnership, OneOwner
    <3> QED BY <2>1, <3>2, <3>4, <1>4, ValidHolders DEF Valid
  <2> QED BY <2>2, <2>3
<1>9. OneOwner'
  BY <1>4, <1>6 DEF SoundOwnership, OneOwner
<1>10. \A p \in Objects, m \in Members : Holds(p, m)' <=> p # o /\ Holds(p, m)
  BY <1>1 DEF TypeOK, Holds, Empty
<1>11. HoldsByLife'
  <2> SUFFICES ASSUME NEW p \in Objects PROVE HoldsByLife!(p)'
    BY DEF HoldsByLife
  <2>1. CASE p # o
    BY <2>1, <1>10 DEF TypeOK, SoundOwnership, HoldsByLife
  <2>2. CASE p = o
    BY <2>2, <1>10
  <2> QED BY <2>1, <2>2
<1>12. AttachesAfresh'
  BY <1>10 DEF TypeOK, SoundOwnership, AttachesAfresh, Attaches
<1>13. ~foreign'
  <2>1. ASSUME NEW m \in M, <<o, m>> \in dangling PROVE FALSE
    <3>1. life[o] = "moved" /\ m \in Plain
      BY <2>1 DEF SoundOwnership, DanglingWasMoved
    <3> QED BY <3>1 DEF Smart
  <2> QED BY <1>1, <2>1 DEF SoundOwnership
<1>14. OursHeld'
  <2> SUFFICES ASSUME NEW h \in Handles, table'[h] = "ours", ~abandoned'
               PROVE  \E r \in Refs : /\ HandleOf(r)' = h /\ r \notin dangling'
                                      /\ life'[r[1]] = "live"
    BY DEF OursHeld, Holding, HandleOf, Refs
  <2>1. h \notin closed /\ table[h] = "ours"
    BY <1>1
  <2>2. PICK r \in Refs : HandleOf(r) = h /\ r \notin dangling /\ life[r[1]] = "live"
    BY <2>1 DEF SoundOwnership, OursHeld, Holding, HandleOf, Refs
  <2>3. r[1] # o
    <3> SUFFICES ASSUME r[1] = o PROVE FALSE
      OBVIOUS
    <3>1. r[2] \in M
      BY <2>2 DEF Holds, HandleOf
    <3> QED BY <2>1, <2>2, <3>1 DEF HandlesOf, HandleOf
  <2>4. r \notin dangling'
    BY <2>1, <2>2, <1>1 DEF Holding, HandleOf
  <2> QED BY <2>2, <2>3, <2>4, <1>4
<1> QED BY <1>7, <1>8, <1>9, <1>11, <1>12, <1>13, <1>14 DEF SoundOwnership

LEMMA ReleaseSteps ==
  ASSUME HandleInv, NEW o \in Objects, Shutdown(o) \/ Destroy(o), ~misused'
  PROVE  SoundOwnership'
<1>1. CASE Shutdown(o)
  <2>1. ~misused /\ life[o] # "moved" /\ life[o] # "unborn"
    BY <1>1 DEF Shutdown, Called
  <2>2. life[o] = "live"
    BY <2>1 DEF HandleInv, TypeOK
  <2> QED BY <1>1, <2>1, <2>2, ReleaseKeeps DEF Shutdown
<1>2. CASE Destroy(o)
  <2>1. ~misused /\ life[o] \in {"live", "moved"}
    BY <1>2 DEF Destroy, HandleInv, TypeOK
  <2>2. \A m \in Members \ Smart : m \in Plain
    BY MemberNames
  <2>3. abandoned => abandoned'
    BY <1>2 DEF Destroy, Abandons
  <2>4. life[o] = "live" /\ (\E m \in Members \ Smart : Holds(o, m)) => abandoned'
    BY <1>2, <2>2 DEF Destroy, Abandons
  <2> QED BY <1>2, <2>1, <2>3, <2>4, MemberNames, ReleaseKeeps DEF Destroy
<1> QED BY <1>1, <1>2

(* refreshSharedTexture closes a view that nobody else can close. *)
LEMMA RefreshStep ==
  ASSUME HandleInv, NEW o \in Objects, Refresh(o), ~misused'
  PROVE  SoundOwnership'
<1> USE HandleAssumption, MemberNames, RefShape DEF HandleInv
<1>1. /\ ~misused /\ life[o] = "live" /\ Holds(o, "hookInfo")
      /\ UNCHANGED <<life, attaching, abandoned>>
  <2>1. ~misused /\ life[o] # "moved" /\ life[o] # "unborn"
    BY DEF Refresh, Called
  <2> QED BY <2>1 DEF Refresh, TypeOK
<1> SoundOwnership
  BY <1>1
<1>2. PICK h \in Handles : Replace(o, h)
  BY DEF Refresh
<1> DEFINE new == <<o, "textureData">>
           closed == HandlesOf(o, {"textureData"})
<1>3. /\ table[h] = "free"
      /\ table' = [g \in Handles |-> IF g \in closed THEN "free"
                                     ELSE [table EXCEPT ![h] = "ours"][g]]
      /\ dangling' = (dangling \cup Holding(closed)) \ ({o} \X {"textureData"})
      /\ foreign' = (foreign \/ \E m \in {"textureData"} : <<o, m>> \in dangling)
      /\ member' = [member EXCEPT ![o] = [@ EXCEPT !["textureData"] = h]]
  BY <1>2 DEF Replace, Close, Set
<1>4. new \in Refs /\ new[1] = o /\ new \notin dangling
  BY <1>1 DEF SoundOwnership, DanglingWasMoved
<1>5. closed = IF HandleOf(new) = Null THEN {} ELSE {HandleOf(new)}
  BY DEF HandlesOf, HandleOf
<1>6. \A r \in Refs : Valid(r) => HandleOf(r) # h /\ HandleOf(r) \in Handles
  BY <1>3 DEF SoundOwnership, Owned, Valid, HandleOf, TypeOK
<1>7. h \notin closed
  BY <1>4, <1>5, <1>6 DEF Valid
<1>8. \A r \in Refs : HandleOf(r)' = IF r = new THEN h ELSE HandleOf(r)
  BY <1>3 DEF TypeOK, HandleOf
<1>9. \A r \in Refs : r \in dangling' <=>
        r # new /\ (r \in dangling \/ HandleOf(r) \in closed)
  BY <1>3 DEF Holding, HandleOf, Refs
<1>10. \A r \in Refs : r # new /\ Valid(r)' =>
         Valid(r) /\ HandleOf(r) \notin closed
  BY <1>8, <1>9 DEF Valid
<1>11. Owned'
  <2> SUFFICES ASSUME NEW r \in Refs, Valid(r)'
               PROVE  table'[HandleOf(r)'] = "ours"
    BY DEF Owned
  <2>1. CASE r = new
    BY <2>1, <1>3, <1>7, <1>8 DEF TypeOK
  <2>2. CASE r # new
    BY <2>2, <1>3, <1>6, <1>8, <1>10 DEF TypeOK, SoundOwnership, Owned
  <2> QED BY <2>1, <2>2
<1>12. DanglingWasMoved'
  <2> SUFFICES ASSUME NEW r \in dangling'
               PROVE  life[r[1]] = "moved" /\ r[2] \in Plain
    BY <1>1 DEF DanglingWasMoved
  <2>1. r \in Refs
    BY <1>3 DEF TypeOK, Holding, Refs
  <2>2. CASE r \in dangling
    BY <2>2 DEF SoundOwnership, DanglingWasMoved
  <2>3. CASE r \notin dangling
    <3>1. r # new /\ HandleOf(r) = HandleOf(new) /\ Valid(r) /\ Valid(new)
      BY <2>1, <2>3, <1>4, <1>5, <1>9 DEF Valid
    <3>2. r[2] = "textureData" /\ life[r[1]] # "live"
      BY <2>1, <3>1, <1>1, <1>4 DEF SoundOwnership, OneOwner
    <3> QED BY <2>1, <3>1, <3>2, <1>1, ValidHolders DEF Valid
  <2> QED BY <2>2, <2>3
<1>13. OneOwner'
  <2>1. \A r \in Refs : r # new /\ Valid(r)' => HandleOf(r)' # HandleOf(new)'
    BY <1>4, <1>6, <1>8, <1>10
  <2> QED BY <2>1, <1>1, <1>8, <1>10 DEF SoundOwnership, OneOwner
<1>14. \A p \in Objects, m \in Members :
         Holds(p, m)' <=> Holds(p, m) \/ <<p, m>> = new
  BY <1>3 DEF TypeOK, Holds
<1>15. HoldsByLife'
  <2> SUFFICES ASSUME NEW p \in Objects PROVE HoldsByLife!(p)'
    BY DEF HoldsByLife
  <2>1. CASE p # o
    BY <2>1, <1>1, <1>14 DEF SoundOwnership, HoldsByLife
  <2>2. CASE p = o
    <3>1. Holds(o, "keepalive")
      BY <1>1 DEF SoundOwnership, HoldsByLife
    <3> QED BY <2>2, <3>1, <1>1, <1>14
  <2> QED BY <2>1, <2>2
<1>16. AttachesAfresh'
  <2> SUFFICES ASSUME NEW p \in Objects PROVE AttachesAfresh!(p)'
    BY DEF AttachesAfresh
  <2>1. CASE p # o
    BY <2>1, <1>1, <1>14 DEF SoundOwnership, AttachesAfresh, Attaches
  <2>2. CASE p = o
    <3>1. attaching[o] # "hookInfo"
      BY <1>1 DEF SoundOwnership, AttachesAfresh
    <3> QED BY <2>2, <3>1, <1>1, <1>14 DEF SoundOwnership, AttachesAfresh, Attaches
  <2> QED BY <2>1, <2>2
<1>17. ~foreign'
  BY <1>3, <1>4 DEF SoundOwnership
<1>18. OursHeld'
  <2> SUFFICES ASSUME NEW g \in Handles, table'[g] = "ours", ~abandoned
               PROVE  \E r \in Refs : /\ HandleOf(r)' = g /\ r \notin dangling'
                                      /\ life[r[1]] = "live"
    BY <1>1 DEF OursHeld, Holding, HandleOf, Refs
  <2>1. CASE g = h
    <3>1. new \notin dangling' /\ HandleOf(new)' = g
      BY <2>1, <1>4, <1>8, <1>9
    <3> QED BY <3>1, <1>1, <1>4
  <2>2. CASE g # h
    <3>1. table[g] = "ours" /\ g \notin closed
      BY <2>2, <1>3 DEF TypeOK
    <3>2. PICK r \in Refs : /\ HandleOf(r) = g /\ r \notin dangling
                            /\ life[r[1]] = "live"
      BY <3>1, <1>1 DEF SoundOwnership, OursHeld, Holding, HandleOf, Refs
    <3>3. r # new
      BY <3>1, <3>2, <1>5, HandleAssumption
    <3> QED BY <3>1, <3>2, <3>3, <1>8, <1>9
  <2> QED BY <2>1, <2>2
<1> QED BY <1>11, <1>12, <1>13, <1>15, <1>16, <1>17, <1>18 DEF SoundOwnership

(* After a move every member of p holds what that of o held, and nobody    *)
(* else held what the wrappers of p closed.                                *)
LEMMA MoveStep ==
  ASSUME HandleInv, NEW o \in Objects, NEW p \in Objects, Move(o, p), ~misused'
  PROVE  SoundOwnership'
<1> USE HandleAssumption, MemberNames, RefShape DEF HandleInv
<1>1. /\ o # p /\ life[o] = "live" /\ life[p] # "moved"
      /\ ~Attaches(o) /\ ~Attaches(p) /\ ~misused
      /\ member' = [member EXCEPT ![p] = member[o], ![o] = MovedFrom(o)]
      /\ life' = [life EXCEPT ![p] = "live", ![o] = "moved"]
      /\ abandoned' = (abandoned \/ \E m \in Plain : Holds(p, m))
      /\ UNCHANGED <<attaching, foreign, misused>>
  BY DEF Move, Abandons
<1> SoundOwnership
  BY <1>1
<1> DEFINE closed == HandlesOf(p, Smart)
           source(r) == IF r[1] = p THEN <<o, r[2]>> ELSE r
<1>2. table' = [h \in Handles |-> IF h \in closed THEN "free" ELSE table[h]]
  BY DEF Move
<1>3. \A r \in Refs : r \in dangling' <=> r[1] # p /\ r \in dangling
  <2>1. \A n \in Members : <<o, n>> \notin dangling
    BY <1>1 DEF SoundOwnership, DanglingWasMoved
  <2>2. {<<p, m>> : m \in {n \in Plain : <<o, n>> \in dangling}} = {}
    BY <2>1
  <2>3. dangling' = dangling \ ({p} \X Members)
    BY <2>2 DEF Move
  <2> QED BY <2>3
<1>4. \A r \in Refs :
        /\ source(r) \in Refs /\ source(r)[2] = r[2] /\ source(r)[1] # p
        /\ HandleOf(r)' = IF r[1] = o /\ r[2] \notin Plain THEN Null
                                                         ELSE HandleOf(source(r))
  BY <1>1 DEF TypeOK, HandleOf, MovedFrom
<1>5. \A r \in Refs : Valid(r)' =>
        /\ Valid(source(r)) /\ HandleOf(r)' = HandleOf(source(r))
        /\ r[1] = o => r[2] \in Plain
  <2> SUFFICES ASSUME NEW r \in Refs, Valid(r)'
               PROVE  /\ Valid(source(r)) /\ HandleOf(r)' = HandleOf(source(r))
                      /\ r[1] = o => r[2] \in Plain
    OBVIOUS
  <2>1. HandleOf(r)' = HandleOf(source(r)) /\ HandleOf(source(r)) # Null
    BY <1>4 DEF Valid
  <2>2. r[1] = o => r[2] \in Plain
    BY <1>4 DEF Valid
  <2>3. source(r) \notin dangling
    BY <1>1, <1>3, <1>4 DEF Valid, SoundOwnership, DanglingWasMoved
  <2> QED BY <2>1, <2>2, <2>3 DEF Valid
<1>6. \A h \in closed : /\ HandleOf(<<p, "keepalive">>) = h
                       /\ h # Null /\ Valid(<<p, "keepalive">>)
                       /\ life[p] = "live"
  <2> SUFFICES ASSUME NEW h \in closed
               PROVE  /\ HandleOf(<<p, "keepalive">>) = h
                      /\ h # Null /\ Valid(<<p, "keepalive">>)
                      /\ life[p] = "live"
    OBVIOUS
  <2>1. HandleOf(<<p, "keepalive">>) = h /\ h # Null
    BY DEF HandlesOf, HandleOf, Smart
  <2> QED BY <2>1, <1>1, ValidHolders
<1>7. \A r \in Refs : Valid(r)' => HandleOf(source(r)) \notin closed
  <2> SUFFICES ASSUME NEW r \in Refs, Valid(r)', HandleOf(source(r)) \in closed
               PROVE  FALSE
    OBVIOUS
  <2>1. /\ Valid(source(r)) /\ HandleOf(source(r)) = HandleOf(<<p, "keepalive">>)
        /\ Valid(<<p, "keepalive">>) /\ life[p] = "live"
    BY <1>5, <1>6
  <2>2. source(r)[2] = "keepalive"
    BY <2>1, <1>4 DEF SoundOwnership, OneOwner
  <2>3. life[source(r)[1]] = "live"
    BY <2>1, <2>2, <1>1, <1>4, ValidHolders DEF Valid
  <2>4. source(r) = <<p, "keepalive">>
    BY <2>1, <2>3, <1>4 DEF SoundOwnership, OneOwner
  <2> QED BY <2>4, <1>4
<1>8. Owned'
  <2> SUFFICES ASSUME NEW r \in Refs, Valid(r)'
               PROVE  table'[HandleOf(r)'] = "ours"
    BY DEF Owned
  <2>1. source(r) \in Refs /\ Valid(source(r))
    BY <1>4, <1>5
  <2>2. HandleOf(source(r)) \in Handles
    BY ONLY <2>1, HandleInv, RefShape DEF HandleInv, TypeOK, Valid, HandleOf
  <2>3. table[HandleOf(source(r))] = "ours"
    BY <2>1 DEF SoundOwnership, Owned
  <2> QED BY <2>2, <2>3, <1>2, <1>5, <1>7
<1>9. DanglingWasMoved'
  <2> SUFFICES ASSUME NEW r \in dangling'
               PROVE  life'[r[1]] = "moved" /\ r[2] \in Plain
    BY DEF DanglingWasMoved
  <2>1. TypeOK'
    BY TypeHolds DEF Next
  <2>2. r \in Refs /\ r[1] # p /\ r \in dangling
    BY <2>1, <1>3 DEF TypeOK, Refs
  <2> QED BY <2>2, <1>1 DEF TypeOK, SoundOwnership, DanglingWasMoved
<1>10. OneOwner'
  <2> SUFFICES ASSUME NEW r \in Refs, NEW s \in Refs, Valid(r)', Valid(s)',
                      HandleOf(r)' = HandleOf(s)'
               PROVE  /\ r[2] = s[2]
                      /\ life'[r[1]] = "live" /\ life'[s[1]] = "live" => r = s
    BY DEF OneOwner
  <2>1. /\ Valid(source(r)) /\ Valid(source(s))
        /\ HandleOf(source(r)) = HandleOf(source(s))
    BY <1>5
  <2>2. r[2] = s[2]
    BY <2>1, <1>4 DEF SoundOwnership, OneOwner
  <2>3. ASSUME life'[r[1]] = "live", life'[s[1]] = "live" PROVE r = s
    <3>1. r[1] # o /\ s[1] # o
      BY <2>3, <1>1 DEF TypeOK
    <3>2. life[source(r)[1]] = "live" /\ life[source(s)[1]] = "live"
      BY <2>3, <3>1, <1>1 DEF TypeOK
    <3>3. source(r) = source(s)
      BY <2>1, <3>2, <1>4 DEF SoundOwnership, OneOwner
    <3> QED BY <2>2, <3>1, <3>3
  <2> QED BY <2>2, <2>3
<1>11. \A q \in Objects, m \in Members :
         Holds(q, m)' <=> IF q = p THEN Holds(o, m)
                          ELSE IF q = o THEN m \in Plain /\ Holds(o, m)
                          ELSE Holds(q, m)
  BY <1>1 DEF TypeOK, Holds, MovedFrom
<1>12. HoldsByLife'
  <2> SUFFICES ASSUME NEW q \in Objects PROVE HoldsByLife!(q)'
    BY DEF HoldsByLife
  <2>1. CASE q = p
    BY <2>1, <1>1, <1>11 DEF TypeOK, SoundOwnership, HoldsByLife
  <2>2. CASE q = o
    BY <2>2, <1>1, <1>11 DEF TypeOK, Smart
  <2>3. CASE q \notin {o, p}
    BY <2>3, <1>1, <1>11 DEF TypeOK, SoundOwnership, HoldsByLife
  <2> QED BY <2>1, <2>2, <2>3
<1>13. AttachesAfresh'
  BY <1>1, <1>11 DEF TypeOK, SoundOwnership, AttachesAfresh, Attaches
<1>14. OursHeld'
  <2> SUFFICES ASSUME NEW h \in Handles, table'[h] = "ours", ~abandoned'
               PROVE  \E r \in Refs : /\ HandleOf(r)' = h /\ r \notin dangling'
                                      /\ life'[r[1]] = "live"
    BY DEF OursHeld, Holding, HandleOf, Refs
  <2>1. h \notin closed /\ table[h] = "ours" /\ ~abandoned
    BY <1>1, <1>2
  <2>2. PICK r \in Refs : HandleOf(r) = h /\ r \notin dangling /\ life[r[1]] = "live"
    BY <2>1, <1>1 DEF SoundOwnership, OursHeld, Holding, HandleOf, Refs
  <2>3. r[1] # p
    <3> SUFFICES ASSUME r[1] = p PROVE FALSE
      OBVIOUS
    <3>1. r[2] \notin Plain
      BY <2>2, <1>1 DEF Holds, HandleOf
    <3> QED BY <2>1, <2>2, <3>1 DEF HandlesOf, HandleOf
  <2>4. CASE r[1] = o
    <3> DEFINE s == <<p, r[2]>>
    <3>1. s \in Refs /\ s[1] = p /\ source(s) = r
      BY <2>4
    <3>2. HandleOf(s)' = h /\ s \notin dangling' /\ life'[s[1]] = "live"
      BY <3>1, <2>2, <1>1, <1>3, <1>4 DEF TypeOK
    <3> QED BY <3>1, <3>2
  <2>5. CASE r[1] # o
    <3>1. HandleOf(r)' = h /\ r \notin dangling' /\ life'[r[1]] = "live"
      BY <2>2, <2>3, <2>5, <1>1, <1>3, <1>4 DEF TypeOK
    <3> QED BY <3>1
  <2> QED BY <2>4, <2>5
<1> QED BY <1>1, <1>8, <1>9, <1>10, <1>12, <1>13, <1>14 DEF SoundOwnership

(* A handle value changes hands that is not and does not become the        *)
(* library's to close.                                                     *)
LEMMA TableKeeps ==
  ASSUME HandleInv, ~misused, NEW h \in Handles, NEW t, t # "ours",
         table[h] # "ours", table' = [table EXCEPT ![h] = t],
         UNCHANGED <<life, member, dangling, foreign, misused, abandoned>>
  PROVE  /\ Owned' /\ DanglingWasMoved' /\ OneOwner' /\ OursHeld'
         /\ HoldsByLife' /\ ~foreign'
<1>1. SoundOwnership
  BY DEF HandleInv
<1>2. \A g \in Handles : table'[g] = "ours" <=> table[g] = "ours"
  BY DEF HandleInv, TypeOK
<1>3. \A r \in Refs : Valid(r)' => /\ Valid(r)
                                   /\ HandleOf(r)' = HandleOf(r)
                                   /\ HandleOf(r) \in Handles
  BY RefShape DEF HandleInv, TypeOK, Valid, HandleOf
<1>4. Owned'
  <2> SUFFICES ASSUME NEW r \in Refs, Valid(r)'
               PROVE  table'[HandleOf(r)'] = "ours"
    BY DEF Owned
  <2> QED BY <1>1, <1>2, <1>3 DEF SoundOwnership, Owned
<1>5. OneOwner'
  <2> SUFFICES ASSUME NEW r \in Refs, NEW s \in Refs, Valid(r)', Valid(s)',
                      HandleOf(r)' = HandleOf(s)'
               PROVE  /\ r[2] = s[2]
                      /\ life'[r[1]] = "live" /\ life'[s[1]] = "live" => r = s
    BY DEF OneOwner
  <2> QED BY <1>1, <1>3 DEF SoundOwnership, OneOwner
<1>6. DanglingWasMoved' /\ HoldsByLife' /\ ~foreign'
  BY <1>1 DEF SoundOwnership, DanglingWasMoved, HoldsByLife, Holds
<1>7. OursHeld'
  BY <1>1, <1>2 DEF SoundOwnership, OursHeld, Holding
<1> QED BY <1>4, <1>5, <1>6, <1>7

(* Others open and close handles that are not the library's. *)
LEMMA OtherSteps ==
  ASSUME HandleInv, NEW h \in Handles, OtherOpens(h) \/ OtherCloses(h), ~misused'
  PROVE  SoundOwnership'
<1>1. /\ UNCHANGED <<life, attaching, member, dangling, foreign, misused, abandoned>>
      /\ table[h] # "ours"
      /\ \E t \in {"free", "other"} : table' = [table EXCEPT ![h] = t]
  BY DEF OtherOpens, OtherCloses, Open, history
<1>2. AttachesAfresh'
  BY <1>1 DEF HandleInv, SoundOwnership, AttachesAfresh, Holds, Attaches
<1> QED BY <1>1, <1>2, TableKeeps DEF SoundOwnership

(* The two steps of attach() that let go of a handle. *)
LEMMA LettingGoSteps ==
  ASSUME HandleInv, NEW o \in Objects, AttachBegins(o) \/ WrapperFails(o),
         ~misused'
  PROVE  SoundOwnership'
<1>1. /\ ~misused /\ life[o] = "live" /\ UNCHANGED misused
      /\ UNCHANGED <<life, member, dangling, foreign, abandoned>>
      /\ \E step \in {"keepalive", "no"} : GoesOnWith(o, step)
  <2>1. ~misused /\ life[o] # "moved" /\ life[o] # "unborn"
    BY DEF AttachBegins, WrapperFails, Called
  <2>2. UNCHANGED misused
    <3>1. misused \in BOOLEAN
      BY DEF HandleInv, TypeOK
    <3>2. misused' = (misused \/ life[o] = "moved")
      BY DEF AttachBegins, WrapperFails, Called
    <3> QED BY <2>1, <3>1, <3>2
  <2>3. life[o] = "live"
    BY <2>1 DEF HandleInv, TypeOK
  <2> QED BY <2>1, <2>2, <2>3 DEF AttachBegins, WrapperFails
<1>2. AttachesAfresh'
  BY <1>1 DEF HandleInv, TypeOK, SoundOwnership, AttachesAfresh, Holds,
              Attaches, GoesOnWith
<1>3. /\ Owned' /\ DanglingWasMoved' /\ OneOwner' /\ OursHeld'
      /\ HoldsByLife' /\ ~foreign'
  <2>1. CASE UNCHANGED table
    BY <2>1, <1>1 DEF HandleInv, SoundOwnership, Owned, OneOwner, Valid,
       HandleOf, DanglingWasMoved, HoldsByLife, Holds, OursHeld, Holding
  <2>2. CASE ~UNCHANGED table
    <3>1. PICK h \in Handles, t \in LetGo : Open(h, t)
      BY <2>2 DEF AttachBegins, WrapperFails, LetGo
    <3>2. t # "ours" /\ table[h] # "ours" /\ table' = [table EXCEPT ![h] = t]
      BY <3>1 DEF Open, LetGo
    <3> QED BY <3>2, <1>1, TableKeeps
  <2> QED BY <2>1, <2>2
<1> QED BY <1>2, <1>3 DEF SoundOwnership

LEMMA NextHolds == HandleInv /\ [Next]_vars => HandleInv'
<1> SUFFICES ASSUME HandleInv, [Next]_vars, ~misused' PROVE SoundOwnership'
  BY TypeHolds DEF HandleInv
<1>1. ASSUME NEW o \in Objects, Construct(o) \/ AttachEnds(o)
      PROVE  SoundOwnership'
  BY <1>1, StillSteps DEF HandleInv
<1>2. ASSUME NEW o \in Objects, AcquireKeepalive(o) \/ AcquireHookInfo(o)
      PROVE  SoundOwnership'
  BY <1>2, AttachSteps
<1>8. ASSUME NEW o \in Objects, AttachBegins(o) \/ WrapperFails(o)
      PROVE  SoundOwnership'
  BY <1>8, LettingGoSteps
<1>3. ASSUME NEW o \in Objects, Refresh(o) PROVE SoundOwnership'
  BY <1>3, RefreshStep
<1>4. ASSUME NEW o \in Objects, Shutdown(o) \/ Destroy(o)
      PROVE  SoundOwnership'
  BY <1>4, ReleaseSteps
<1>5. ASSUME NEW o \in Objects, NEW p \in Objects, Move(o, p)
      PROVE  SoundOwnership'
  BY <1>5, MoveStep
<1>6. ASSUME NEW h \in Handles, OtherOpens(h) \/ OtherCloses(h)
      PROVE  SoundOwnership'
  BY <1>6, OtherSteps
<1>7. CASE UNCHANGED vars
  BY <1>7 DEF vars, history, HandleInv, SoundOwnership, Owned, OneOwner, Valid,
       HandleOf, DanglingWasMoved, HoldsByLife, AttachesAfresh, Holds, Attaches,
       OursHeld, Holding
<1> QED BY <1>1, <1>2, <1>3, <1>4, <1>5, <1>6, <1>7, <1>8 DEF Next

(* As long as nothing but destruction is done to objects moved from, what  *)
(* a member holds is open and the library's or dangles in such an object,  *)
(* and one live object at most holds it (context.h:41-44, obsc.h).         *)
THEOREM OwnershipIsSound == Spec => []HandleInv
<1> QED BY InitHolds, NextHolds, PTL DEF Spec

(* However attaches fail, views are swapped and objects are moved,         *)
(* destroyed and shut down, and however few handle values Windows uses     *)
(* again and again, no CloseHandle hits a handle that is not the closer's  *)
(* (obsc.cpp:61-72, 160-192).                                              *)
THEOREM ClosesAreOwn == Spec => []ClosesOwnHandles
<1>1. HandleInv => ClosesOwnHandles
  BY DEF HandleInv, SoundOwnership, ClosesOwnHandles
<1> QED BY <1>1, OwnershipIsSound, PTL

(* A handle the library has open is held by a member of a live object that *)
(* closes it, unless it is the process an attach() looked at, was never    *)
(* wrapped because making the wrapper threw, or was a view of an object    *)
(* that went without a shutdown() (utils.cpp:185, pipe.cpp:14,             *)
(* context.h:41-44).                                                       *)
THEOREM HandlesAreKept == Spec => []LossesKnown
<1>1. HandleInv => LossesKnown
  BY DEF HandleInv, TypeOK, SoundOwnership, OursHeld, LossesKnown
<1> QED BY <1>1, OwnershipIsSound, PTL

=============================================================================
