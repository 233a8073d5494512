----------------------------- MODULE PipeProofs -----------------------------
(***************************************************************************)
(* Proofs about NamedPipe, for every choice of messages and capacity, with *)
(* early connections and reused handle values.                             *)
(***************************************************************************)
EXTENDS NamedPipe, TLAPS

Waiting == reader \in {"waitConnect", "waitRead"}

(* One OVERLAPPED serves one operation at a time: none is in progress when *)
(* the thread is not waiting for it, or its event is set.                  *)
OneOperation ==
  /\ ~Waiting => pending = "none"
  /\ readyEvent = "set" => pending = "none"

(* The flag is cleared before the handle is closed, so a thread that still *)
(* gets through the loop test holds an open handle.                        *)
FlagBeforeHandle ==
  /\ handle = "pipe" <=> owner \in {"alive", "stopping"}
  /\ threadRunning = "yes" <=> owner = "alive"

StraysCounted ==
  /\ strays \in {0, 1}
  /\ strays = 1 => handle # "pipe"
  /\ reader \in {"connect", "read"} => strays = 0
  /\ owner = "gone" => reader = "exited"

IInv == NeverWaitsInVain /\ OneOperation /\ FlagBeforeHandle /\ StraysCounted

-----------------------------------------------------------------------------
LEMMA InitHolds == Init => IInv
BY DEF Init, IInv, NeverWaitsInVain, OneOperation, Waiting, FlagBeforeHandle,
       StraysCounted

LEMMA OwnerKeeps == ASSUME IInv, Create \/ StopThread \/ Destructor PROVE IInv'
<1> USE DEF IInv, NeverWaitsInVain, OneOperation, Waiting, FlagBeforeHandle,
            StraysCounted, ioVars, hookVars
<1>1. CASE Create
  BY <1>1 DEF Create
<1>2. CASE StopThread
  BY <1>2 DEF StopThread
<1>3. CASE ClosePipe
  BY <1>3 DEF ClosePipe, HandleCloses
<1>4. CASE Join
  BY <1>4 DEF Join
<1> QED BY <1>1, <1>2, <1>3, <1>4 DEF Destructor

(* A call through the handle is the first stray one at most. *)
LEMMA ReaderKeeps == ASSUME IInv, Reader PROVE IInv'
<1> USE DEF IInv, NeverWaitsInVain, OneOperation, Waiting, FlagBeforeHandle,
            StraysCounted, ioVars, hookVars
<1>1. CASE Connect
  BY <1>1 DEF Connect, UsesHandle, Starts, StartsOnAlien, Completes, Exit
<1>2. CASE WaitConnect
  BY <1>2 DEF WaitConnect
<1>3. CASE Loop
  BY <1>3 DEF Loop, GoesOn
<1>4. CASE Read
  BY <1>4 DEF Read, UsesHandle, ReadPipe, ReadAlien, StartsOnAlien,
              ReadFileFails, Starts,
              Completes
<1>5. CASE WaitRead
  BY <1>5 DEF WaitRead
<1>6. CASE Result
  BY <1>6 DEF Result, AfterResult
<1> QED BY <1>1, <1>2, <1>3, <1>4, <1>5, <1>6 DEF Reader

LEMMA EnvironmentKeeps == ASSUME IInv, Environment PROVE IInv'
<1> USE DEF IInv, NeverWaitsInVain, OneOperation, Waiting, FlagBeforeHandle,
            StraysCounted, ioVars, hookVars, Completes
<1>1. CASE HookConnects
  BY <1>1 DEF HookConnects
<1>2. CASE HookWrites
  BY <1>2 DEF HookWrites
<1>3. CASE WriteReturns
  BY <1>3 DEF WriteReturns
<1>4. CASE HookGone
  BY <1>4 DEF HookGone
<1>5. CASE HandleReused
  BY <1>5 DEF HandleReused
<1>6. CASE AlienCompletes
  BY <1>6 DEF AlienCompletes
<1> QED BY <1>1, <1>2, <1>3, <1>4, <1>5, <1>6 DEF Environment

LEMMA Inductive == Spec => []IInv
<1>1. IInv /\ [Next]_vars => IInv'
  <2> SUFFICES ASSUME IInv, [Next]_vars PROVE IInv'
    OBVIOUS
  <2>1. CASE UNCHANGED vars
    BY <2>1 DEF IInv, NeverWaitsInVain, OneOperation, Waiting,
                FlagBeforeHandle, StraysCounted, vars, ioVars
  <2> QED BY <2>1, OwnerKeeps, ReaderKeeps, EnvironmentKeeps DEF Next
<1> QED BY <1>1, InitHolds, PTL DEF Spec

-----------------------------------------------------------------------------
(* The reading thread never waits (pipe.cpp:26, 42) for an event nothing   *)
(* is going to set, whenever the handle is closed under it.                *)
THEOREM WaitsForSomething == Spec => []NeverWaitsInVain
<1>1. IInv => NeverWaitsInVain
  BY DEF IInv
<1> QED BY <1>1, Inductive, PTL

(* The destructor exposes the thread to at most one call on a closed or    *)
(* reused handle value (pipe.cpp:35-37 against 66-69).                     *)
THEOREM OneStrayCall == Spec => []AtMostOneStray
<1>1. IInv => AtMostOneStray
  BY DEF IInv, StraysCounted, AtMostOneStray
<1> QED BY <1>1, Inductive, PTL

-----------------------------------------------------------------------------
(* What keeps the threads from going on is named here without ENABLED: the *)
(* reader only waits for its event, the hook's WriteFile for a read or for *)
(* room in the pipe.                                                       *)
ReaderGoesOn == reader # "exited" /\ (Waiting => readyEvent = "set")

WriteGoesOn == pending = "read" \/ Len(buffer) < Capacity

(* The steps a thread still takes once the flag is cleared. *)
ReaderLeft ==
  CASE reader = "exited" -> 0
    [] reader = "loop" -> 1
    [] reader \in {"result", "waitConnect"} -> 2
    [] reader \in {"waitRead", "connect"} -> 3
    [] OTHER -> 4

HookTyped ==
  /\ pending \in {"none", "connect", "read", "alien"}
  /\ client \in {"none", "connected", "gone"}
  /\ writing \in Messages \cup {"none"}
  /\ buffer \in Seq(Messages)

(* Closing the pipe leaves none of its operations in progress, and the     *)
(* hook's end exists with the pipe only.                                   *)
PipeOwnsOperations ==
  /\ handle = "pipe" => pending # "alien"
  /\ handle # "pipe" => pending \in {"none", "alien"}
  /\ client = "connected" => handle = "pipe"
  /\ writing # "none" => client = "connected"

(* The wait for a connection lasts as long as there is no client, and no   *)
(* reading starts before one came.                                         *)
ConnectsFirst ==
  /\ pending = "connect" => client = "none"
  /\ handle = "pipe" /\ client = "none" =>
       reader = "connect" \/ (reader = "waitConnect" /\ pending = "connect")
  /\ reader = "connect" => status = "none"

(* Why a thread ended under an owner that is still alive. *)
EndedForCause ==
  reader = "exited" /\ owner = "alive" => GaveUp \/ client = "gone"

HookInv == HookTyped /\ PipeOwnsOperations /\ ConnectsFirst /\ EndedForCause

(* What the thread and the destructor, or the thread and the hook, wait    *)
(* for never depends on each other alone.                                  *)
JoinHasAWayOut ==
  owner = "joining" => reader = "exited" \/ ReaderGoesOn \/ pending = "alien"

WriterHasAWayOut ==
  writing # "none" =>
    WriteGoesOn \/ ReaderGoesOn \/ owner = "stopping" \/ GaveUp

LEMMA AppendedKeepsHead ==
  ASSUME HookTyped, NEW m \in Messages
  PROVE  /\ Append(buffer, m) \in Seq(Messages)
         /\ buffer # <<>> =>
              Append(buffer, m) # <<>> /\ Head(Append(buffer, m)) = Head(buffer)
BY DEF HookTyped

LEMMA HookStaysTyped == ASSUME HookTyped, [Next]_vars PROVE HookTyped'
<1> USE DEF HookTyped, ioVars, hookVars
<1>1. CASE Create \/ ClosePipe
  <2>1. <<>> \in Seq(Messages)
    OBVIOUS
  <2> QED BY <1>1, <2>1 DEF Create, ClosePipe, HandleCloses
<1>2. CASE StopThread \/ Join \/ WaitConnect \/ Loop \/ WaitRead \/ Result
  BY <1>2 DEF StopThread, Join, WaitConnect, Loop, WaitRead, Result
<1>3. CASE Connect
  BY <1>3 DEF Connect, Starts, StartsOnAlien, Completes, Exit
<1>4. CASE Read
  <2>1. buffer' = buffer \/ (buffer # <<>> /\ buffer' = Tail(buffer))
    BY <1>4 DEF Read, ReadPipe, ReadAlien, StartsOnAlien, ReadFileFails
  <2>2. pending' \in {pending, "none", "read", "alien"}
    BY <1>4 DEF Read, ReadPipe, ReadAlien, StartsOnAlien,
                ReadFileFails, Starts, Completes
  <2> QED BY <1>4, <2>1, <2>2 DEF Read
<1>5. CASE WriteReturns
  BY <1>5, AppendedKeepsHead DEF WriteReturns, Completes
<1>6. CASE HookConnects \/ HookWrites \/ HookGone \/ HandleReused
             \/ AlienCompletes
  BY <1>6 DEF HookConnects, HookWrites, HookGone, HandleReused, AlienCompletes,
              Completes
<1>7. CASE UNCHANGED vars
  BY <1>7 DEF vars
<1> QED
  BY <1>1, <1>2, <1>3, <1>4, <1>5, <1>6, <1>7
     DEF Next, Destructor, Reader, Environment

LEMMA OwnerKeepsHook ==
  ASSUME IInv, HookInv, Create \/ StopThread \/ Destructor
  PROVE  PipeOwnsOperations' /\ ConnectsFirst' /\ EndedForCause'
<1> USE DEF HookInv, PipeOwnsOperations, ConnectsFirst, EndedForCause, GaveUp,
            IInv, FlagBeforeHandle, OneOperation, StraysCounted, Waiting,
            ioVars, hookVars
<1>1. CASE Create
  BY <1>1 DEF Create
<1>2. CASE StopThread
  BY <1>2 DEF StopThread
<1>3. CASE ClosePipe
  BY <1>3 DEF ClosePipe, HandleCloses
<1>4. CASE Join
  BY <1>4 DEF Join
<1> QED BY <1>1, <1>2, <1>3, <1>4 DEF Destructor

LEMMA ReaderKeepsHook ==
  ASSUME IInv, HookInv, Reader
  PROVE  PipeOwnsOperations' /\ ConnectsFirst' /\ EndedForCause'
<1> USE DEF HookInv, PipeOwnsOperations, ConnectsFirst, EndedForCause, GaveUp,
            IInv, FlagBeforeHandle, OneOperation, StraysCounted, Waiting,
            ioVars, hookVars
<1>1. CASE Connect
  BY <1>1 DEF Connect, Starts, StartsOnAlien, Completes, Exit
<1>2. CASE WaitConnect
  BY <1>2 DEF WaitConnect
<1>3. CASE Loop
  BY <1>3 DEF Loop, GoesOn
<1>4. CASE Read
  BY <1>4 DEF Read, ReadPipe, ReadAlien, StartsOnAlien,
              ReadFileFails, Starts, Completes,
              HookTyped
<1>5. CASE WaitRead
  BY <1>5 DEF WaitRead
<1>6. CASE Result
  BY <1>6 DEF Result, AfterResult
<1> QED BY <1>1, <1>2, <1>3, <1>4, <1>5, <1>6 DEF Reader

LEMMA EnvironmentKeepsHook ==
  ASSUME IInv, HookInv, Environment
  PROVE  PipeOwnsOperations' /\ ConnectsFirst' /\ EndedForCause'
<1> USE DEF HookInv, PipeOwnsOperations, ConnectsFirst, EndedForCause, GaveUp,
            IInv, FlagBeforeHandle, OneOperation, StraysCounted, Waiting,
            ioVars, hookVars, Completes
<1>1. CASE HookConnects
  BY <1>1 DEF HookConnects
<1>2. CASE HookWrites
  BY <1>2 DEF HookWrites
<1>3. CASE WriteReturns
  <2>1. writing \in Messages
    BY <1>3 DEF WriteReturns, HookTyped
  <2>2. buffer # <<>> => buffer' # <<>> /\ Head(buffer') = Head(buffer)
    BY <1>3, <2>1, AppendedKeepsHead DEF WriteReturns
  <2>3. reader = "exited" => status' = status
    BY <1>3 DEF WriteReturns
  <2> HIDE DEF GaveUp, EndedForCause
  <2>4. PipeOwnsOperations' /\ ConnectsFirst'
    BY <1>3 DEF WriteReturns
  <2>5. EndedForCause'
    BY <1>3, <2>2, <2>3 DEF WriteReturns, EndedForCause, GaveUp
  <2> QED BY <2>4, <2>5
<1>4. CASE HookGone
  BY <1>4 DEF HookGone
<1>5. CASE HandleReused
  BY <1>5 DEF HandleReused
<1>6. CASE AlienCompletes
  BY <1>6 DEF AlienCompletes
<1> QED BY <1>1, <1>2, <1>3, <1>4, <1>5, <1>6 DEF Environment

LEMMA HookInductive == Spec => [](IInv /\ HookInv)
<1>1. Init => HookInv
  BY DEF Init, HookInv, HookTyped, PipeOwnsOperations, ConnectsFirst,
         EndedForCause
<1>2. IInv /\ HookInv /\ [Next]_vars => HookInv'
  <2> SUFFICES ASSUME IInv, HookInv, [Next]_vars PROVE HookInv'
    OBVIOUS
  <2>1. HookTyped'
    BY HookStaysTyped DEF HookInv
  <2>2. CASE UNCHANGED vars
    BY <2>1, <2>2 DEF HookInv, PipeOwnsOperations, ConnectsFirst,
       EndedForCause, GaveUp, vars, ioVars, hookVars
  <2> QED
    BY <2>1, <2>2, OwnerKeepsHook, ReaderKeepsHook, EnvironmentKeepsHook
       DEF Next, HookInv
<1> QED BY <1>1, <1>2, Inductive, PTL DEF Spec

(* Once the destructor has cleared the flag the thread takes four more     *)
(* steps at most, whatever it was doing, and nothing sends it back         *)
(* (pipe.cpp:33-38, 105-132).                                              *)
THEOREM ThreadWindsDown ==
  Spec => [][(owner \in {"stopping", "joining"}) =>
               /\ ReaderLeft \in 0..4
               /\ ReaderLeft' <= ReaderLeft
               /\ Reader => ReaderLeft' < ReaderLeft]_vars
<1>1. ASSUME IInv, owner \in {"stopping", "joining"}
      PROVE  threadRunning # "yes"
  BY <1>1 DEF IInv, FlagBeforeHandle
<1>2. ASSUME IInv, owner \in {"stopping", "joining"}, Reader
      PROVE  ReaderLeft' < ReaderLeft
  <2> USE DEF ReaderLeft
  <2>1. CASE Connect
    BY <2>1 DEF Connect, Starts, StartsOnAlien, Completes, Exit
  <2>2. CASE WaitConnect
    BY <2>2 DEF WaitConnect
  <2>3. CASE Loop
    BY <2>3, <1>1, <1>2 DEF Loop, GoesOn
  <2>4. CASE Read
    BY <2>4 DEF Read, ReadPipe, ReadAlien, StartsOnAlien,
                ReadFileFails, Starts, Completes
  <2>5. CASE WaitRead
    BY <2>5 DEF WaitRead
  <2>6. CASE Result
    BY <2>6 DEF Result, AfterResult
  <2> QED BY <1>2, <2>1, <2>2, <2>3, <2>4, <2>5, <2>6 DEF Reader
<1>3. ASSUME owner \in {"stopping", "joining"}, [Next]_vars, ~Reader
      PROVE  reader' = reader
  BY <1>3 DEF Next, Create, StopThread, Destructor, ClosePipe, Join,
     Environment, HookConnects, HookWrites, WriteReturns, HookGone,
     HandleReused, AlienCompletes, vars
<1>4. ReaderLeft \in 0..4
  BY DEF ReaderLeft
<1>5. reader' = reader => ReaderLeft' = ReaderLeft
  BY DEF ReaderLeft
<1>6. (ReaderLeft \in 0..4)'
  BY DEF ReaderLeft
<1>7. ASSUME IInv, [Next]_vars, owner \in {"stopping", "joining"}
      PROVE  /\ ReaderLeft' <= ReaderLeft
             /\ Reader => ReaderLeft' < ReaderLeft
  <2> HIDE DEF ReaderLeft
  <2>1. CASE Reader
    BY <1>7, <2>1, <1>2, <1>4, <1>6
  <2>2. CASE ~Reader
    BY <1>7, <2>2, <1>3, <1>4, <1>5
  <2> QED BY <2>1, <2>2
<1>8. IInv /\ [Next]_vars =>
        [(owner \in {"stopping", "joining"}) =>
           /\ ReaderLeft \in 0..4
           /\ ReaderLeft' <= ReaderLeft
           /\ Reader => ReaderLeft' < ReaderLeft]_vars
  BY <1>4, <1>7
<1> QED BY <1>8, Inductive, PTL DEF Spec

(* The destructor never joins a thread that waits for an event only the    *)
(* joining thread could have caused: closing the handle ended what was in  *)
(* progress.  The exception is a read of what reused the handle value      *)
(* (pipe.cpp:33-38).                                                       *)
THEOREM JoinReturns == Spec => []JoinHasAWayOut
<1>1. IInv /\ HookInv => JoinHasAWayOut
  BY DEF IInv, NeverWaitsInVain, FlagBeforeHandle, HookInv, Waiting,
         PipeOwnsOperations, JoinHasAWayOut, ReaderGoesOn
<1> QED BY <1>1, HookInductive, PTL

(* The hook's WriteFile and the reading thread never wait for each other:  *)
(* while the hook is blocked the write may return, the reader goes on, the *)
(* owner is closing the pipe, or the thread gave up for one of the causes  *)
(* named (pipe.cpp:47-56, 115-132).                                        *)
THEOREM WriterWaitsForSomeone == Spec => []WriterHasAWayOut
<1>1. IInv /\ HookInv => WriterHasAWayOut
  <2> SUFFICES ASSUME IInv, HookInv, writing # "none", owner # "stopping",
                      ~ReaderGoesOn
               PROVE  WriteGoesOn \/ GaveUp
    BY DEF WriterHasAWayOut
  <2>1. client = "connected" /\ handle = "pipe" /\ owner = "alive"
    BY DEF HookInv, PipeOwnsOperations, IInv, FlagBeforeHandle
  <2>2. CASE reader = "exited"
    BY <2>1, <2>2 DEF HookInv, EndedForCause
  <2>3. CASE Waiting /\ readyEvent # "set"
    <3>1. pending = "read"
      BY <2>1, <2>3 DEF IInv, NeverWaitsInVain, Waiting, HookInv,
         HookTyped, PipeOwnsOperations, ConnectsFirst
    <3> QED BY <3>1 DEF WriteGoesOn
  <2> QED BY <2>2, <2>3 DEF ReaderGoesOn
<1> QED BY <1>1, HookInductive, PTL

=============================================================================
