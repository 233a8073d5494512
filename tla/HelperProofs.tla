---------------------------- MODULE HelperProofs ----------------------------
(***************************************************************************)
(* Proofs about HelperProcess: whatever the number of calls and helpers,   *)
(* the size of the pipe and the interleaving, a call that returns has the  *)
(* whole output, and a call that is over has left no handle open but where *)
(* the code lets go of them.                                               *)
(*                                                                         *)
(* The argument: the step of a call tells which handles it has open and    *)
(* which of them a new child may inherit (StepHandles); a running helper   *)
(* holds the write end of its own call's pipe (RunningWrites); so that     *)
(* once that pipe has ended nobody can write into it, now or later         *)
(* (EndedForGood), and what was read is what was written (Conserved).      *)
(***************************************************************************)
EXTENDS HelperProcess, TLAPS

(* The step a call is at, or the one at which it threw. *)
Reached(c) == IF At(c, "thrown") THEN thrownBy[c] ELSE pc[c]

BeforeSpawn == {"idle", "createPipe", "setInherit", "copyCommand", "spawn"}
AfterRead == {"wait", "close", "returned"}

ThrownKnown ==
  \A c \in Callers :
    IF At(c, "thrown")
      THEN thrownBy[c] \in {"idle", "createPipe", "setInherit", "copyCommand",
                            "spawn", "read", "close"}
      ELSE thrownBy[c] = "none"

StepHandles ==
  \A c \in Callers :
    /\ Reached(c) \in {"idle", "createPipe", "returned"} =>
         open[c] = {} /\ inheritable[c] = {}
    /\ Reached(c) = "setInherit" =>
         open[c] = PipeEnds /\ inheritable[c] = PipeEnds
    /\ Reached(c) = "copyCommand" \/ At(c, "spawn") =>
         open[c] = PipeEnds /\ inheritable[c] = {"write"}
    /\ At(c, "thrown") /\ thrownBy[c] \in {"spawn", "close"} =>
         open[c] = {} /\ inheritable[c] = {}
    /\ At(c, "closeWrite") =>
         /\ open[c] = PipeEnds \cup {"process"}
         /\ inheritable[c] = {"write"}
    /\ At(c, "wait") \/ At(c, "close") \/ Reached(c) = "read" =>
         open[c] = {"read", "process"} /\ inheritable[c] = {}

(* A child is there from CreateProcess on, its own child after it. *)
ChildLives ==
  \A c \in Callers :
    /\ Reached(c) \in BeforeSpawn => process[Child(c)] = "none"
    /\ process[Child(c)] = "none" => process[Grandchild(c)] = "none"
    /\ Reached(c) \in {"close", "returned"} => process[Child(c)] = "exited"

RunningWrites ==
  \A p \in Helpers :
    IF process[p] = "running" THEN <<p[1], "write">> \in ends[p]
                              ELSE ends[p] = {}

Conserved ==
  \A c \in Callers : ~Abandoned(c) => got[c] + unread[c] = written[c]

EndedForGood ==
  \A c \in Callers : Reached(c) \in AfterRead =>
    /\ unread[c] = 0
    /\ \A p \in Helpers : <<c, "write">> \notin ends[p]

Succeeded ==
  \A c \in Callers : At(c, "returned") => ExitAccepted(c)

HelperInv ==
  /\ TypeOK
  /\ ThrownKnown /\ StepHandles
  /\ ChildLives /\ RunningWrites
  /\ Conserved /\ EndedForGood /\ Succeeded

-----------------------------------------------------------------------------
LEMMA HelperNames ==
  /\ \A c \in Callers : /\ Child(c) \in Helpers /\ Child(c)[1] = c
                        /\ Child(c)[2] = "child"
                        /\ Grandchild(c) \in Helpers /\ Grandchild(c)[1] = c
                        /\ Grandchild(c)[2] = "grandchild"
  /\ \A c, d \in Callers : /\ Child(c) # Grandchild(d)
                           /\ Child(c) = Child(d) => c = d
                           /\ Grandchild(c) = Grandchild(d) => c = d
  /\ \A p \in Helpers : /\ p[1] \in Callers
                        /\ p = Child(p[1]) \/ p = Grandchild(p[1])
BY DEF Helpers, Child, Grandchild

LEMMA InitHolds == Init => HelperInv
BY HelperNames
   DEF Init, HelperInv, TypeOK, ThrownKnown, StepHandles, ChildLives,
       RunningWrites, Conserved, EndedForGood, Succeeded, Reached, At,
       BeforeSpawn, AfterRead, Steps, ExitAccepted

(* The steps of a call that leave helpers and pipes alone. *)
LEMMA QuietSteps ==
  ASSUME HelperInv, NEW c \in Callers,
         Begin(c) \/ CreatePipe(c) \/ SetInherit(c) \/ CopyCommand(c)
           \/ CloseWrite(c) \/ Wait(c) \/ Close(c)
  PROVE  HelperInv'
<1> USE DEF HelperInv, At, Goto, Throw, Begin, CreatePipe, SetInherit,
            CopyCommand, CloseWrite, WriteEndClosed, Wait, Close
<1>1. UNCHANGED <<helperVars, pipeVars>>
  OBVIOUS
<1> USE <1>1 DEF helperVars, pipeVars
<1>2. TypeOK'
  BY DEF TypeOK, Steps, PipeEnds
<1>3. ThrownKnown'
  BY DEF TypeOK, ThrownKnown
<1>4. StepHandles'
  BY DEF TypeOK, ThrownKnown, StepHandles, Reached, PipeEnds
<1>5. ChildLives'
  BY DEF TypeOK, ThrownKnown, ChildLives, Reached, BeforeSpawn
<1>6. RunningWrites' /\ Conserved'
  BY DEF TypeOK, ThrownKnown, RunningWrites, Conserved, Abandoned
<1>7. EndedForGood'
  <2>1. \A d \in Callers : (Reached(d) \in AfterRead)' => Reached(d) \in AfterRead
    BY DEF TypeOK, ThrownKnown, Reached, AfterRead
  <2> QED BY <2>1 DEF EndedForGood
<1>8. Succeeded'
  BY DEF TypeOK, Succeeded, ExitAccepted
<1> QED
  BY <1>2, <1>3, <1>4, <1>5, <1>6, <1>7, <1>8

(* A new child inherits what is inheritable in the whole process.  Of a    *)
(* pipe that has ended that is nothing.                                    *)
LEMMA InheritsNoEndedPipe ==
  ASSUME HelperInv, NEW d \in Callers, Reached(d) \in AfterRead
  PROVE  <<d, "write">> \notin Inherited
<1>1. inheritable[d] = {}
  BY DEF HelperInv, ThrownKnown, StepHandles, Reached, AfterRead, At
<1> QED BY <1>1 DEF Inherited

LEMMA SpawnStep ==
  ASSUME HelperInv, NEW c \in Callers, Spawn(c)
  PROVE  HelperInv'
<1> USE HelperNames DEF HelperInv, At, Goto
<1>1. UNCHANGED <<written, unread, got, exitCode>> /\ At(c, "spawn")
  BY DEF Spawn, SpawnFails, helperVars, pipeVars
<1>2. Reached(c) = "spawn" /\ thrownBy[c] = "none" /\ inheritable[c] = {"write"}
  BY <1>1 DEF Reached, ThrownKnown, StepHandles
<1> USE <1>1, <1>2
<1>3. CASE SpawnFails(c)
  <2> USE <1>3 DEF SpawnFails, Throw, CloseOnSpawnFailure, helperVars
  <2>1. TypeOK'
    BY DEF TypeOK, Steps, PipeEnds
  <2>2. ThrownKnown'
    BY DEF TypeOK, ThrownKnown
  <2>3. StepHandles'
    BY DEF TypeOK, ThrownKnown, StepHandles, Reached, PipeEnds
  <2>4. ChildLives'
    BY DEF TypeOK, ThrownKnown, ChildLives, Reached, BeforeSpawn
  <2>5. RunningWrites' /\ Conserved'
    <3>1. RunningWrites'
      BY DEF RunningWrites
    <3>2. \A d \in Callers : Abandoned(d) => Abandoned(d)'
      BY DEF TypeOK, Abandoned
    <3> QED BY <3>1, <3>2 DEF Conserved
  <2>6. EndedForGood'
    <3>1. \A d \in Callers : (Reached(d) \in AfterRead)' => Reached(d) \in AfterRead
      BY DEF TypeOK, ThrownKnown, Reached, AfterRead
    <3> QED BY <3>1 DEF EndedForGood
  <2>7. Succeeded'
    BY DEF TypeOK, Succeeded, ExitAccepted
  <2> QED BY <2>1, <2>2, <2>3, <2>4, <2>5, <2>6, <2>7
<1>4. CASE ~SpawnFails(c)
  <2>1. /\ pc' = [pc EXCEPT ![c] = "closeWrite"]
        /\ open' = [open EXCEPT ![c] = @ \cup {"process"}]
        /\ process' = [process EXCEPT ![Child(c)] = "running"]
        /\ ends' = [ends EXCEPT ![Child(c)] = Inherited]
        /\ UNCHANGED <<thrownBy, inheritable>>
        /\ \E n \in 0..Chunks : left' = [left EXCEPT ![Child(c)] = n]
    BY <1>4 DEF Spawn
  <2> USE <2>1
  <2>2. <<c, "write">> \in Inherited
    BY DEF Inherited
  <2>3. TypeOK'
    <3>1. Inherited \subseteq Callers \X PipeEnds
      BY DEF Inherited, TypeOK
    <3>2. left' \in [Helpers -> Nat]
      BY HelperAssumption DEF TypeOK
    <3> QED BY <3>1, <3>2 DEF TypeOK, Steps, PipeEnds
  <2>4. ThrownKnown'
    BY DEF TypeOK, ThrownKnown
  <2>5. StepHandles'
    BY DEF TypeOK, ThrownKnown, StepHandles, Reached, PipeEnds
  <2>6. ChildLives'
    BY DEF TypeOK, ThrownKnown, ChildLives, Reached, BeforeSpawn
  <2>7. RunningWrites'
    <3> SUFFICES ASSUME NEW p \in Helpers PROVE RunningWrites!(p)'
      BY DEF RunningWrites
    <3>1. CASE p = Child(c)
      BY <3>1, <2>2 DEF TypeOK
    <3>2. CASE p # Child(c)
      BY <3>2 DEF TypeOK, RunningWrites
    <3> QED BY <3>1, <3>2
  <2>8. Conserved'
    BY DEF Conserved, Abandoned
  <2>9. EndedForGood'
    <3> SUFFICES ASSUME NEW d \in Callers, (Reached(d) \in AfterRead)'
                 PROVE  /\ unread'[d] = 0
                        /\ \A p \in Helpers : <<d, "write">> \notin ends'[p]
      BY DEF EndedForGood
    <3>1. Reached(d) \in AfterRead
      BY DEF TypeOK, Reached, AfterRead
    <3> QED BY <3>1, InheritsNoEndedPipe DEF TypeOK, EndedForGood
  <2>10. Succeeded'
    BY DEF TypeOK, Succeeded, ExitAccepted
  <2> QED BY <2>3, <2>4, <2>5, <2>6, <2>7, <2>8, <2>9, <2>10
<1> QED BY <1>3, <1>4

LEMMA ReadStep ==
  ASSUME HelperInv, NEW c \in Callers, Read(c)
  PROVE  HelperInv'
<1> USE DEF HelperInv, At, Goto
<1>1. /\ UNCHANGED <<open, inheritable, helperVars, written>>
      /\ pc[c] = "read" /\ thrownBy[c] = "none"
  BY DEF Read, ThrownKnown
<1> USE <1>1 DEF helperVars
<1>2. CASE ReadChunk(c)
  <2> USE <1>2 DEF ReadChunk, Throw
  <2>1. \A d \in Callers : (Reached(d))' = Reached(d)
    BY DEF TypeOK, Reached
  <2>2. unread' = [unread EXCEPT ![c] = @ - 1] /\ unread[c] \in Nat \ {0}
    BY DEF TypeOK
  <2>3. TypeOK'
    BY <2>2 DEF TypeOK, Steps
  <2>4. ThrownKnown'
    BY DEF TypeOK, ThrownKnown
  <2>5. StepHandles'
    BY <2>1 DEF TypeOK, StepHandles, Reached
  <2>6. ChildLives' /\ RunningWrites'
    BY <2>1 DEF ChildLives, RunningWrites
  <2>7. Conserved'
    BY <2>2 DEF TypeOK, Conserved, Abandoned
  <2>8. EndedForGood'
    BY <2>1, <2>2 DEF TypeOK, EndedForGood, Reached, AfterRead
  <2>9. Succeeded'
    BY DEF TypeOK, Succeeded, ExitAccepted
  <2> QED BY <2>3, <2>4, <2>5, <2>6, <2>7, <2>8, <2>9
<1>3. CASE ReadLoopEnds(c)
  <2> USE <1>3 DEF ReadLoopEnds
  <2>1. TypeOK'
    BY DEF TypeOK, Steps
  <2>2. ThrownKnown'
    BY DEF TypeOK, ThrownKnown
  <2>3. StepHandles'
    BY DEF TypeOK, ThrownKnown, StepHandles, Reached
  <2>4. ChildLives'
    BY DEF TypeOK, ThrownKnown, ChildLives, Reached, BeforeSpawn
  <2>5. RunningWrites' /\ Conserved'
    BY DEF RunningWrites, Conserved, Abandoned
  <2>6. EndedForGood'
    BY DEF TypeOK, EndedForGood, Reached, AfterRead, PipeEnded, Writable
  <2>7. Succeeded'
    BY DEF TypeOK, Succeeded, ExitAccepted
  <2> QED BY <2>1, <2>2, <2>3, <2>4, <2>5, <2>6, <2>7
<1> QED BY <1>2, <1>3 DEF Read

(* The calls do not see what a helper does but in their pipes. *)
LEMMA WriteStep ==
  ASSUME HelperInv, NEW p \in Helpers, Write(p)
  PROVE  HelperInv'
<1> DEFINE c == p[1]
<1> USE HelperNames DEF HelperInv, Write, callVars
<1>1. c \in Callers /\ <<c, "write">> \in ends[p]
  BY DEF RunningWrites
<1>2. Reached(c) \notin AfterRead
  BY <1>1 DEF EndedForGood
<1>3. \A d \in Callers : (Reached(d))' = Reached(d)
  BY DEF Reached, At
<1>4. TypeOK'
  BY <1>1 DEF TypeOK
<1>5. ThrownKnown' /\ StepHandles'
  BY <1>3 DEF ThrownKnown, StepHandles, At
<1>6. ChildLives' /\ RunningWrites'
  BY <1>3 DEF ChildLives, RunningWrites
<1>7. Conserved'
  BY <1>1 DEF TypeOK, Conserved, Abandoned
<1>8. EndedForGood'
  <2> SUFFICES ASSUME NEW d \in Callers, Reached(d) \in AfterRead
               PROVE  /\ unread'[d] = 0
                      /\ \A q \in Helpers : <<d, "write">> \notin ends'[q]
    BY <1>3 DEF EndedForGood
  <2>1. d # c
    BY <1>2
  <2> QED BY <1>1, <2>1 DEF TypeOK, EndedForGood, helperVars
<1>9. Succeeded'
  BY DEF Succeeded, ExitAccepted, At
<1> QED BY <1>4, <1>5, <1>6, <1>7, <1>8, <1>9

LEMMA GrandchildStep ==
  ASSUME HelperInv, NEW c \in Callers, StartGrandchild(c)
  PROVE  HelperInv'
<1> DEFINE p == Grandchild(c)
<1> USE HelperNames DEF HelperInv, StartGrandchild, callVars, pipeVars
<1>1. \A d \in Callers : (Reached(d))' = Reached(d)
  BY DEF Reached, At
<1>2. <<c, "write">> \in ends[Child(c)]
  BY DEF RunningWrites
<1>3. TypeOK'
  <2>1. left' \in [Helpers -> Nat]
    BY HelperAssumption DEF TypeOK
  <2> QED BY <2>1 DEF TypeOK
<1>4. ThrownKnown' /\ StepHandles'
  BY <1>1 DEF ThrownKnown, StepHandles, At
<1>5. ChildLives'
  BY <1>1 DEF TypeOK, ChildLives
<1>6. RunningWrites'
  <2> SUFFICES ASSUME NEW q \in Helpers PROVE RunningWrites!(q)'
    BY DEF RunningWrites
  <2>1. CASE q = p
    BY <2>1, <1>2 DEF TypeOK
  <2>2. CASE q # p
    BY <2>2 DEF TypeOK, RunningWrites
  <2> QED BY <2>1, <2>2
<1>7. Conserved' /\ Succeeded'
  BY DEF Conserved, Abandoned, Succeeded, ExitAccepted, At
<1>8. EndedForGood'
  <2> SUFFICES ASSUME NEW d \in Callers, Reached(d) \in AfterRead
               PROVE  /\ unread'[d] = 0
                      /\ \A q \in Helpers : <<d, "write">> \notin ends'[q]
    BY <1>1 DEF EndedForGood
  <2>1. \A q \in Helpers : ends'[q] = ends[q] \/ ends'[q] = ends[Child(c)]
    BY DEF TypeOK
  <2> QED BY <2>1 DEF EndedForGood
<1> QED BY <1>3, <1>4, <1>5, <1>6, <1>7, <1>8

LEMMA EndStep ==
  ASSUME HelperInv, NEW p \in Helpers, Exit(p) \/ Crash(p)
  PROVE  HelperInv'
<1> DEFINE c == p[1]
<1> USE HelperNames DEF HelperInv, callVars, pipeVars
<1>1. /\ process[p] = "running" /\ p \in Helpers
      /\ process' = [process EXCEPT ![p] = "exited"]
      /\ ends' = [ends EXCEPT ![p] = {}]
      /\ \/ UNCHANGED exitCode
         \/ /\ p = Child(c)
            /\ \E code \in {"ok", "error"} :
                 exitCode' = [exitCode EXCEPT ![c] = code]
      /\ UNCHANGED <<callVars, left, pipeVars>>
  BY DEF Exit, Crash, Ends
<1>2. \A d \in Callers : (Reached(d))' = Reached(d)
  BY <1>1 DEF Reached, At
<1>3. TypeOK'
  <2>1. exitCode' \in [Callers -> {"none", "ok", "error"}]
    BY <1>1 DEF TypeOK
  <2> QED BY <1>1, <2>1 DEF TypeOK
<1>4. ThrownKnown' /\ StepHandles'
  BY <1>1, <1>2 DEF ThrownKnown, StepHandles, At
<1>5. ChildLives'
  BY <1>1, <1>2 DEF TypeOK, ChildLives
<1>6. RunningWrites'
  <2> SUFFICES ASSUME NEW q \in Helpers PROVE RunningWrites!(q)'
    BY DEF RunningWrites
  <2>1. CASE q = p
    BY <2>1, <1>1 DEF TypeOK
  <2>2. CASE q # p
    BY <2>2, <1>1 DEF TypeOK, RunningWrites
  <2> QED BY <2>1, <2>2
<1>7. Conserved'
  BY <1>1 DEF Conserved, Abandoned
<1>8. EndedForGood'
  <2>1. \A q \in Helpers : ends'[q] \subseteq ends[q]
    BY <1>1 DEF TypeOK
  <2> QED BY <1>1, <1>2, <2>1 DEF EndedForGood
<1>9. Succeeded'
  <2> SUFFICES ASSUME NEW d \in Callers, pc[d] = "returned"
               PROVE  ExitAccepted(d)'
    BY <1>1 DEF Succeeded, At
  <2>1. process[Child(d)] = "exited" /\ p # Child(d)
    BY <1>1 DEF ChildLives, Reached, At
  <2>2. exitCode'[d] = exitCode[d]
    BY <1>1, <2>1 DEF TypeOK
  <2> QED BY <2>2 DEF Succeeded, ExitAccepted, At
<1> QED BY <1>3, <1>4, <1>5, <1>6, <1>7, <1>8, <1>9

LEMMA NextHolds == HelperInv /\ [Next]_vars => HelperInv'
<1> SUFFICES ASSUME HelperInv, [Next]_vars PROVE HelperInv'
  OBVIOUS
<1>1. ASSUME NEW c \in Callers, Call(c) PROVE HelperInv'
  BY <1>1, QuietSteps, SpawnStep, ReadStep DEF Call
<1>2. ASSUME NEW c \in Callers, StartGrandchild(c) PROVE HelperInv'
  BY <1>2, GrandchildStep
<1>3. ASSUME NEW p \in Helpers, Helper(p) \/ Crash(p) PROVE HelperInv'
  BY <1>3, WriteStep, EndStep DEF Helper
<1>4. CASE UNCHANGED vars
  BY <1>4 DEF vars, callVars, helperVars, pipeVars, HelperInv, TypeOK,
       ThrownKnown, StepHandles, ChildLives, RunningWrites, Conserved,
       EndedForGood, Succeeded, Reached, At, Abandoned, ExitAccepted
<1> QED BY <1>1, <1>2, <1>3, <1>4 DEF Next

(* The state of every call, helper and pipe is of its kind, and every      *)
(* helper process that may still write holds the pipe open: the inductive  *)
(* invariant on which the results below rest (utils.cpp:21-125).           *)
THEOREM HelperInvariant == Spec => []HelperInv
<1> QED BY InitHolds, NextHolds, PTL DEF Spec

(* What runProcessAndCaptureOutput returns is everything its helper and    *)
(* the helper's own children wrote, none of them can write any more, and   *)
(* an injection that returns has succeeded, for every number of concurrent *)
(* calls although their children inherit each other's pipes                *)
(* (utils.cpp:75-88, 120-122).                                             *)
THEOREM OutputIsWhole == Spec => []WholeOutput
<1>1. HelperInv => WholeOutput
  <2> SUFFICES ASSUME HelperInv, NEW c \in Callers, At(c, "returned")
               PROVE  /\ got[c] = written[c]
                      /\ \A p \in Helpers : <<c, "write">> \notin ends[p]
                      /\ c \in Injectors => exitCode[c] = "ok"
    BY DEF WholeOutput
  <2>1. ~Abandoned(c) /\ Reached(c) \in AfterRead
    BY DEF HelperInv, ThrownKnown, Abandoned, Reached, AfterRead, At
  <2>2. got[c] + unread[c] = written[c] /\ unread[c] = 0 /\ got[c] \in Nat
    BY <2>1 DEF HelperInv, TypeOK, Conserved, EndedForGood
  <2> QED BY <2>1, <2>2
             DEF HelperInv, EndedForGood, Succeeded, ExitAccepted
<1> QED BY <1>1, HelperInvariant, PTL

(* A call that is over, by return or by exception, has closed every handle *)
(* it had, unless SetHandleInformation failed, or the copy of the command  *)
(* or append threw (utils.cpp:37, 51, 76).                                 *)
THEOREM CallsCloseHandles == Spec => []NothingLeaked
<1>1. HelperInv => NothingLeaked
  BY DEF HelperInv, TypeOK, ThrownKnown, StepHandles, NothingLeaked,
         Running, Abandoned, Reached, At, Steps
<1> QED BY <1>1, HelperInvariant, PTL

(* Once the read loop of a call has ended nothing is written into its pipe *)
(* any more, whatever the call and its helpers do next: what it returns    *)
(* stays the whole output (utils.cpp:75).                                  *)
THEOREM OutputStaysWhole ==
  Spec => [][\A c \in Callers :
               Reached(c) \in AfterRead => written'[c] = written[c]]_vars
<1>1. ASSUME HelperInv, [Next]_vars, NEW c \in Callers,
             Reached(c) \in AfterRead
      PROVE  written'[c] = written[c]
  <2>1. ASSUME NEW p \in Helpers, Write(p) PROVE written'[c] = written[c]
    <3>1. <<p[1], "write">> \in ends[p] /\ p[1] \in Callers
      BY <2>1, <1>1, HelperNames DEF HelperInv, RunningWrites, Write
    <3>2. p[1] # c
      BY <3>1, <2>1, <1>1 DEF HelperInv, EndedForGood
    <3> QED BY <3>1, <3>2, <2>1, <1>1 DEF HelperInv, TypeOK, Write
  <2>2. ASSUME NEW p \in Helpers, Exit(p) \/ Crash(p)
        PROVE  written'[c] = written[c]
    BY <2>2 DEF Exit, Crash, Ends, pipeVars
  <2>3. ASSUME NEW d \in Callers, Call(d) \/ StartGrandchild(d)
        PROVE  written'[c] = written[c]
    BY <2>3 DEF Call, StartGrandchild, Begin, CreatePipe, SetInherit,
                CopyCommand, Spawn, CloseWrite, Read, Wait, Close, pipeVars
  <2>4. CASE UNCHANGED vars
    BY <2>4 DEF vars, pipeVars
  <2> QED BY <1>1, <2>1, <2>2, <2>3, <2>4 DEF Next, Helper
<1>2. HelperInv /\ [Next]_vars =>
        [\A c \in Callers :
           Reached(c) \in AfterRead => written'[c] = written[c]]_vars
  BY <1>1
<1> QED BY <1>2, HelperInvariant, PTL DEF Spec

-----------------------------------------------------------------------------
(* What keeps a call or a helper from going on is named here without       *)
(* ENABLED: the calls of Windows that block are ReadFile on an empty pipe  *)
(* that can still be written, WaitForSingleObject on a child that runs,    *)
(* and WriteFile into a full pipe; all other steps may be taken at once.   *)
CallGoesOn(c) ==
  /\ At(c, "read") => unread[c] > 0 \/ PipeEnded(c)
  /\ At(c, "wait") => process[Child(c)] = "exited"

HelperGoesOn(p) ==
  process[p] = "running" /\ (left[p] = 0 \/ unread[p[1]] < Capacity)

(* A running helper holds the write end of the pipe that c reads. *)
KeepsOpen(p, c) == process[p] = "running" /\ <<c, "write">> \in ends[p]

(* Behind a call that waits there is a helper that keeps its pipe open and *)
(* goes on itself, or waits for the reader of its own pipe, and that one   *)
(* goes on or threw.                                                       *)
NobodyWaitsInCircles ==
  \A c \in Callers : Running(c) =>
    \/ CallGoesOn(c)
    \/ \E p \in Helpers :
         /\ KeepsOpen(p, c)
         /\ \/ HelperGoesOn(p)
            \/ Running(p[1]) /\ CallGoesOn(p[1])
            \/ Abandoned(p[1])

(* From CreateProcess on there is a child. *)
ChildStarted ==
  \A c \in Callers :
    At(c, "closeWrite") \/ At(c, "read") \/ At(c, "wait") =>
      process[Child(c)] # "none"

LEMMA ChildStartedHolds == Spec => []ChildStarted
<1>1. Init => ChildStarted
  BY DEF Init, ChildStarted, At
<1>2. ASSUME HelperInv, ChildStarted, [Next]_vars PROVE ChildStarted'
  <2> USE <1>2, HelperNames DEF HelperInv, TypeOK, ChildStarted, At, Goto
  <2>1. ASSUME NEW c \in Callers, Spawn(c) PROVE ChildStarted'
    <3>1. CASE SpawnFails(c)
      BY <3>1 DEF SpawnFails, Throw, helperVars
    <3>2. CASE ~SpawnFails(c)
      <4>1. /\ pc' = [pc EXCEPT ![c] = "closeWrite"]
            /\ process' = [process EXCEPT ![Child(c)] = "running"]
        BY <2>1, <3>2 DEF Spawn
      <4>2. process'[Child(c)] = "running"
        BY <4>1
      <4>3. \A d \in Callers : d # c =>
              pc'[d] = pc[d] /\ process'[Child(d)] = process[Child(d)]
        BY <4>1
      <4> QED BY <4>2, <4>3
    <3> QED BY <3>1, <3>2
  <2>2. ASSUME NEW c \in Callers,
               Begin(c) \/ CreatePipe(c) \/ SetInherit(c) \/ CopyCommand(c)
                 \/ Close(c)
        PROVE  ChildStarted'
    BY <2>2 DEF Begin, CreatePipe, SetInherit, CopyCommand, Close, Throw,
                helperVars
  <2>6. ASSUME NEW c \in Callers, CloseWrite(c) \/ Wait(c)
        PROVE  ChildStarted'
    BY <2>6 DEF CloseWrite, Wait, helperVars
  <2>7. ASSUME NEW c \in Callers, Read(c) PROVE ChildStarted'
    BY <2>7 DEF Read, ReadChunk, ReadLoopEnds, Throw, helperVars
  <2>3. ASSUME NEW c \in Callers, StartGrandchild(c) PROVE ChildStarted'
    BY <2>3 DEF StartGrandchild, callVars
  <2>4. ASSUME NEW p \in Helpers, Helper(p) \/ Crash(p) PROVE ChildStarted'
    BY <2>4 DEF Helper, Write, Exit, Crash, Ends, callVars
  <2>5. CASE UNCHANGED vars
    BY <2>5 DEF vars, callVars, helperVars
  <2> QED BY <2>1, <2>2, <2>3, <2>4, <2>5, <2>6, <2>7 DEF Next, Call
<1> QED BY <1>1, <1>2, HelperInvariant, PTL DEF Spec

(* The call whose pipe is full has a reader that goes on, or had one. *)
LEMMA FullPipeIsRead ==
  ASSUME HelperInv, NEW p \in Helpers, process[p] = "running",
         unread[p[1]] >= Capacity
  PROVE  (Running(p[1]) /\ CallGoesOn(p[1])) \/ Abandoned(p[1])
<1> DEFINE d == p[1]
<1>1. d \in Callers /\ (p = Child(d) \/ p = Grandchild(d))
  BY HelperNames
<1>2. <<d, "write">> \in ends[p] /\ unread[d] > 0
  BY <1>1, HelperAssumption DEF HelperInv, TypeOK, RunningWrites
<1> HIDE DEF d
<1>3. Reached(d) \notin AfterRead
  BY <1>1, <1>2 DEF HelperInv, EndedForGood
<1>4. Reached(d) \notin BeforeSpawn
  BY <1>1 DEF HelperInv, ChildLives
<1>5. Reached(d) \in {"closeWrite", "read"}
  <2>1. pc[d] \in Steps
    BY <1>1 DEF HelperInv, TypeOK
  <2> QED
    BY <1>1, <1>3, <1>4, <2>1
       DEF HelperInv, ThrownKnown, Reached, At, AfterRead, BeforeSpawn, Steps
<1>6. CASE At(d, "thrown")
  BY <1>1, <1>5, <1>6 DEF HelperInv, ThrownKnown, Reached, Abandoned, d
<1>7. CASE ~At(d, "thrown")
  BY <1>1, <1>2, <1>5, <1>7 DEF Reached, At, Running, CallGoesOn, d
<1> QED BY <1>6, <1>7

(* The two waits without limit (utils.cpp:75, 80) never close a circle,    *)
(* although children inherit the pipes of calls they have nothing to do    *)
(* with: the chain of who waits for whom has two links at most.            *)
THEOREM WaitsAreShort == Spec => []NobodyWaitsInCircles
<1>1. HelperInv /\ ChildStarted => NobodyWaitsInCircles
  <2> SUFFICES ASSUME HelperInv, ChildStarted, NEW c \in Callers, Running(c),
                      ~CallGoesOn(c)
               PROVE  \E p \in Helpers :
                        /\ KeepsOpen(p, c)
                        /\ \/ HelperGoesOn(p)
                           \/ Running(p[1]) /\ CallGoesOn(p[1])
                           \/ Abandoned(p[1])
    BY DEF NobodyWaitsInCircles
  <2>1. At(c, "read") /\ unread[c] = 0 /\ Writable(c)
    <3>1. CASE At(c, "wait")
      <4>1. \A p \in Helpers : <<c, "write">> \notin ends[p]
        BY <3>1 DEF HelperInv, EndedForGood, Reached, AfterRead, At
      <4>2. process[Child(c)] # "running"
        BY <4>1, HelperNames DEF HelperInv, RunningWrites
      <4>3. process[Child(c)] = "exited"
        BY <3>1, <4>2, HelperNames DEF HelperInv, TypeOK, ChildStarted
      <4> QED BY <3>1, <4>3 DEF CallGoesOn, At
    <3>2. CASE At(c, "read")
      BY <3>2 DEF CallGoesOn, PipeEnded, HelperInv, TypeOK, At
    <3> QED BY <3>1, <3>2 DEF CallGoesOn
  <2>2. "write" \notin open[c]
    BY <2>1 DEF HelperInv, StepHandles, Reached, At
  <2>3. PICK p \in Helpers : <<c, "write">> \in ends[p]
    BY <2>1, <2>2 DEF Writable
  <2>4. KeepsOpen(p, c)
    BY <2>3 DEF HelperInv, RunningWrites, KeepsOpen
  <2>5. CASE unread[p[1]] >= Capacity
    BY <2>4, <2>5, FullPipeIsRead DEF KeepsOpen
  <2>6. CASE ~(unread[p[1]] >= Capacity)
    <3>1. unread[p[1]] \in Nat /\ Capacity \in Nat
      BY HelperNames, HelperAssumption DEF HelperInv, TypeOK
    <3> QED BY <2>4, <2>6, <3>1 DEF HelperGoesOn, KeepsOpen
  <2> QED BY <2>4, <2>5, <2>6
<1> QED BY <1>1, HelperInvariant, ChildStartedHolds, PTL

(* No helper is left in a WriteFile into a full pipe whose reader would    *)
(* itself have to wait: only append throwing (utils.cpp:76) takes the      *)
(* reader away.                                                            *)
THEOREM WritersAreRead ==
  Spec => [](\A p \in Helpers : process[p] = "running" =>
               \/ HelperGoesOn(p)
               \/ Running(p[1]) /\ CallGoesOn(p[1])
               \/ Abandoned(p[1]))
<1>1. HelperInv => \A p \in Helpers : process[p] = "running" =>
        \/ HelperGoesOn(p)
        \/ Running(p[1]) /\ CallGoesOn(p[1])
        \/ Abandoned(p[1])
  <2> SUFFICES ASSUME HelperInv, NEW p \in Helpers, process[p] = "running",
                      ~HelperGoesOn(p)
               PROVE  (Running(p[1]) /\ CallGoesOn(p[1])) \/ Abandoned(p[1])
    OBVIOUS
  <2>1. unread[p[1]] >= Capacity
    BY HelperNames, HelperAssumption DEF HelperInv, TypeOK, HelperGoesOn
  <2> QED BY <2>1, FullPipeIsRead
<1> QED BY <1>1, HelperInvariant, PTL

=============================================================================
