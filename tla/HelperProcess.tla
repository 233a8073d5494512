--------------------------- MODULE HelperProcess ---------------------------
(***************************************************************************)
(* The helper programs of attach(), src/src/utils.cpp and                  *)
(* graphics_offsets.h: runProcessAndCaptureOutput starts a child whose     *)
(* output goes into an anonymous pipe, reads until the pipe ends, waits    *)
(* for the child and closes its handles.  injectGraphicsHook looks at the  *)
(* exit code, loadGraphicsOffsets at the output.                           *)
(*                                                                         *)
(* Several threads may call at once.  CreateProcess hands every            *)
(* inheritable handle of the process to the new child, those of the other  *)
(* calls included, so that a pipe may be kept open by a stranger.  Windows *)
(* and the helpers are external.                                           *)
(***************************************************************************)
EXTENDS Naturals

CONSTANTS
  Callers,        \* calls of runProcessAndCaptureOutput, each on its thread
  Injectors,      \* those made by injectGraphicsHook; loadGraphicsOffsets
                  \* makes the others
  Parents,        \* calls whose helper may start a process of its own
  Chunks,         \* at most so many writes of one helper program
  Capacity        \* writes the pipe's buffer holds

ASSUME HelperAssumption ==
  /\ Injectors \subseteq Callers
  /\ Parents \subseteq Callers
  /\ Chunks \in Nat
  /\ Capacity \in Nat \ {0}

VARIABLES
  pc,             \* next step of each call
  thrownBy,       \* the step at which the call threw, if it did
  open,           \* handles the call has open
  inheritable,    \* ends of its pipe that a new child inherits
  process,        \* the life of each helper and of what it started
  left,           \* writes it has still to do
  ends,           \* the ends of pipes it holds
  written,        \* history: writes into the pipe of each call
  unread,         \* writes in the pipe not yet read
  got,            \* writes in the result of the call
  exitCode        \* "none", "ok" or "error"

callVars == <<pc, thrownBy, open, inheritable>>
helperVars == <<process, left, ends, exitCode>>
pipeVars == <<written, unread, got>>
vars == <<callVars, helperVars, pipeVars>>

(* What a call may start: its child, and a child of that child. *)
Helpers == Callers \X {"child", "grandchild"}

Child(c) == <<c, "child">>
Grandchild(c) == <<c, "grandchild">>

PipeEnds == {"read", "write"}

Steps == {"idle", "createPipe", "setInherit", "copyCommand", "spawn",
          "closeWrite", "read", "wait", "close", "returned", "thrown"}

TypeOK ==
  /\ pc \in [Callers -> Steps]
  /\ thrownBy \in [Callers -> Steps \cup {"none"}]
  /\ open \in [Callers -> SUBSET (PipeEnds \cup {"process"})]
  /\ inheritable \in [Callers -> SUBSET PipeEnds]
  /\ process \in [Helpers -> {"none", "running", "exited"}]
  /\ left \in [Helpers -> Nat]
  /\ ends \in [Helpers -> SUBSET (Callers \X PipeEnds)]
  /\ written \in [Callers -> Nat]
  /\ unread \in [Callers -> Nat]
  /\ got \in [Callers -> Nat]
  /\ exitCode \in [Callers -> {"none", "ok", "error"}]

Init ==
  /\ pc = [c \in Callers |-> "idle"]
  /\ thrownBy = [c \in Callers |-> "none"]
  /\ open = [c \in Callers |-> {}]
  /\ inheritable = [c \in Callers |-> {}]
  /\ process = [p \in Helpers |-> "none"]
  /\ left = [p \in Helpers |-> 0]
  /\ ends = [p \in Helpers |-> {}]
  /\ written = [c \in Callers |-> 0]
  /\ unread = [c \in Callers |-> 0]
  /\ got = [c \in Callers |-> 0]
  /\ exitCode = [c \in Callers |-> "none"]

-----------------------------------------------------------------------------
(* A call *)

At(c, step) == pc[c] = step
Goto(c, step) == pc' = [pc EXCEPT ![c] = step]

Throw(c) ==
  /\ Goto(c, "thrown")
  /\ thrownBy' = [thrownBy EXCEPT ![c] = pc[c]]

(* The name of the helper is resolved and its file looked for. *)
Begin(c) ==
  /\ At(c, "idle")
  /\ \/ Goto(c, "createPipe") /\ UNCHANGED thrownBy
     \/ Throw(c)
  /\ UNCHANGED <<open, inheritable, helperVars, pipeVars>>

(* Both ends are inheritable at first. *)
CreatePipe(c) ==
  /\ At(c, "createPipe")
  /\ \/ /\ Goto(c, "setInherit")
        /\ open' = [open EXCEPT ![c] = PipeEnds]
        /\ inheritable' = [inheritable EXCEPT ![c] = PipeEnds]
        /\ UNCHANGED thrownBy
     \/ Throw(c) /\ UNCHANGED <<open, inheritable>>
  /\ UNCHANGED <<helperVars, pipeVars>>

(* A failure leaves both ends open. *)
SetInherit(c) ==
  /\ At(c, "setInherit")
  /\ \/ /\ Goto(c, "copyCommand")
        /\ inheritable' = [inheritable EXCEPT ![c] = @ \ {"read"}]
        /\ UNCHANGED thrownBy
     \/ Throw(c) /\ UNCHANGED inheritable
  /\ UNCHANGED <<open, helperVars, pipeVars>>

(* CreateProcess wants a command it may write to.  The copy may throw for  *)
(* want of memory, and leaves both ends open too.                          *)
CopyCommand(c) ==
  /\ At(c, "copyCommand")
  /\ \/ Goto(c, "spawn") /\ UNCHANGED thrownBy
     \/ Throw(c)
  /\ UNCHANGED <<open, inheritable, helperVars, pipeVars>>

(* Slip: a failure of CreateProcess leaves the read end open. *)
CloseOnSpawnFailureForgets(c) == open' = [open EXCEPT ![c] = {"read"}]

CloseOnSpawnFailure(c) == open' = [open EXCEPT ![c] = {}]

Inherited == UNION {{d} \X inheritable[d] : d \in Callers}

SpawnFails(c) ==
  /\ Throw(c)
  /\ CloseOnSpawnFailure(c)
  /\ inheritable' = [inheritable EXCEPT ![c] = {}]
  /\ UNCHANGED helperVars

Spawn(c) ==
  /\ At(c, "spawn")
  /\ \/ SpawnFails(c)
     \/ /\ Goto(c, "closeWrite")
        /\ open' = [open EXCEPT ![c] = @ \cup {"process"}]
        /\ process' = [process EXCEPT ![Child(c)] = "running"]
        /\ \E n \in 0..Chunks : left' = [left EXCEPT ![Child(c)] = n]
        /\ ends' = [ends EXCEPT ![Child(c)] = Inherited]
        /\ UNCHANGED <<thrownBy, inheritable, exitCode>>
  /\ UNCHANGED pipeVars

(* Slip: the caller keeps its own write end. *)
WriteEndKept(c) == UNCHANGED <<open, inheritable>>

WriteEndClosed(c) ==
  /\ open' = [open EXCEPT ![c] = @ \ {"write"}]
  /\ inheritable' = [inheritable EXCEPT ![c] = @ \ {"write"}]

CloseWrite(c) ==
  /\ At(c, "closeWrite")
  /\ Goto(c, "read")
  /\ WriteEndClosed(c)
  /\ UNCHANGED <<thrownBy, helperVars, pipeVars>>

(* Some handle on the write end exists, here or in a helper. *)
Writable(c) ==
  \/ "write" \in open[c]
  \/ \E p \in Helpers : <<c, "write">> \in ends[p]

(* Slip: the loop ends with what is in the pipe at the child's end, or     *)
(* before it when there is nothing.                                        *)
PipeEndedEarly(c) == unread[c] = 0

(* ReadFile fails for good when nobody can write any more. *)
PipeEnded(c) == unread[c] = 0 /\ ~Writable(c)

(* Slip: the child is waited for before its output is read. *)
ReadAfterExit(c) ==
  /\ process[Child(c)] = "exited"
  /\ unread[c] > 0
  /\ unread' = [unread EXCEPT ![c] = @ - 1]
  /\ got' = [got EXCEPT ![c] = @ + 1]
  /\ UNCHANGED <<pc, thrownBy>>

(* One turn of the loop; append may throw for want of memory. *)
ReadChunk(c) ==
  /\ unread[c] > 0
  /\ unread' = [unread EXCEPT ![c] = @ - 1]
  /\ \/ /\ got' = [got EXCEPT ![c] = @ + 1]
        /\ UNCHANGED <<pc, thrownBy>>
     \/ Throw(c) /\ UNCHANGED got

(* A write of no bytes would end the loop too: the helpers, which print    *)
(* through stdio, make none.                                               *)
ReadLoopEnds(c) ==
  /\ PipeEnded(c)
  /\ Goto(c, "wait")
  /\ UNCHANGED <<thrownBy, unread, got>>

Read(c) ==
  /\ At(c, "read")
  /\ ReadChunk(c) \/ ReadLoopEnds(c)
  /\ UNCHANGED <<open, inheritable, helperVars, written>>

(* WaitForSingleObject(pi.hProcess, INFINITE) *)
Wait(c) ==
  /\ At(c, "wait")
  /\ process[Child(c)] = "exited"
  /\ Goto(c, "close")
  /\ UNCHANGED <<thrownBy, open, inheritable, helperVars, pipeVars>>

(* Only the injector tells by its exit code whether it succeeded. *)
ExitAccepted(c) == c \in Injectors => exitCode[c] = "ok"

Close(c) ==
  /\ At(c, "close")
  /\ open' = [open EXCEPT ![c] = {}]
  /\ \/ ExitAccepted(c) /\ Goto(c, "returned") /\ UNCHANGED thrownBy
     \/ ~ExitAccepted(c) /\ Throw(c)
  /\ UNCHANGED <<inheritable, helperVars, pipeVars>>

-----------------------------------------------------------------------------
(* The helpers *)

(* A helper writes to its standard output, the pipe of its own call.       *)
(* WriteFile blocks while the pipe is full.                                *)
Write(p) ==
  /\ process[p] = "running" /\ left[p] > 0
  /\ unread[p[1]] < Capacity
  /\ left' = [left EXCEPT ![p] = @ - 1]
  /\ written' = [written EXCEPT ![p[1]] = @ + 1]
  /\ unread' = [unread EXCEPT ![p[1]] = @ + 1]
  /\ UNCHANGED <<callVars, process, ends, exitCode, got>>

StartGrandchild(c) ==
  /\ c \in Parents
  /\ process[Child(c)] = "running" /\ process[Grandchild(c)] = "none"
  /\ process' = [process EXCEPT ![Grandchild(c)] = "running"]
  /\ \E n \in 0..Chunks : left' = [left EXCEPT ![Grandchild(c)] = n]
  /\ ends' = [ends EXCEPT ![Grandchild(c)] = ends[Child(c)]]
  /\ UNCHANGED <<callVars, exitCode, pipeVars>>

Ends(p, codes) ==
  /\ process' = [process EXCEPT ![p] = "exited"]
  /\ ends' = [ends EXCEPT ![p] = {}]
  /\ IF p[2] = "child"
       THEN \E code \in codes : exitCode' = [exitCode EXCEPT ![p[1]] = code]
       ELSE UNCHANGED exitCode
  /\ UNCHANGED <<callVars, left, pipeVars>>

Exit(p) ==
  /\ process[p] = "running" /\ left[p] = 0
  /\ Ends(p, {"ok", "error"})

Crash(p) ==
  /\ process[p] = "running"
  /\ Ends(p, {"error"})

-----------------------------------------------------------------------------
Call(c) ==
  \/ Begin(c) \/ CreatePipe(c) \/ SetInherit(c) \/ CopyCommand(c)
  \/ Spawn(c) \/ CloseWrite(c) \/ Read(c) \/ Wait(c) \/ Close(c)

Helper(p) == Write(p) \/ Exit(p)

Next ==
  \/ \E c \in Callers : Call(c) \/ StartGrandchild(c)
  \/ \E p \in Helpers : Helper(p) \/ Crash(p)

Spec == Init /\ [][Next]_vars

(* A call in progress runs, and a helper that can go on does: helpers end. *)
FairSpec ==
  /\ Spec
  /\ \A c \in Callers : WF_vars(~At(c, "idle") /\ Call(c))
  /\ \A p \in Helpers : WF_vars(Helper(p))

-----------------------------------------------------------------------------
(* Properties *)

Running(c) == pc[c] \notin {"idle", "returned", "thrown"}

(* What a call that returns hands out is all its helpers ever wrote, and   *)
(* all they ever will; an injection that returns has succeeded             *)
(* (utils.cpp:75-88, 120-122).                                             *)
WholeOutput ==
  \A c \in Callers : At(c, "returned") =>
    /\ got[c] = written[c]
    /\ \A p \in Helpers : <<c, "write">> \notin ends[p]
    /\ c \in Injectors => exitCode[c] = "ok"

(* append threw and left the pipe of the call open, with nobody to read it. *)
Abandoned(c) == thrownBy[c] = "read"

(* A call that is over has closed its handles, unless SetHandleInformation *)
(* failed, or the copy of the command or append threw (utils.cpp:37, 51,   *)
(* 76).                                                                    *)
NothingLeaked ==
  \A c \in Callers : ~Running(c) =>
    \/ open[c] = {}
    \/ thrownBy[c] \in {"setInherit", "copyCommand"}
    \/ Abandoned(c)

(* A call returns or throws although it waits without a limit, twice: for  *)
(* the end of the pipe and for the child (utils.cpp:75, 80).  What can     *)
(* keep it is an abandoned pipe: a helper blocked on it may hold the write *)
(* end of the call's own.                                                  *)
CallReturns ==
  \A c \in Callers :
    Running(c) ~> (~Running(c) \/ \E d \in Callers : Abandoned(d))

(* No helper stays blocked in a write, but for one to an abandoned pipe.   *)
HelperEnds ==
  \A p \in Helpers :
    process[p] = "running" ~> (process[p] = "exited" \/ Abandoned(p[1]))

=============================================================================
