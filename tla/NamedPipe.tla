----------------------------- MODULE NamedPipe -----------------------------
(***************************************************************************)
(* The log pipe of a session, src/src/pipe.cpp: the thread NamedPipe       *)
(* creates reads with overlapped I/O what the hook writes, and the         *)
(* destructor stops it from another thread by closing the handle under it. *)
(*                                                                         *)
(* Windows and the hook are external.  What pipe.cpp asks of Windows:      *)
(* starting an operation resets its event, its completion sets it, and     *)
(* closing the pipe completes the operation in progress with an error.     *)
(***************************************************************************)
EXTENDS Naturals, Sequences

CONSTANTS
  Messages,       \* what the hook may write: "text" fits a read, "long" is
                  \* longer than IPC_PIPE_BUFFER_SIZE, "empty" has no bytes
  Capacity,       \* messages the pipe's own buffer holds
  EarlyConnect,   \* may the hook connect before the thread listens?
  Reuse           \* may another thread of the process get the same handle
                  \* value once the pipe is closed?

ASSUME PipeAssumption ==
  /\ Messages \subseteq {"text", "long", "empty"}
  /\ Capacity \in Nat \ {0}
  /\ EarlyConnect \in BOOLEAN
  /\ Reuse \in BOOLEAN

VARIABLES
  owner,          \* the thread that creates and destroys the NamedPipe
  reader,         \* next step of the reading thread
  threadRunning,  \* "yes" or "no"
  handle,         \* what the handle value names
  pending,        \* the overlapped operation in progress
  readyEvent,     \* "set" or "clear"
  status,         \* how the last overlapped operation ended
  client,         \* the hook's end of the pipe
  writing,        \* the message of the hook's blocked WriteFile, if any
  buffer,         \* messages written and not read
  strays          \* history: calls of this thread on a handle already closed

ioVars == <<pending, readyEvent, status>>
hookVars == <<client, writing, buffer>>
vars == <<owner, reader, threadRunning, handle, ioVars, hookVars, strays>>

ReaderSteps == {"connect", "waitConnect", "loop", "read", "waitRead", "result",
                "exited"}

TypeOK ==
  /\ owner \in {"gone", "alive", "stopping", "joining"}
  /\ reader \in ReaderSteps
  /\ threadRunning \in {"yes", "no"}
  /\ handle \in {"pipe", "closed", "alien"}
  /\ pending \in {"none", "connect", "read", "alien"}
  /\ readyEvent \in {"set", "clear"}
  /\ status \in {"none", "ok", "failed"}
  /\ client \in {"none", "connected", "gone"}
  /\ writing \in Messages \cup {"none"}
  /\ buffer \in Seq(Messages)
  /\ strays \in Nat

Init ==
  /\ owner = "gone" /\ reader = "exited" /\ threadRunning = "no"
  /\ handle = "closed"
  /\ pending = "none" /\ readyEvent = "clear" /\ status = "none"
  /\ client = "none" /\ writing = "none" /\ buffer = <<>>
  /\ strays = 0

-----------------------------------------------------------------------------
(* The owner *)

(* NamedPipe::create: a new pipe and its thread. *)
Create ==
  /\ owner = "gone"
  /\ owner' = "alive" /\ reader' = "connect" /\ threadRunning' = "yes"
  /\ handle' = "pipe"
  /\ pending' = "none" /\ readyEvent' = "clear" /\ status' = "none"
  /\ client' = "none" /\ writing' = "none" /\ buffer' = <<>>
  /\ strays' = 0

(* NamedPipe::~NamedPipe, in three steps: store, *)
StopThread ==
  /\ owner = "alive"
  /\ owner' = "stopping"
  /\ threadRunning' = "no"
  /\ UNCHANGED <<reader, handle, ioVars, hookVars, strays>>

(* The handle is closed: an operation in progress ends with an error, and  *)
(* so does the hook's write.                                               *)
HandleCloses ==
  /\ handle' = "closed"
  /\ IF pending = "none"
       THEN UNCHANGED ioVars
       ELSE pending' = "none" /\ readyEvent' = "set" /\ status' = "failed"
  /\ client' = IF client = "connected" THEN "gone" ELSE client
  /\ writing' = "none" /\ buffer' = <<>>

(* Slip: the thread is joined before the handle is closed. *)
CloseAfterJoin ==
  /\ owner = "stopping"
  /\ reader = "exited"
  /\ owner' = "joining"
  /\ HandleCloses
  /\ UNCHANGED <<reader, threadRunning, strays>>

(* close, *)
ClosePipe ==
  /\ owner = "stopping"
  /\ owner' = "joining"
  /\ HandleCloses
  /\ UNCHANGED <<reader, threadRunning, strays>>

(* and join. *)
Join ==
  /\ owner = "joining"
  /\ reader = "exited"
  /\ owner' = "gone"
  /\ UNCHANGED <<reader, threadRunning, handle, ioVars, hookVars, strays>>

-----------------------------------------------------------------------------
(* The reading thread *)

Exit == reader' = "exited" /\ UNCHANGED <<ioVars, buffer, writing>>

(* The reader calls Windows with the handle it was given. *)
UsesHandle ==
  strays' = IF handle = "pipe" THEN strays ELSE strays + 1

Starts(operation, next) ==
  /\ pending' = operation /\ readyEvent' = "clear" /\ status' = "none"
  /\ reader' = next

Completes(outcome) ==
  /\ pending' = "none" /\ readyEvent' = "set" /\ status' = outcome

(* On whatever has the handle value by now: it may be done at once or      *)
(* wait for what never comes.                                              *)
StartsOnAlien(next) ==
  /\ handle = "alien"
  /\ \/ Completes("ok") /\ reader' = next
     \/ Starts("alien", next)
  /\ UNCHANGED buffer

(* waitForConnection: any error but ERROR_IO_PENDING ends the thread,      *)
(* ERROR_PIPE_CONNECTED of a hook that was faster included.                *)
Connect ==
  /\ reader = "connect"
  /\ UsesHandle
  /\ \/ /\ handle = "pipe" /\ client = "none"
        /\ Starts("connect", "waitConnect")
        /\ UNCHANGED <<buffer, writing>>
     \/ StartsOnAlien("waitConnect") /\ UNCHANGED writing
     \/ ~(handle = "pipe" /\ client = "none") /\ Exit
  /\ UNCHANGED <<owner, threadRunning, handle, client>>

(* The auto-reset event ends the wait; nobody asks how the connection went. *)
WaitConnect ==
  /\ reader = "waitConnect"
  /\ readyEvent = "set"
  /\ readyEvent' = "clear"
  /\ reader' = "loop"
  /\ UNCHANGED <<owner, threadRunning, handle, pending, status, hookVars, strays>>

(* Slip: the loop has no condition. *)
GoesOnForever == TRUE

GoesOn == threadRunning = "yes"

Loop ==
  /\ reader = "loop"
  /\ reader' = IF GoesOn THEN "read" ELSE "exited"
  /\ UNCHANGED <<owner, threadRunning, handle, ioVars, hookVars, strays>>

Outcome(message) == IF message = "text" THEN "ok" ELSE "failed"

(* Slip: a ReadFile that failed is waited for all the same. *)
ReadFileFailsUnseen == reader' = "waitRead" /\ UNCHANGED <<ioVars, buffer>>

(* ReadFile fails, and not with ERROR_IO_PENDING. *)
ReadFileFails == reader' = "exited" /\ UNCHANGED <<ioVars, buffer>>

(* On the pipe: a message that waits is read at once, too long a one is    *)
(* reported as ERROR_MORE_DATA; without one the read is pending, and       *)
(* without a client it fails.                                              *)
ReadPipe ==
  /\ handle = "pipe"
  /\ \/ /\ buffer # <<>>
        /\ \/ /\ Head(buffer) # "long"
              /\ Completes(Outcome(Head(buffer)))
              /\ reader' = "waitRead"
              /\ buffer' = Tail(buffer)
           \/ Head(buffer) = "long" /\ ReadFileFails
     \/ /\ buffer = <<>> /\ client = "connected"
        /\ Starts("read", "waitRead")
        /\ UNCHANGED buffer
     \/ buffer = <<>> /\ client # "connected" /\ ReadFileFails

ReadAlien ==
  /\ handle = "alien"
  /\ StartsOnAlien("waitRead") \/ ReadFileFails

Read ==
  /\ reader = "read"
  /\ UsesHandle
  /\ ReadPipe \/ ReadAlien \/ (handle = "closed" /\ ReadFileFails)
  /\ UNCHANGED <<owner, threadRunning, handle, client, writing>>

WaitRead ==
  /\ reader = "waitRead"
  /\ readyEvent = "set"
  /\ readyEvent' = "clear"
  /\ reader' = "result"
  /\ UNCHANGED <<owner, threadRunning, handle, pending, status, hookVars, strays>>

(* Slip: one message is all that is read. *)
AfterResultOnce == "exited"

AfterResult == IF status = "ok" THEN "loop" ELSE "exited"

(* GetOverlappedResult and the log line. *)
Result ==
  /\ reader = "result"
  /\ reader' = AfterResult
  /\ UNCHANGED <<owner, threadRunning, handle, ioVars, hookVars, strays>>

-----------------------------------------------------------------------------
(* The hook, and the rest of the process *)

HookConnects ==
  /\ handle = "pipe" /\ client = "none"
  /\ EarlyConnect \/ pending = "connect"
  /\ client' = "connected"
  /\ IF pending = "connect" THEN Completes("ok") ELSE UNCHANGED ioVars
  /\ UNCHANGED <<owner, reader, threadRunning, handle, writing, buffer, strays>>

HookWrites ==
  /\ client = "connected" /\ writing = "none"
  /\ writing' \in Messages
  /\ UNCHANGED <<owner, reader, threadRunning, handle, ioVars, client, buffer,
                 strays>>

(* The blocking WriteFile returns: read at once, or buffered. *)
WriteReturns ==
  /\ writing # "none"
  /\ writing' = "none"
  /\ \/ /\ pending = "read"
        /\ Completes(Outcome(writing))
        /\ UNCHANGED buffer
     \/ /\ pending # "read" /\ Len(buffer) < Capacity
        /\ buffer' = Append(buffer, writing)
        /\ UNCHANGED ioVars
  /\ UNCHANGED <<owner, reader, threadRunning, handle, client, strays>>

(* The target ends. *)
HookGone ==
  /\ client = "connected"
  /\ client' = "gone" /\ writing' = "none"
  /\ IF pending = "read" THEN Completes("failed") ELSE UNCHANGED ioVars
  /\ UNCHANGED <<owner, reader, threadRunning, handle, buffer, strays>>

HandleReused ==
  /\ Reuse /\ handle = "closed" /\ owner = "joining"
  /\ handle' = "alien"
  /\ UNCHANGED <<owner, reader, threadRunning, ioVars, hookVars, strays>>

AlienCompletes ==
  /\ pending = "alien"
  /\ \E outcome \in {"ok", "failed"} : Completes(outcome)
  /\ UNCHANGED <<owner, reader, threadRunning, handle, hookVars, strays>>

-----------------------------------------------------------------------------
Destructor == ClosePipe \/ Join

Reader == Connect \/ WaitConnect \/ Loop \/ Read \/ WaitRead \/ Result

Environment ==
  \/ HookConnects \/ HookWrites \/ WriteReturns \/ HookGone
  \/ HandleReused \/ AlienCompletes

Next == Create \/ StopThread \/ Destructor \/ Reader \/ Environment

Spec == Init /\ [][Next]_vars

(* Both threads are scheduled, and Windows completes a write that can be.  *)
FairSpec ==
  Spec /\ WF_vars(Destructor) /\ WF_vars(Reader) /\ WF_vars(WriteReturns)

-----------------------------------------------------------------------------
(* Properties *)

(* The thread only waits for an event that something will set: an          *)
(* operation is in progress or has completed (pipe.cpp:26, 42).            *)
NeverWaitsInVain ==
  reader \in {"waitConnect", "waitRead"} =>
    pending # "none" \/ readyEvent = "set"

(* threadRunning bounds the harm of closing the handle under the thread:   *)
(* it uses the closed handle, or what took its value, at most once         *)
(* (pipe.cpp:35-37 against 66-69).                                         *)
AtMostOneStray == strays <= 1

(* The destructor returns, in whatever state it finds the thread, so that  *)
(* shutdown() does too (obsc.cpp:173); the exception is a thread that got  *)
(* stuck on what reused the handle value.                                  *)
DestructorReturns ==
  (owner = "stopping") ~> (owner = "gone" \/ pending = "alien")

(* The thread ended with the pipe open: the hook was there before it       *)
(* listened, or a message could not be read.                               *)
GaveUp ==
  /\ reader = "exited" /\ handle = "pipe"
  /\ status # "ok" \/ (buffer # <<>> /\ Head(buffer) = "long")

(* The hook, which writes from inside the target, is never left blocked by *)
(* a reader that went away while the pipe stayed open, but for a hook that *)
(* came early or wrote what cannot be read (pipe.cpp:47-56, 115-132).      *)
WriterNotBlocked == (writing # "none") ~> (writing = "none" \/ GaveUp)

=============================================================================
