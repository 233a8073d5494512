--------------------------- MODULE CaptureSession ---------------------------
(***************************************************************************)
(* What a Capture promises its caller and the target process, with every   *)
(* handle, event and wait left out: the life of a session, and when the    *)
(* hook captures (serves).  Module CaptureRefinement shows that Capture    *)
(* implements it.                                                          *)
(***************************************************************************)

VARIABLES
  session,        \* the life of the session
  serving         \* is the hook capturing?

sessionVars == <<session, serving>>

(* detached: nothing is held.  attaching: attach() has taken the keepalive *)
(* and is at work.  attached: it succeeded.  partial: something is held,   *)
(* by an attach that threw or a shutdown that is not through.              *)
SessionTypeOK ==
  /\ session \in {"detached", "attaching", "attached", "partial"}
  /\ serving \in BOOLEAN

SessionInit == session = "detached" /\ serving = FALSE

-----------------------------------------------------------------------------
Move(from, to) == session = from /\ session' = to /\ UNCHANGED serving

(* attach() begins from nothing, never from a session or its remains. *)
Acquire == Move("detached", "attaching")

Complete == Move("attaching", "attached")

Abandon == Move("attaching", "partial")

(* shutdown() begins, called or forced by a capture that must re-attach. *)
Close == Move("attached", "partial")

(* The one way to let go of a session, whole: the end of a shutdown, or    *)
(* the death of the client.                                                *)
Drop ==
  /\ session # "detached"
  /\ session' = "detached"
  /\ UNCHANGED serving

(* The hook captures only for a session, and may stop at any time. *)
Serve ==
  /\ session # "detached"
  /\ serving' = TRUE
  /\ UNCHANGED session

Idle == serving /\ serving' = FALSE /\ UNCHANGED session

SessionNext ==
  Acquire \/ Complete \/ Abandon \/ Close \/ Drop \/ Serve \/ Idle

(* An attach comes to an end, and without a session the hook stops. *)
SessionFairness ==
  /\ WF_sessionVars(Complete \/ Abandon)
  /\ WF_sessionVars(session = "detached" /\ Idle)

SessionSpec == SessionInit /\ [][SessionNext]_sessionVars
FairSessionSpec == SessionSpec /\ SessionFairness

=============================================================================
