------------------------- MODULE CaptureRefinement -------------------------
(***************************************************************************)
(* Capture implements CaptureSession: whether a session is held is whether *)
(* the keepalive mutex is, and the hook serves while it is active.  It     *)
(* implements TextureContract too, as SharedTexture does.                  *)
(***************************************************************************)
EXTENDS Capture

sessionState ==
  CASE keepalive = "none" -> "detached"
    [] keepalive # "none" /\ Attached -> "attached"
    [] keepalive # "none" /\ ~Attached /\ pc \in AttachSteps -> "attaching"
    [] OTHER -> "partial"

Session == INSTANCE CaptureSession WITH session <- sessionState,
                                        serving <- (hook = "active")

(* Every behaviour of the session, with the calls, failures, client deaths *)
(* and hook steps in any order, is one the abstract contract allows        *)
(* (obsc.cpp:106-192): no attach starts on top of a session or its         *)
(* remains, nothing but a whole release lets go, the hook serves sessions  *)
(* only, an attach ends, and a hook without a session stops.               *)
ImplementsSession == Session!FairSessionSpec

(* A refresh is one step here, which begins when it is the next one; after *)
(* it the caller reads, or attach returns, or it failed.                   *)
refreshing == pc \in {"openTexture", "refresh"}

refreshed ==
  \/ pc = "read"
  \/ pc = "idle" /\ call = "attach" /\ result = "ok" /\ Holds("device")

Texture == INSTANCE TextureContract WITH
  texture <- sourceTexture, busy <- refreshing, fresh <- FALSE,
  result <- IF refreshed THEN "true" ELSE "none"

(* The one step that stands for refreshSharedTexture has outcomes of the   *)
(* contract only, and nothing but a whole release lets go of the texture   *)
(* or ages it, but the hook (obsc.cpp:178-189, 485-524).                   *)
ImplementsTexture == Texture!ContractSpec

=============================================================================
