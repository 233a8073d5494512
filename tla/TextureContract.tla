-------------------------- MODULE TextureContract --------------------------
(***************************************************************************)
(* What refreshSharedTexture promises the capture functions, with the      *)
(* words of the hook info, the handles and the mappings left out: which    *)
(* texture a session captures from, as seen by the calls that refresh it.  *)
(* SharedTexture implements it read by read, and Capture, which takes a    *)
(* refresh for one step, implements it too.                                *)
(***************************************************************************)

VARIABLES
  texture,        \* none, or is it of the hook's current capture?
  busy,           \* is a refresh in progress?
  fresh,          \* has the texture been current at some time during it?
  result          \* how the last refresh ended, "none" when that is over

contractVars == <<texture, busy, fresh, result>>

ContractTypeOK ==
  /\ texture \in {"none", "current", "stale"}
  /\ busy \in BOOLEAN /\ fresh \in BOOLEAN
  /\ result \in {"none", "true", "false", "threw"}

ContractInit ==
  texture = "none" /\ busy = FALSE /\ fresh = FALSE /\ result = "none"

-----------------------------------------------------------------------------
(* The hook publishes a capture, or the client learns that it does. *)
Supersede ==
  /\ texture' = IF texture = "current" THEN "stale" ELSE texture
  /\ fresh' \in {fresh, FALSE}
  /\ UNCHANGED <<busy, result>>

Begin ==
  /\ ~busy /\ busy' = TRUE
  /\ fresh' \in {texture = "current", FALSE}
  /\ result' = "none"
  /\ UNCHANGED texture

(* A refresh only succeeds with a texture that was current during it, the  *)
(* one held before or one it took.                                         *)
Succeed ==
  /\ busy /\ busy' = FALSE
  /\ texture' = "current" \/ (fresh /\ UNCHANGED texture)
  /\ fresh' = FALSE
  /\ result' = "true"

(* The attach inside a capture call takes the texture, and the capture     *)
(* goes on to refresh it.                                                  *)
TakeAndRefresh ==
  /\ busy /\ UNCHANGED busy
  /\ texture' = "current"
  /\ fresh' \in BOOLEAN
  /\ UNCHANGED result

(* A refresh that fails leaves what is held, and throws only when that had *)
(* to be replaced.                                                         *)
Fail ==
  /\ busy /\ busy' = FALSE
  /\ result' \in {"none", "false", "threw"}
  /\ result' = "threw" => texture # "current"
  /\ fresh' = FALSE
  /\ UNCHANGED texture

(* What a refresh returned is done with. *)
Forget ==
  /\ ~busy /\ result' = "none"
  /\ UNCHANGED <<texture, busy, fresh>>

(* Only the end of the session lets go of the texture. *)
Drop ==
  /\ texture' = "none" /\ busy' = FALSE /\ fresh' = FALSE /\ result' = "none"

ContractNext ==
  Supersede \/ Begin \/ Succeed \/ TakeAndRefresh \/ Fail \/ Forget \/ Drop

ContractSpec == ContractInit /\ [][ContractNext]_contractVars

=============================================================================
