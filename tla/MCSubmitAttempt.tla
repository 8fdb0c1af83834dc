-------------------------- MODULE MCSubmitAttempt --------------------------
(* One application, in every mode and by every route.                      *)
EXTENDS SubmitAttempt
=============================================================================
