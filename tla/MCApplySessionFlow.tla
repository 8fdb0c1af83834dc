------------------------- MODULE MCApplySessionFlow -------------------------
(* Two applications, in a session or out of it, the second on an ATS that  *)
(* is opened directly, and one process, which may be opened again after it *)
(* ended or was killed.  That it stays one is a bound of this run; two at  *)
(* once, which lapses allow, are in MCAssistProcess and MCAnswerFlow.      *)
EXTENDS ApplySessionFlow
=============================================================================
