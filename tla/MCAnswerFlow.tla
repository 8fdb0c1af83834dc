---------------------------- MODULE MCAnswerFlow ----------------------------
(* One application with one question, and two processes: the second may    *)
(* claim the row once the first has let its heartbeat window pass, while   *)
(* the first still fills, types or cleans up.                              *)
EXTENDS AnswerFlow
============================================================================
