-------------------------- MODULE MCAssistProcess --------------------------
(* Two jobs, one of them on an ATS that is opened directly, and two        *)
(* processes: while one runs, stalls or cleans up, the other may try to    *)
(* start, and a killed one can leave its token on either row.              *)
EXTENDS AssistProcess
============================================================================
