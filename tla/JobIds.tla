------------------------------- MODULE JobIds -------------------------------
(* The rows of job_funnel the other tables refer to.  A job is a number    *)
(* because an apply session works its jobs in a fixed order, which is <.   *)
EXTENDS Integers

CONSTANTS Jobs, NoJob

ASSUME JobsAssumption == Jobs \subseteq Nat /\ NoJob \notin Jobs
============================================================================
