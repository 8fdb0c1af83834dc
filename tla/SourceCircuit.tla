--------------------------- MODULE SourceCircuit ---------------------------
(***************************************************************************)
(* The circuit breaker in front of one outside source: an employer system  *)
(* in the agent (cmd/agent/circuit_breaker.go, a breaker for each domain), *)
(* the Yahoo search in discovery (pkg/scraper/circuit_breaker.go).  The    *)
(* two are the same machine.  Each operation holds the breaker's mutex.    *)
(***************************************************************************)
EXTENDS Naturals

CONSTANTS
  Threshold,  \* the failures in a row that open the circuit
  Cooldown    \* how long it stays open, in ticks

ASSUME CircuitAssumption == Threshold \in Nat \ {0} /\ Cooldown \in Nat \ {0}

VARIABLES
  circuit,   \* "closed", "open" or "halfOpen"
  failures,  \* consecutiveFailures; what it is above Threshold is never asked
  cooldown   \* what is left of the cooldown; runs down while the circuit is open

circuitVars == <<circuit, failures, cooldown>>

CircuitTypeOK ==
  /\ circuit \in {"closed", "open", "halfOpen"}
  /\ failures \in 0..Threshold
  /\ cooldown \in 0..Cooldown

Closed == circuit = "closed" /\ failures = 0 /\ cooldown = 0
newCircuitBreaker == circuit' = "closed" /\ failures' = 0 /\ cooldown' = 0

Refuses == circuit = "halfOpen" \/ (circuit = "open" /\ cooldown > 0)

(* Mutant: a half-open circuit lets everybody through.                     *)
AllowWhileProbing ==
  /\ ~(circuit = "open" /\ cooldown > 0)
  /\ circuit' = IF circuit = "open" THEN "halfOpen" ELSE circuit
  /\ UNCHANGED <<failures, cooldown>>

(* An open circuit past its cooldown lets one probe through.               *)
allow ==
  /\ ~Refuses
  /\ circuit' = IF circuit = "open" THEN "halfOpen" ELSE circuit
  /\ UNCHANGED <<failures, cooldown>>

recordSuccess == newCircuitBreaker

(* A failed probe reopens the circuit.  A straggler that fails while the   *)
(* circuit is open does not restart its cooldown.                          *)
recordFailure ==
  IF circuit = "halfOpen"
    THEN circuit' = "open" /\ cooldown' = Cooldown /\ UNCHANGED failures
    ELSE LET count == IF failures < Threshold THEN failures + 1 ELSE failures
             opens == count = Threshold /\ circuit # "open"
         IN /\ failures' = count
            /\ circuit' = IF opens THEN "open" ELSE circuit
            /\ cooldown' = IF opens THEN Cooldown ELSE cooldown

CooldownPasses ==
  /\ cooldown' = IF cooldown > 0 THEN cooldown - 1 ELSE 0
  /\ UNCHANGED <<circuit, failures>>
============================================================================
