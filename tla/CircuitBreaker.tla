---------------------------- MODULE CircuitBreaker ----------------------------
(***************************************************************************)
(* circuit_breaker.py of the sidecar and of the insurance and cyber-       *)
(* security spines: consecutive failures of a name, counted in Redis,      *)
(* open its circuit for a while; a breaker object that once failed to      *)
(* reach Redis is degraded for good and counts in its own process.         *)
(*                                                                         *)
(* The operators give the breaker's answer and its new state.  Whether a   *)
(* call reaches Redis is a parameter the caller chooses.                   *)
(***************************************************************************)
EXTENDS Naturals

CONSTANTS Sidecars,    \* processes
          Names,       \* what circuits are kept for: providers, models, dependencies
          Threshold    \* circuit_breaker_failure_threshold

ASSUME ThresholdAssumption == Threshold \in Nat \ {0}

VARIABLES shared,      \* mg:circuit:<name>:failures and :open in Redis
          fallback,    \* _LOCAL_FALLBACK of each process
          breaker      \* is the cached breaker of the process degraded?

circuitVars == <<shared, fallback, breaker>>

Closed == [fails |-> 0, open |-> FALSE]

Circuit == [fails : 0 .. Threshold, open : BOOLEAN]

InitCircuits ==
    /\ shared = [n \in Names |-> Closed]
    /\ fallback = [s \in Sidecars |-> [n \in Names |-> Closed]]
    /\ breaker = [s \in Sidecars |-> FALSE]

\* One more failure inside the window; at the threshold the circuit opens.
\* The count saturates: above the threshold nothing distinguishes it.
Failed(c) ==
    LET count == IF c.fails < Threshold THEN c.fails + 1 ELSE c.fails
    IN  [fails |-> count, open |-> c.open \/ count >= Threshold]

\* assert_closed: an unreachable Redis is answered from the process itself.
assert_closed(s, n, degraded, reached) ==
    IF degraded \/ ~reached THEN ~fallback[s][n].open ELSE ~shared[n].open

\* The cached breaker of the process, degraded by the first unreached call.
record_failure(s, n, reached) ==
    /\ breaker' = [breaker EXCEPT ![s] = @ \/ ~reached]
    /\ IF ~breaker[s] /\ reached
       THEN shared' = [shared EXCEPT ![n] = Failed(@)] /\ UNCHANGED fallback
       ELSE fallback' = [fallback EXCEPT ![s][n] = Failed(@)] /\ UNCHANGED shared

\* Clears the process first, then Redis; an error there is ignored.
record_success(s, n, reached) ==
    /\ fallback' = [fallback EXCEPT ![s][n] = Closed]
    /\ shared' = IF ~breaker[s] /\ reached THEN [shared EXCEPT ![n] = Closed] ELSE shared
    /\ UNCHANGED breaker

\* The DependencyCircuitBreaker of insurance and cybersecurity: the same circuit,
\* kept for Redis itself.
dependency_closed(s, reached) == assert_closed(s, "redis", breaker[s], reached)

dependency_failed(s, reached) == record_failure(s, "redis", reached)

dependency_recovered(s, reached) == record_success(s, "redis", reached)

\* The open key expires, or the failure window passes, in Redis or locally.
CircuitTimeout(n) ==
    /\ \/ shared[n] # Closed /\ shared' = [shared EXCEPT ![n] = Closed] /\ UNCHANGED fallback
       \/ \E s \in Sidecars :
             /\ fallback[s][n] # Closed
             /\ fallback' = [fallback EXCEPT ![s][n] = Closed]
             /\ UNCHANGED shared
    /\ UNCHANGED breaker
=============================================================================
