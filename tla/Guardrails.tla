------------------------------ MODULE Guardrails ------------------------------
(***************************************************************************)
(* The volatile admission control in front of the ledgers: the rate,       *)
(* depth and in-flight limits kept in Redis (guardrails.py), the limiter   *)
(* of each process that takes over once Redis has failed                   *)
(* (fallback_limiter.py), the circuit breaker, and the routes that take    *)
(* and return in-flight slots: the ledger sidecar's /reserve and /settle,  *)
(* and /crystallize of insurance and cybersecurity.                        *)
(*                                                                         *)
(* One user with one trace: limits of different users share nothing.       *)
(* Every Redis command is a step of its own.  It may fail, before or after *)
(* it took effect.  The database transaction is one step: what it does is  *)
(* the subject of EscrowLedger and CrystalCommit.                          *)
(***************************************************************************)
EXTENDS CircuitBreaker, FiniteSets, Integers

CONSTANTS Governors,         \* a subset of {"ledger", "insurance", "cybersecurity"}
          Workers,           \* request threads
          Host,              \* the process of each worker
          Keys,              \* idempotency keys / operation ids
          Provider, Model,   \* the names of a dispatch and of its model
          RateLimit, MaxDepth, MaxInflight,             \* limits in Redis
          LocalRate, LocalDepth, LocalInflight, Bucket, \* limits of the fallback
          MaxFaults          \* bound: Redis commands that fail, crashes, failures reported

ASSUME GuardrailsAssumption ==
    /\ Governors \subseteq {"ledger", "insurance", "cybersecurity"}
    /\ Host \in [Workers -> Sidecars]
    /\ IsFiniteSet(Workers) /\ IsFiniteSet(Keys)
    /\ {Provider, Model, "redis"} \subseteq Names /\ Provider # Model
    /\ {RateLimit, MaxDepth, MaxInflight, LocalRate, LocalDepth, LocalInflight, Bucket,
        MaxFaults} \subseteq Nat

VARIABLES governor,   \* whose guardrails these are; it never changes
          redis,      \* the rate, depth and in-flight keys
          degraded,   \* [Sidecars -> BOOLEAN]: GuardrailService._degraded
          limiter,    \* [Sidecars -> LocalFallbackLimiter]
          req,        \* [Workers -> where a request stands]
          row,        \* [Keys -> status of the escrow row]
          incidents,  \* what has happened that is known to upset the counters
          faults

guardVars == <<governor, redis, degraded, limiter, req, row, incidents, faults>>
allVars == <<guardVars, circuitVars>>

RedisPlaces == {"rate", "depth", "card", "take", "expire", "undo", "release", "zero"}
Places == RedisPlaces \cup {"idle", "breaker", "fallback", "db"}

\* A slot may be "kept" by nobody who needs it (an expired reservation, the
\* loser of a race for one key) or "freed" while its holder still has it (the
\* key expired, a settlement replayed, a refused request's release).
Incident == {"redis_failed", "crash", "kept", "freed"}

Idle == [pc |-> "idle", key |-> CHOOSE k \in Keys : TRUE, bumped |-> FALSE]

FreshLimiter == [tokens |-> Bucket, rate |-> 0, ops |-> {}, inflight |-> 0]

GuardrailsTypeOK ==
    /\ governor \in Governors
    /\ redis \in [rate : 0 .. RateLimit + 1, ops : SUBSET Keys, inflight : Int, ttl : BOOLEAN]
    /\ degraded \in [Sidecars -> BOOLEAN]
    /\ limiter \in [Sidecars -> [tokens : 0 .. Bucket, rate : 0 .. LocalRate + 1,
                                 ops : SUBSET Keys, inflight : 0 .. LocalInflight]]
    /\ req \in [Workers -> [pc : Places, key : Keys, bumped : BOOLEAN]]
    /\ row \in [Keys -> {"none", "open", "settled", "expired"}]
    /\ incidents \subseteq Incident
    /\ faults \in 0 .. MaxFaults
    /\ shared \in [Names -> Circuit]
    /\ fallback \in [Sidecars -> [Names -> Circuit]]
    /\ breaker \in [Sidecars -> BOOLEAN]

Ledger == governor = "ledger"

Goto(w, pc) == req' = [req EXCEPT ![w].pc = pc]

Finish(w) == req' = [req EXCEPT ![w] = Idle]

Incidents(what) == incidents' = incidents \cup what

(***************************************************************************)
(* Answers                                                                 *)
(***************************************************************************)
\* A refused request.  The ledger's route answers 429 and has nothing to
\* return.  The sibling routes run "finally: release_crystallize" all the
\* same, for a slot the request never took.
Refuse(w) ==
    IF Ledger THEN Finish(w) /\ UNCHANGED incidents
    ELSE Goto(w, "release") /\ Incidents({"freed"})

\* The slot is taken.
Admit(w) == req' = [req EXCEPT ![w].pc = "db", ![w].bumped = TRUE]

\* _check_redis returned: the siblings record the success of "redis".
Admitted(w) ==
    /\ Admit(w)
    /\ UNCHANGED incidents
    /\ IF Ledger THEN UNCHANGED circuitVars
       ELSE \E reached \in BOOLEAN : dependency_recovered(Host[w], reached)

(***************************************************************************)
(* Arrival: a request that is not in the ledger yet enters the guardrails. *)
(***************************************************************************)
\* check_reserve / check_crystallize: a degraded process never tries Redis.
Check(w) == Goto(w, IF degraded[Host[w]] THEN "fallback" ELSE "rate")

\* A key that already has a row skips the guardrails (_idempotency_exists).
reserve(w, k) ==
    /\ Ledger /\ req[w].pc = "idle"
    /\ req' = [req EXCEPT ![w] = [pc |-> IF row[k] # "none" THEN "db"
                                         ELSE IF degraded[Host[w]] THEN "fallback" ELSE "rate",
                                  key |-> k, bumped |-> FALSE]]
    /\ UNCHANGED <<governor, redis, degraded, limiter, row, incidents, faults, circuitVars>>

crystallize(w, k) ==
    /\ ~Ledger /\ req[w].pc = "idle"
    /\ req' = [req EXCEPT ![w] = [pc |-> "breaker", key |-> k, bumped |-> FALSE]]
    /\ UNCHANGED <<governor, redis, degraded, limiter, row, incidents, faults, circuitVars>>

\* The siblings ask the "redis" circuit first; open, the request is refused.
RedisCircuit(w) ==
    /\ req[w].pc = "breaker"
    /\ \E reached \in BOOLEAN :
          /\ IF dependency_closed(Host[w], reached)
             THEN Check(w) /\ UNCHANGED incidents
             ELSE Refuse(w)
          /\ breaker' = [breaker EXCEPT ![Host[w]] = @ \/ ~reached]
    /\ UNCHANGED <<governor, redis, degraded, limiter, row, faults, shared, fallback>>

(***************************************************************************)
(* _check_redis and release: what each command does to Redis.              *)
(***************************************************************************)
\* INCR rate, SADD, SCARD, INCR, EXPIRE and DECR inflight, SET inflight 0.
Command(w) ==
    CASE req[w].pc = "rate"    -> [redis EXCEPT !.rate = IF @ > RateLimit THEN @ ELSE @ + 1]
      [] req[w].pc = "depth"   -> [redis EXCEPT !.ops = @ \cup {req[w].key}]
      [] req[w].pc = "card"    -> redis
      [] req[w].pc = "take"    -> [redis EXCEPT !.inflight = @ + 1]
      [] req[w].pc = "expire"  -> [redis EXCEPT !.ttl = TRUE]
      [] req[w].pc = "undo"    -> [redis EXCEPT !.inflight = @ - 1]
      [] req[w].pc = "release" -> [redis EXCEPT !.inflight = @ - 1]
      [] req[w].pc = "zero"    -> [redis EXCEPT !.inflight = 0, !.ttl = TRUE]

CheckRate(w) ==
    /\ req[w].pc = "rate"
    /\ redis' = Command(w)
    /\ IF redis'.rate > RateLimit THEN Refuse(w) ELSE Goto(w, "depth") /\ UNCHANGED incidents
    /\ UNCHANGED <<governor, degraded, limiter, row, faults, circuitVars>>

AddToTrace(w) ==
    /\ req[w].pc = "depth"
    /\ redis' = Command(w)
    /\ Goto(w, "card")
    /\ UNCHANGED <<governor, degraded, limiter, row, incidents, faults, circuitVars>>

\* A refused key stays in the set of the trace.
CheckDepth(w) ==
    /\ req[w].pc = "card"
    /\ redis' = Command(w)
    /\ IF Cardinality(redis.ops) > MaxDepth THEN Refuse(w)
       ELSE Goto(w, "take") /\ UNCHANGED incidents
    /\ UNCHANGED <<governor, degraded, limiter, row, faults, circuitVars>>

TakeWithoutExpiry(w) ==
    /\ req[w].pc = "take"
    /\ redis' = Command(w)
    /\ IF redis'.inflight > MaxInflight
       THEN Goto(w, "undo") /\ UNCHANGED <<incidents, circuitVars>>
       ELSE Admitted(w)
    /\ UNCHANGED <<governor, degraded, limiter, row, faults>>

\* INCR; the first slot of a key sets its time to live in a second command.
TakeSlot(w) ==
    /\ req[w].pc = "take"
    /\ redis' = Command(w)
    /\ IF redis'.inflight = 1
       THEN Goto(w, "expire") /\ UNCHANGED <<incidents, circuitVars>>
       ELSE IF redis'.inflight > MaxInflight
       THEN Goto(w, "undo") /\ UNCHANGED <<incidents, circuitVars>>
       ELSE Admitted(w)
    /\ UNCHANGED <<governor, degraded, limiter, row, faults>>

SetExpiry(w) ==
    /\ req[w].pc = "expire"
    /\ redis' = Command(w)
    /\ IF 1 > MaxInflight
       THEN Goto(w, "undo") /\ UNCHANGED <<incidents, circuitVars>>
       ELSE Admitted(w)
    /\ UNCHANGED <<governor, degraded, limiter, row, faults>>

UndoSlot(w) ==
    /\ req[w].pc = "undo"
    /\ redis' = Command(w)
    /\ Refuse(w)
    /\ UNCHANGED <<governor, degraded, limiter, row, faults, circuitVars>>

_check_redis(w) ==
    \/ CheckRate(w) \/ AddToTrace(w) \/ CheckDepth(w)
    \/ TakeSlot(w) \/ SetExpiry(w) \/ UndoSlot(w)

LocalRelease(s) ==
    limiter' = [limiter EXCEPT ![s].inflight = IF @ > 0 THEN @ - 1 ELSE @]

\* release_reserve: DECR, and a counter below zero is set back to zero.
release_reserve(w) ==
    /\ req[w].pc = "release"
    /\ IF degraded[Host[w]]
       THEN LocalRelease(Host[w]) /\ Finish(w) /\ UNCHANGED redis
       ELSE /\ redis' = Command(w)
            /\ IF redis'.inflight < 0 THEN Goto(w, "zero") ELSE Finish(w)
            /\ UNCHANGED limiter
    /\ UNCHANGED <<governor, degraded, row, incidents, faults, circuitVars>>

ResetCounter(w) ==
    /\ req[w].pc = "zero"
    /\ redis' = Command(w)
    /\ Finish(w)
    /\ UNCHANGED <<governor, degraded, limiter, row, incidents, faults, circuitVars>>

\* A command fails: the service is degraded for the rest of the process's
\* life.  A check goes on with the local limiter, a release is done there.
\* A command whose reply was lost has taken effect.
RedisFault(w) ==
    /\ req[w].pc \in RedisPlaces /\ faults < MaxFaults
    /\ req[w].pc = "release" => ~degraded[Host[w]]
    /\ redis' \in {redis, Command(w)}
    /\ degraded' = [degraded EXCEPT ![Host[w]] = TRUE]
    /\ faults' = faults + 1
    /\ Incidents({"redis_failed"})
    /\ IF req[w].pc \in {"release", "zero"}
       THEN LocalRelease(Host[w]) /\ Finish(w) /\ UNCHANGED circuitVars
       ELSE /\ Goto(w, "fallback")
            /\ IF Ledger THEN UNCHANGED circuitVars
               ELSE \E reached \in BOOLEAN : dependency_failed(Host[w], reached)
            /\ UNCHANGED limiter
    /\ UNCHANGED <<governor, row>>

(***************************************************************************)
(* LocalFallbackLimiter: one critical section.                             *)
(***************************************************************************)
check_fallback(w) ==
    /\ req[w].pc = "fallback"
    /\ LET s     == Host[w]
           l     == limiter[s]
           count == IF l.rate > LocalRate THEN l.rate ELSE l.rate + 1
           ops   == l.ops \cup {req[w].key}
           tried == [l EXCEPT !.rate = count]
           added == [tried EXCEPT !.ops = ops]
       IN  IF l.tokens = 0 THEN UNCHANGED limiter /\ Refuse(w)
           ELSE IF count > LocalRate
           THEN limiter' = [limiter EXCEPT ![s] = tried] /\ Refuse(w)
           ELSE IF Cardinality(ops) > LocalDepth \/ l.inflight + 1 > LocalInflight
           THEN limiter' = [limiter EXCEPT ![s] = added] /\ Refuse(w)
           ELSE /\ limiter' = [limiter EXCEPT ![s] =
                                  [added EXCEPT !.inflight = @ + 1, !.tokens = @ - 1]]
                /\ Admit(w) /\ UNCHANGED incidents
    /\ UNCHANGED <<governor, redis, degraded, row, faults, circuitVars>>

\* Time passes: a new minute, and the bucket fills up.
_refill_tokens ==
    /\ \/ redis.rate # 0
       \/ \E s \in Sidecars : limiter[s].rate # 0 \/ limiter[s].tokens # Bucket
    /\ redis' = [redis EXCEPT !.rate = 0]
    /\ limiter' = [s \in Sidecars |-> [limiter[s] EXCEPT !.rate = 0, !.tokens = Bucket]]
    /\ UNCHANGED <<governor, degraded, req, row, incidents, faults, circuitVars>>

(***************************************************************************)
(* The database transaction and its outcome                                *)
(***************************************************************************)
\* _assert_circuit_closed(request.model): a new breaker for every request,
\* which counts as degraded when it cannot reach Redis.
_assert_circuit_closed(w, reached) == assert_closed(Host[w], Model, FALSE, reached)

ReleaseUnconditionally(w) == Goto(w, "release")

\* Every failure after the guardrails returns the slot, if one was taken.
ReleaseIfBumped(w) == IF req[w].bumped THEN Goto(w, "release") ELSE Finish(w)

FailWithoutRelease(w) == Finish(w)

\* The errors of reserve_operation: circuit, budget, balance, conflict.
ReserveFails(w) == ReleaseIfBumped(w)

\* /reserve: the new row keeps the slot.  A replay finds the row; when it
\* was committed after _idempotency_exists looked, a second slot is kept.
reserve_operation(w) ==
    /\ Ledger /\ req[w].pc = "db"
    /\ \E reached \in BOOLEAN :
          \/ /\ _assert_circuit_closed(w, reached) /\ row[req[w].key] = "none"
             /\ row' = [row EXCEPT ![req[w].key] = "open"]
             /\ Finish(w) /\ UNCHANGED incidents
          \/ /\ row[req[w].key] # "none"
             /\ Finish(w) /\ UNCHANGED row
             /\ Incidents(IF req[w].bumped THEN {"kept"} ELSE {})
          \/ ReserveFails(w) /\ UNCHANGED <<row, incidents>>
    /\ UNCHANGED <<governor, redis, degraded, limiter, faults, circuitVars>>

\* /crystallize of the siblings: whatever the outcome, the slot goes back.
crystallize_operation(w) ==
    /\ ~Ledger /\ req[w].pc = "db"
    /\ Goto(w, "release")
    /\ UNCHANGED <<governor, redis, degraded, limiter, row, incidents, faults, circuitVars>>

\* /settle: commit, then release.  A replay of a settled row releases again;
\* an expired row has kept its slot until this late settlement.
apply_settlement(w, k) ==
    /\ Ledger /\ req[w].pc = "idle" /\ row[k] # "none"
    /\ row' = [row EXCEPT ![k] = "settled"]
    /\ Incidents(IF row[k] = "settled" THEN {"freed"} ELSE {})
    /\ req' = [req EXCEPT ![w] = [pc |-> "release", key |-> k, bumped |-> FALSE]]
    /\ UNCHANGED <<governor, redis, degraded, limiter, faults, circuitVars>>

\* A PROVIDER_TIMEOUT report counts against the name of the provider.
_record_provider_failure(s) ==
    /\ Ledger /\ faults < MaxFaults
    /\ \E reached \in BOOLEAN : record_failure(s, Provider, reached)
    /\ faults' = faults + 1
    /\ UNCHANGED <<governor, redis, degraded, limiter, req, row, incidents>>

\* A settlement of a dispatch of the provider counts in its favour.
_record_provider_success(s) ==
    /\ Ledger /\ {fallback[s][Provider], shared[Provider]} # {Closed}
    /\ \E reached \in BOOLEAN : record_success(s, Provider, reached)
    /\ UNCHANGED guardVars

(***************************************************************************)
(* The world                                                               *)
(***************************************************************************)
\* The reconciler expires a reservation and knows nothing of the guardrails.
sweep(k) ==
    /\ row[k] = "open"
    /\ row' = [row EXCEPT ![k] = "expired"]
    /\ Incidents({"kept"})
    /\ UNCHANGED <<governor, redis, degraded, limiter, req, faults, circuitVars>>

\* The in-flight key reaches the end of its time to live.
KeyExpires ==
    /\ redis.ttl
    /\ redis' = [redis EXCEPT !.inflight = 0, !.ttl = FALSE]
    /\ incidents' = IF redis.inflight # 0 THEN incidents \cup {"freed"} ELSE incidents
    /\ UNCHANGED <<governor, degraded, limiter, req, row, faults, circuitVars>>

\* A process dies and starts again: _connect decides whether it is degraded.
Restart(s) ==
    /\ faults < MaxFaults
    /\ faults' = faults + 1
    /\ \E down \in BOOLEAN :
          /\ degraded' = [degraded EXCEPT ![s] = down]
          /\ breaker' = [breaker EXCEPT ![s] = down]
          /\ Incidents({"crash"} \cup IF down THEN {"redis_failed"} ELSE {})
    /\ limiter' = [limiter EXCEPT ![s] = FreshLimiter]
    /\ fallback' = [fallback EXCEPT ![s] = [n \in Names |-> Closed]]
    /\ req' = [w \in Workers |-> IF Host[w] = s THEN Idle ELSE req[w]]
    /\ UNCHANGED <<governor, redis, row, shared>>
-----------------------------------------------------------------------------
Init ==
    /\ governor \in Governors
    /\ redis = [rate |-> 0, ops |-> {}, inflight |-> 0, ttl |-> FALSE]
    /\ degraded = [s \in Sidecars |-> FALSE]
    /\ limiter = [s \in Sidecars |-> FreshLimiter]
    /\ req = [w \in Workers |-> Idle]
    /\ row = [k \in Keys |-> "none"]
    /\ incidents = {}
    /\ faults = 0
    /\ InitCircuits

\* The three governors run copies of the same guardrails.
insurance_check(w) == RedisCircuit(w) \/ _check_redis(w) \/ RedisFault(w)

cybersecurity_check(w) == RedisCircuit(w) \/ _check_redis(w) \/ RedisFault(w)

insurance_release(w) == release_reserve(w) \/ ResetCounter(w)

cybersecurity_release(w) == release_reserve(w) \/ ResetCounter(w)

insurance_fallback(w) == check_fallback(w)

cybersecurity_fallback(w) == check_fallback(w)

InsuranceRoute(w) ==
    \/ \E k \in Keys : crystallize(w, k)
    \/ insurance_check(w) \/ insurance_fallback(w)
    \/ crystallize_operation(w)
    \/ insurance_release(w)

CybersecurityRoute(w) ==
    \/ \E k \in Keys : crystallize(w, k)
    \/ cybersecurity_check(w) \/ cybersecurity_fallback(w)
    \/ crystallize_operation(w)
    \/ cybersecurity_release(w)

LedgerRoute(w) ==
    \/ \E k \in Keys : reserve(w, k) \/ apply_settlement(w, k)
    \/ _check_redis(w) \/ check_fallback(w) \/ RedisFault(w)
    \/ reserve_operation(w)
    \/ release_reserve(w) \/ ResetCounter(w)

Environment ==
    \/ \E s \in Sidecars :
          _record_provider_failure(s) \/ _record_provider_success(s) \/ Restart(s)
    \/ \E k \in Keys : sweep(k)
    \/ \E n \in Names : CircuitTimeout(n) /\ UNCHANGED guardVars
    \/ _refill_tokens
    \/ KeyExpires

Next ==
    \/ governor = "ledger" /\ \E w \in Workers : LedgerRoute(w)
    \/ governor = "insurance" /\ \E w \in Workers : InsuranceRoute(w)
    \/ governor = "cybersecurity" /\ \E w \in Workers : CybersecurityRoute(w)
    \/ Environment

Spec == Init /\ [][Next]_allVars

(***************************************************************************)
(* Properties                                                              *)
(***************************************************************************)
At(places) == {w \in Workers : req[w].pc \in places}

Open == {k \in Keys : row[k] = "open"}

\* Requests that hold a slot and are in their transaction.
Holding == {w \in At({"db"}) : req[w].bumped}

\* The in-flight cap (check_reserve, check_crystallize): open reservations and
\* requests inside their transaction never exceed max_user_inflight, however
\* requests, settlements, sweeps, restarts and retries of the same key
\* interleave, unless Redis failed, the key expired under load, a settlement
\* was replayed or (siblings) a refused request returned a slot.
InflightCap ==
    incidents \cap {"redis_failed", "freed"} = {} =>
        Cardinality(Open) + Cardinality(Holding) <= MaxInflight

\* Slots do not leak (routes_reserve: "inflight must release on failed
\* reserve"): the counter never exceeds the reservations that are open and the
\* requests about to return a slot, unless Redis or the process failed, a
\* reservation expired, or two requests with one key raced.
SlotsReturned ==
    incidents \cap {"redis_failed", "crash", "kept"} = {} =>
        redis.inflight <= Cardinality(Open) + Cardinality(Holding)
                          + Cardinality(At({"expire", "undo", "release"}))

\* What does leak is not lost for ever: a counter above zero has a time to live
\* or the command that gives it one is under way, although INCR, EXPIRE, DECR
\* and SET are separate commands of different requests, unless one was lost.
LeaksExpire ==
    incidents \cap {"redis_failed", "crash"} = {} =>
        (redis.inflight > 0 => redis.ttl \/ At({"expire", "zero"}) # {})

\* docs/institutional-reliability.md: in a provider storm "Reserve blocked per
\* provider": no reservation is written while the circuit of the provider is
\* open where this process would look it up.
StormBlocksReserve ==
    [][\A k \in Keys : row[k] = "none" /\ row'[k] = "open" => ~shared[Provider].open]_allVars
=============================================================================
