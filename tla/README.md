# ModelGovernor: TLA+ specifications, model checks and proofs

ModelGovernor puts a spending ledger between agents and the model providers
they call: money is reserved before a provider is called, settled at the actual
cost afterwards, and whatever is never settled is resolved by a sweep. Three
sibling governors (finance, insurance, cybersecurity) do the same for the decisions
of their platforms. This directory holds a formal model of that core, of the
processes, guardrails and audit logs around it, of the commit protocol of the siblings
and of the platforms that use it; the configurations that model-check it with TLC;
and proofs, checked by TLAPS, of its main properties for every number of
operations, users, accounts, traces, replicas and writers.

Contents: [the system](#1-the-system) · [modules and code](#2-modules-and-the-code-they-model) ·
[runs](#3-runs) · [fairness](#4-fairness) · [proofs](#5-proofs) ·
[findings](#6-findings) · [what is left out](#7-abstractions-and-what-is-not-modelled) ·
[plan](#8-plan) · [how to run](#9-how-to-run)

## 1. The system

| Part | Code | State it keeps | Operations that change it |
|---|---|---|---|
| Escrow ledger | `sidecar/app/ledger.py`, `attribution.py`, `migrations/` | wallets, trace budgets, budget scopes, escrow rows, dispatch attempts, audit events, loop counters, incidents | reserve; settle with outcome IN_FLIGHT, PROVIDER_TIMEOUT or SETTLED (late settlement included) |
| Expiry sweep and finance audit | `reconciler/app/sweeper.py`, `sidecar/app/finance_ops.py` | the same tables | claim a batch of lapsed rows; refund or strand each; audit |
| Reconciler daemon | `reconciler/app/main.py`, `leader.py`, `sidecar/app/diagnostic_mode.py` | Postgres session advisory lock, Redis key, one flag per process | elect, sweep, audit, enter diagnostic mode, clear it |
| Gateway | `gateway/app/governance.py`, `router.py` | none of its own; one execution per request | reserve, call a provider, settle |
| Audit chain | `sidecar/app/ledger_events.py`, `ledger_seal.py`, `governor-spine-core/` (advisory lock, incremental verification, anchors, retention) | `ledger_events` with `prev_event_hash`/`event_hash`, the checkpoint, anchors, a read replica | append, verify (incremental or full), anchor, archive |
| Reserve guardrails | `sidecar/app/routes_reserve.py`, `guardrails.py`, `fallback_limiter.py`, `circuit_breaker.py` | Redis counters, in-process fallback counters, breaker state | acquire and release in-flight, rate and depth windows, degraded mode |
| Admin audit | `admin_audit.py`, `routes_admin.py` of each governor | its own hash chain, diagnostic mode | clear, anchor, append |
| Sibling governors: commit ledgers | `spine/sidecar/app/commit_ledger.py`, `spine/reconciler/app/horizon_sweeper.py` of `finance-governor/`, `insurance-governor/`, `cybersecurity-governor/`; `spine_core/commit_mesh.py` | exposure, reserve or budget accounts; crystals; escrow rows; events | crystallize, commit, adjudicate (finance), horizon sweep, audit |
| Sibling governors: chains | `decision_seal.py`, `claim_seal.py`, `security_seal.py` | sealed events, checkpoint, anchors | append, verify, anchor, archive |
| Sibling governors: guardrails | `guardrails.py`, `routes_crystallize.py`, `circuit_breaker.py` of the insurance and cybersecurity spines | Redis counters, in-process fallback, breaker | acquire and release around `/crystallize` |
| Sibling governors: reconcilers | `spine/reconciler/app/main.py`, `leader.py` | Postgres session lock, diagnostic mode | elect, sweep, audit, stand by |
| Platforms | `platforms/` of each sibling: 25 gates and handlers, `spine_adapter.py`, `governed_operation.py` | commitments, freeze state, rail failures, transactions, asset book | evaluate, crystallize, commit or strand, answer |
| Claim payment rail | `insurance-governor/platforms/claim_gate/payment_rail.py` | `payment_idempotency` | look up, pay, upsert |
| Deployment | `deploy/`, `docker-compose*.yml` | none | two gateways, three sidecars, two reconcilers, PgBouncer in transaction mode |

**Interactions.** A gateway talks to a sidecar over HTTP (`/reserve`,
`/settle`) and to a provider; sidecars and reconcilers share one Postgres
database, directly or through PgBouncer, and one Redis. The escrow ledger is
the only place where money moves. Every transaction that moves it also appends
to the audit chain, in the same transaction and under the chain's transaction-level
advisory lock. A failed finance audit puts the system into diagnostic mode through
Redis, which sidecars and reconcilers poll.

**What is hard here.** No client of the ledger retries anything, so a lost answer or
a dead gateway leaves a hold that only the sweep resolves, and the sweep must
guess from the row whether a provider was called. Settlements race the sweep for
one row and may arrive after it, when the hold is gone and part of the
balance has been spent. Budgets are kept in four places (wallet, trace, scope, event
deltas) that are updated by different statements. A sweep commits a whole
batch or nothing. Leadership is a session lock used through a pool that hands
out sessions per transaction. The chain must be linear although its writers commit
and roll back independently; its verification reads statement by statement,
possibly from a replica that lags, while retention deletes rows. The guardrails count
in Redis with commands that interleave and can be lost one by one. A platform
talks to its spine over HTTP, retries, and takes a replayed answer for a fresh one.
Four copies of the same code have drifted apart in the order of their statements. `PROJECT.json`
lists these hazards at their lines, with the properties that cover them.

**What makes each part correct.**

- *Ledger*: money is conserved per wallet; the trace and scope totals equal the sums
  over the escrow rows; the event deltas of an operation explain its row; a
  dispatched hold is never refunded by expiry; a settled row is final; no
  constraint of the schema can block a sweep.
- *Gateway*: whoever gets an answer was charged for that answer, at the reported cost; no
  charge without a served call; every hold ends.
- *Daemon*: one sweeper at a time; sweeps go on after failures; diagnostic mode stops
  them promptly.
- *Chain*: linear, committed in id order; verification neither raises a false alarm
  nor accepts an altered row it reads; only verified rows are archived.
- *Guardrails*: the in-flight cap holds, every error path returns its slot, and what
  leaks all the same expires.
- *Admin audit*: an action recorded alone stays on the chain; no clear of diagnostic mode
  goes unrecorded.
- *Commit ledgers*: exposure is conserved across crystallize, commit, adjudicate and
  the horizon sweep; an operation ends once and its rows and events agree on how; high risk
  is never resolved by a guess; every passed horizon is resolved.
- *Sibling chains*: no false alarm, true anchors, exact checkpoints, whichever of the two
  verification procedures a governor has.
- *Platforms*: what is committed was approved under that decision; money is paid only on a
  crystal the spine has resolved, and once per idempotency key.
- *All governors*: a hold ends once, given back or charged (`GovernedHolds`).

## 2. Modules and the code they model

```
LedgerSums ── EscrowLedger ── GatewayDispatch            ReconcilerDaemon       LedgerChain ── SiblingChains
    │                               │                          │                                   │
LedgerSumsProofs ─────────── EscrowLedgerProofs        ReconcilerDaemonProofs               LedgerChainProofs

LedgerSums ── CrystalCommit ──┬── PlatformOperations     CircuitBreaker ── Guardrails      AdminAudit
    │             │           │           │                                    │               │
    │             │      PlatformGates    │                                    │               │
LedgerSumsProofs ─ CrystalCommitProofs  PlatformProofs                 GuardrailsProofs  AdminAuditProofs ── LedgerSumsProofs

LedgerSums ── GovernedHolds       INSTANCEd by EscrowLedger and CrystalCommit (ImplementsHolds)
```

Lines are EXTENDS. `MC<module>` instantiates a module for TLC.

In every module an **unused definition directly before another one is a faulty
variant of it** (a dropped guard, a forgotten case). `PROJECT.json` pairs each
with a property it breaks, which shows that the property says something about
the code.

### GovernedHolds

The abstract specification: a `balance` per owner and a `hold` per operation. `Place`
takes a hold, `Resolve` gives some holds back and pins others in one step (a pinned hold
is one whose money may have been spent; it is never given back by a guess), `Charge` replaces
what was held by a cost, also after a release. There are no tables, statuses, audit rows,
attempts, clocks or facets, and nothing can happen to a charged hold. `EscrowLedger` and
`CrystalCommit` INSTANCE it with `HoldOf` and `BalanceOf` of their rows; the property
`ImplementsHolds` of both says that each of their steps is one of these steps or a stutter. It is what makes the
races harmless: a settlement against the sweep, a duplicated settle, a late commit against an
adjudication.

### EscrowLedger

One action is one *committed* transaction. Postgres serialises the transactions
on the rows they lock (`SELECT ... FOR UPDATE`, conditional `UPDATE`s), and a
transaction that raises is rolled back, so a refused request is a stuttering
step. Two refusals commit an incident before they raise and are actions:
`ReserveNeedsApproval` (`enforce_manual_approval`) and `LoopBlocked`
(`enforce_loop_guardrail`).

| Variable | Table |
|---|---|
| `wallet` | `user_wallets` (balance, active) |
| `trace` | `trace_budget_state` (cap, reserved_total, settled_total) |
| `scope` | `budget_scope_state` (cap, consumed_total) |
| `op` | `escrow_ledger`, one row per idempotency key |
| `attempt` | `provider_dispatch_attempts`, one row per attempt key |
| `events`, `net` | `ledger_events`: rows per type, sum of `amount_delta` |
| `loops`, `incidents` | `execution_loop_state`, `guardrail_incidents` |
| `lapsed` | rows with `expires_at <= CURRENT_TIMESTAMP` |

| Action | Code |
|---|---|
| `Reserve` | `reserve_operation`: approval, scope deltas, trace claim, wallet debit, row, event |
| `RecordAttempt` | `settle_operation` → `_record_attempt_state` (IN_FLIGHT, PROVIDER_TIMEOUT) |
| `FinalizeSettlement` | `settle_operation` → `_finalize_settlement`, refund or correction debit, drift enforcement, late settlement |
| `TtlElapses` | the clock |
| `Sweep(S)` | `sweep_expired_operations`: a batch `S` of at most `BatchSize` lapsed rows (`SKIP LOCKED` may leave any out), each refunded or stranded, committed once |
| `AuditFindings` | the five queries of `finance_ops.py`, as the set of offending rows |

Money is an integer number of quanta (`quantize_money`). The drift test
compares `drift * denominator > numerator * reserved`, which is the code's
decimal comparison without a division. CHECKs and unique indexes are written out as
`SettleBackstops`, `SweepBackstops`, `AttemptIdFree`, `EscrowIdFree`, so that
`BackstopsNeverBlock` can say where they are never what stops a step: a sweep of any batch,
and a settlement at any cost, as far as it repeats the provider request ids its rows have. A
settlement that brings an id another row has is refused by the unique indexes of migrations 0003 and 0004, and one
whose correction debit the wallet cannot pay by `balance >= 0`: both are guards of `FinalizeSettlement`.

### GatewayDispatch

EXTENDS the ledger: a call is one execution of `execute_governed_dispatch` and
moves through `reserve`, `dispatch`, `settle` to `done` or `failed`. Each of its
remote calls may take effect and lose its answer; the call is then `failed`, which
also stands for a gateway that dies. Several calls may use one client-supplied
key. A provider (external) serves and bills, or does not; when it does not, the
call fails and nothing is settled. The cost reported at settlement is the billed one, capped
at the reservation (`SettleCost`), which is not what the docs say (finding 3). `TtlElapses` and `Sweep` of the ledger
interleave. `GatewaySpec` implements the ledger's `Spec` under the identity
mapping on the ledger's variables, which is proved.

### ReconcilerDaemon

Replicas walk through one turn of the loop: `Wake` (diagnostic check), `TryLock`
or `StandBy`, `SweepCommits`, `Audit`, `Unlock`. `Backends` are Postgres
sessions; `reach[r]` is the set of sessions a replica's connection may be served
by. With direct connections the sets are disjoint; behind PgBouncer in transaction
mode they are the same pool, and the lock, the sweep and the unlock may each land
on another session. Session advisory locks are re-entrant, hence the counter
`holds[b]`. `TurnFails` is an exception in the turn: the `finally` clause
then issues its unlock in an aborted transaction, which fails as well.
`BackendEnds`, `Crash`, `Restart` and `RedisFlips` are the environment;
`RowsGoBad` and `Repair` stand for what the audit looks at, `Clear` for the
operator's endpoint, which asks for nothing and reaches the Redis key only. Failed turns, ended sessions, crashes, Redis flips and bad rows
are counted by `MaxFaults`.

The three siblings run the same loop with differences that matter and are modelled, chosen by
`governor`: a sibling on standby sleeps *inside* the transaction in which it asked for the lock
(`StandByEnds`), and finance looks at diagnostic mode after its election and audits even then
(`LeaderChecks`), where the others look first and skip the turn.

### LedgerChain

Writers (sidecar and reconciler transactions) append events: `Begin`, any number
of appends, `Commit` or `Rollback`. An id is taken from the sequence and never
given back; the append takes the transaction-level advisory lock, reads the
last row it can see (committed rows and its own) and seals. A hash is the tuple
of what is hashed: equal only for equal inputs. `verify-chain` is a sequence of
statements under READ COMMITTED (count, head, checkpoint, base row, tail or full
scan, save), one action each, on the primary or on a replica that trails by any amount;
the checkpoint is always written to the primary. `anchor-head` shares the code path.
Retention deletes the rows that are cold and not above the checkpoint; a row's
recording time is the start of its transaction, so it is not in id order. `Alter`
(external) changes the payload of a committed row out of band.

An anchor is put into object storage and into its table in two steps, either of which may be lost.

### SiblingChains

EXTENDS `LedgerChain` and reuses its state, its append and its transactions. Finance verifies as the
ledger does. Insurance and cybersecurity share a verification of their own: it trusts a
checkpoint whose `sealed_count` does not add up, runs the full pass when the checkpoint's row
is gone, and answers from the checkpoint without saving one when nothing lies above it. Two
verifiers overlap, so that the head one has read is older than the checkpoint it loads.

### CircuitBreaker and Guardrails

`CircuitBreaker` keeps failure counts and open circuits in Redis and, while Redis cannot be
reached, in the process; `dependency_*` are the siblings' breaker on Redis itself. `Guardrails` is
the admission control in front of the ledgers, for one user with one trace: rate window, depth
set, in-flight counter. Every Redis command is a step of its own and may fail before or after
it took effect; the first failure moves the process to its local limiter. A worker is a request
thread in `/reserve`, `/settle` or `/crystallize`. The database transaction is one step. `incidents` records
what is known to upset the counters (a Redis failure, a crash, a slot kept by nobody, a
slot freed under its holder); each property names the incidents it excepts, so that it says exactly what
the code achieves without them.

### AdminAudit

The routes that clear diagnostic mode or anchor a head, and the log that proves they were used.
The ledger and finance record first and clear afterwards, insurance and cybersecurity clear first;
finance reads the last hash before it inserts, the others after. No lock is taken on the log, so
two operators may extend the same row: a row's hash is modelled by the set of rows it covers.
Besides a crash of the process, any database call of a record may fail (`SessionFails`): the row is rolled back and the
request ends, in insurance and cybersecurity with diagnostic mode cleared and nothing on record. Both are counted by `MaxFaults`.

### PlatformGates and PlatformOperations

`PlatformGates` is pure: what each of the 25 gates decides and the amount it puts up, as lists of early
returns, over inputs on both sides of each threshold. `PlatformOperations` composes it with `CrystalCommit`:
a call is one request to one handler, which evaluates, crystallizes at the spine, commits when the
decision is one of its platform's commit decisions (or strands, or answers), each over an HTTP
call that may be refused, lost, retried, or arrive after its sender gave up (`late`). `claim_gate` then pays: it
looks the key up, calls the bank (external, `paid`), and writes the row; it may die between any two, and the
store may fail at the read or at the write, which ends the request. `suspect` keeps the keys of payments that overlapped or were made and
not recorded. The commit decisions of insurance and cybersecurity are those of their manifests; the finance platforms have no such
list, and theirs are read off the handlers. `local` is what a
platform process remembers and forgets on restart, and what its store keeps.

### CrystalCommit

The Crystal Commit Protocol as the three siblings implement it: a platform *crystallizes*
an operation (facets, risk tier, policy, an optional hold), acts, and *commits*; a
crystal past its commit horizon is resolved by the horizon sweep. The code exists three
times. The parts that are the same are one operator (`CrystallizeUnder`,
`CommitUnenforced`, `SweepHorizons`), and each governor has its own action around it, so that
each copy of the code has a definition that stands for it. `governor` says whose database a behaviour
is about and never changes.

| Variable | Tables |
|---|---|
| `account` | `account_ledgers`, `reserve_ledgers`, `security_budget_ledgers` (balance, active) |
| `crystal` | `governance_crystals` joined with `commit_escrow_ledger`, `claim_escrow_ledger`, `security_escrow_ledger` |
| `events` | `decision_events`, `claim_events`, `security_events`: rows per operation and type |
| `past` | crystals with `horizon_expires_at <= CURRENT_TIMESTAMP` |

| Action | Code |
|---|---|
| `FinanceCrystallize`, `InsuranceCrystallize`, `CyberCrystallize` | `crystallize_operation`: policy limits, hold, crystal, escrow row, event; finance fills in the platform's default policy |
| `FinanceCommit`, `InsuranceCommit`, `CyberCommit` | `commit_operation`: fingerprint, horizon unless `late_authority`, mesh rules, refund of what was not committed; finance then runs `enforce_drift_on_commit` |
| `Adjudicate` | `adjudicate_operation` (finance; "strand" is its only action) |
| `FinanceSweep`, `InsuranceSweep`, `CyberSweep` | `sweep_expired_horizons` on any batch that `SKIP LOCKED` may produce |
| `HorizonPasses` | the clock |
| `FinanceAudit`, `ClaimAudit`, `SecurityAudit` | `crystal_ops.py`, `claim_ops.py`, `security_ops.py`, as the rows they report |

A tier "standard" is any tier that is not critical or high: `risk_tier` is a free string and
the code tests for nothing else. `MeshBlocked` looks at the newest open crystal of the
parent platform, as the code does.

## 3. Runs

| Run | Expect | What it shows |
|---|---|---|
| `escrow_safety` | pass | Two operations of one user over one trace and one scope, colliding attempt keys and provider ids, expiry and late settlement: totals, deltas, backstops, drift locks and the finance audit agree in every state, every step implements `GovernedHolds`, and every lapsed row is swept in the end. |
| `gateway` | pass | Three calls over two keys, any answer lost: answers are paid for, charges were served, every hold ends. |
| `daemon` | pass | Two replicas of each governor's reconciler on their own connections or on one pool, failed turns, crashes, ended sessions, Redis outages: one sweeper, at most one sweep per replica after diagnostic mode is published, and on direct connections sweeps never stop. |
| `chain` | pass | Two writers, a verifier that verifies on a lagging replica or anchors from the primary, retention, one altered row: linear, in id order, no false alarm, no altered row accepted, only verified rows archived, every checkpoint and anchor a true head. |
| `sibling_chains` | pass | Two overlapping verifications of each sibling's chain, a writer, retention, one altered row: no false alarm, anchors are true heads, a checkpoint counts exactly the rows it vouches for. |
| `crystal` | pass | Two operations under each governor, one mesh rule, a default policy of high risk, commitments below the hold and beyond the tolerances, late commits, adjudication, sweeps: exposure is conserved, every step implements `GovernedHolds`, undebited excess is tolerable or the account is locked, the audits report only standard crystals under high-risk policies, every horizon is resolved unless an audit fails. |
| `guardrails` | pass | Two request threads and two keys, every Redis command failing or not: the in-flight cap holds, slots are returned, leaks expire, outside the incidents each property names. |
| `admin_audit` | pass | Two operators, a reconciler that enters diagnostic mode, one crash or failed database call: an action recorded alone stays on the chain; the only clears without an audit row are those of insurance and cybersecurity that were cut short before their last step. |
| `platforms` | pass | Two requests to the platforms of one governor, pairwise where a mesh rule connects them, over a spine whose calls are refused, lost or late: commits were approved, or are held wires with an exposure of 0; payments follow the spine; a key is paid twice only by requests that overlap, or that crash or fail to write the row after paying. |
| `refund_after_dispatch` | violation | An operation whose provider call was served can be refunded by expiry. |
| `reserve_before_payout` | violation | A claim evaluated again under its id is paid although its crystal reserved nothing. |
| `provider_cost` | violation | A call whose provider billed more than the estimate is settled at the estimate. |

**Bounds.** They are all CONSTANTs of the cfg files.

- *Ledger.* `NumOps = 2`: every property relates one operation to shared rows, or two
  operations that collide on an attempt key, a provider id, a trace, a scope or a
  wallet; two are needed for every collision and nothing in the code relates three.
  Costs are chosen on both sides of the hold, of the drift thresholds and of the
  approval threshold; trace caps so that one reserve fits and two may not;
  `MaxUpdates = 1`: each of the two dispatch outcomes is reported once per operation, in either order, enough to strand a
  row, reopen it and strand it again. `BatchSize = 2` lets a batch hold both rows, and
  `SKIP LOCKED` lets it hold one. The proofs remove all of these bounds.
- *Gateway.* Three calls over two keys: two calls can share a key while a third
  contends for the wallet, trace and scope.
- *Daemon.* All four governors, chosen by the initial state. Two replicas (the deployment's number), three sessions so that a pool has one
  session to spare, `MaxFaults = 3` (a failed turn, a crash and an ended session can
  all happen in one behaviour), `MaxHolds` bounds the re-entrant counter.
- *Chain.* Three events in up to two transactions of two writers: a row below, at and above the
  checkpoint, a hole left by a rollback, and two transactions whose recording
  times and ids are in opposite order. One verifier is enough for two
  overlapping verifications: a verification on a lagging replica works on a past
  state and writes to the present, which also moves the checkpoint backwards.
- *Sibling chains.* Two events, two transactions of one writer, two verifiers without a replica: the
  ledger's chain explores writers and lag, this one explores overlapping verifications.
- *Guardrails.* Two request threads of one process, two keys, limits of 1 (depth 2) so that the second request is over
  each of them, one failed command or crash per behaviour. Finance has no such guardrails.
- *Admin audit.* Two operators and four rows: two overlapping records, with one row before and one after them.
- *Platforms.* Two calls and two operations: the same id evaluated twice, or parent and child of a
  mesh rule; one payment key; amounts in hundredths on both sides of every threshold of the gates; two attempts per HTTP call
  (the code makes three), so that a call is retried and given up.
  `RequestsLeft` stops changes to the freeze controllers once no request is left that could read them.
- *Crystal.* Two operations: a parent and a child of the mesh rule, or two crystals of one
  account and one sweep batch. Holds of 0 and 2 against a balance of 3, so that one fits and
  two do not, and 0 meets the special case of the drift test; commitments of 1 (a refund)
  and 4 (drift beyond both tolerances for either hold). The initial state chooses the
  governor, so one run covers all three.

`CHECK_DEADLOCK FALSE` is set where a finished bounded instance stops: all keys
settled or expired, all events appended, all crystals terminal. The daemon never stops and its runs check for deadlock.

## 4. Fairness

- `escrow_safety`, `gateway`: weak fairness of `SweepAll`, a sweep of every claimable row.
  The daemon's loop runs forever (`reconciler/app/main.py`), its batch is far
  larger than the instance's, and the row locks `SKIP LOCKED` avoids are held for
  one short transaction, so some later turn finds the rows unlocked. The
  gateway run also assumes that the clock passes a row's `expires_at`. No
  fairness is assumed of gateways, clients or providers: every call may
  stop anywhere.
- `daemon`: the steps of a running turn and the restart of a dead pod are weakly fair (the
  loop, Kubernetes: `Step(r)`, `Restart(r)`), where a turn that finds the lock taken stands by and goes
  round; faults are finitely many in one behaviour (`MaxFaults`). Nothing is assumed of
  the operator.
- `crystal`: weak fairness of a sweep of every claimable crystal, for the same reason as the
  ledger's, and only while the audit finds nothing (`SweepAll`): a failed audit enters diagnostic mode, in which the
  reconcilers skip every horizon sweep (`insurance-governor/spine/reconciler/app/main.py:62-65`, finance `:61-62`), and in this run a swept
  standard crystal under the high-risk default policy fails it. `HorizonsAreResolved` therefore promises a
  resolution or a failed audit. Clients, operators and the clock are not fair: `HorizonsAreResolved` starts
  from a horizon that has passed.
- The properties of the chains, the guardrails, the admin audit and the platforms are safety
  properties only. `LeaksExpire` is the safety half of "a leaked slot comes back": the counter has a time to live.

## 5. Proofs

All proofs are checked by TLAPS from the assumptions the modules state
(`ConstantsAssumption`, `NoneAssumption`, `GatewayAssumption`,
`DaemonAssumption`, `ChainAssumption`, `CrystalAssumption`, `GuardrailsAssumption`, `AdminAssumption`,
`PlatformAssumption`): constants have their types, the default caps are among the caps, `None` (SQL NULL) is
not a key, a lock holder, a verdict, a platform or a payment status, and threads, keys and operators, which are counted, are
finitely many. TLC evaluates each of them in a passing run.

Every safety property of every passing run is the subject of a theorem; what is left to TLC is liveness.

**LedgerSumsProofs.** `SumTo(f, n)` is a recursive function; its lemmas say that a sum
over `1..n` changes by the change of one summand, is monotone, is zero for zero
summands, and bounds each summand. Everything about totals rests on these.

**EscrowLedgerProofs** (18 theorems). The properties are not inductive on their own:
that a settlement finds enough in `reserved_total` needs the total to be a
sum over the held rows; that a refund is safe needs the event counts of the
row; that `HasOpenAttempts` looks at the right rows needs to know who owns
an attempt. The inductive invariant is the conjunction of

- `TypeOK`,
- `RowsConsistent`: what each status says about the dispatch flag and the audit rows of the operation,
- `AttemptsOwned`: an attempt row never belongs to an operation that was only reserved or has expired,
- `AuditTrailMatchesRow`, `FundsConserved`, `TraceTotalsExact`, `ScopeConsumptionExact`:
  the four sums.

`BackstopsNeverBlock` also needs `IdsDistinct` (no two escrow rows, and no two attempts, carry one provider request id) and
`WalletLockMatchesDrift` is inductive together with the types alone. Each action is shown to preserve each part; a `Sweep` of any batch is shown to
change each sum by the amounts of the rows refunded. `BackstopsNeverBlock`,
`RefundOnlyIfNeverDispatched` and `FinanceAuditClean` follow from the
invariant; `HoldKeptUntilSettled` and `SettledIsFinal` from it and the step. `LedgerImplementsHolds`
shows the refinement of `GovernedHolds`: a reserve is a `Place`, a dispatch
report pins, a settlement is a `Charge` (within balance plus hold, because balances stay natural numbers: `TypeOK'`), a sweep is a
`Resolve` whose refunds per wallet are the sum `Returned`; `RowsConsistent` and `AttemptsOwned` tell which holds may be given back.

The second part of the module is about the gateway (the ledger's theorems cite none of its
assumptions). `GatewayImplementsLedger`: every step of the composed
system is a step of the ledger or leaves its variables alone, so that all
theorems above hold of it. `AnswersArePaid` and `ChargedOnlyIfServed` need an invariant on the
calls: a call that is settling or done has been billed, and its row is at the cost it reported.

**ReconcilerDaemonProofs.** `LockDiscipline` and `OneSweeper`, for any replicas,
sessions and pools. The invariant adds that a replica's current session is one it
can reach and that a sweeping replica's session holds the lock, alone. `StaleSweepsAreBounded`
(`AtMostOneStaleSweep`) needs `SweptOnce`: a replica that has swept although diagnostic mode was there to be
seen is past the last place from which the loop sweeps without looking, which is the start of a turn, and in finance the
point where the leader looks.

**LedgerChainProofs** (10 theorems) covers `LedgerChain` and `SiblingChains`, for any number of
writers, verifiers, events, alterations and archivals. `CommitsInIdOrder` and `ChainIsLinear` rest on
`ChainOrder`: only the holder of the lock has pending rows, they are above every committed row, and no live
row lies between a live row and the one its `prev` names. Linearity alone is not
inductive: a new row is linear only because nothing that others have pending lies
between it and the row it reads.

What verification, retention and anchors promise (`ArchivedWereVerified`, `NoFalseAlarm`, `HeadsAreHistory`,
`AlteredRowsAreRejected`) rests on one larger invariant, `HistoryInv`:

- `TableInv`: the chain is in order, a row that nobody altered carries the hash of its content and links to
  a row of the table, and what is archived was accepted;
- `ReplicaInv`: the lagging replica is an earlier state of the table, and its checkpoint still stands;
- `OutsideInv`: the checkpoint, the anchors and the published heads name committed rows, with their true counts;
- `VerifierInv`: what each verification under way has in its hands (a head, a checkpoint, a base, a sum) was true of the
  table when it was read, and why it is still good enough: ids only grow, so later appends lie above it.

That the walk over the rows finds nothing wrong in an unaltered chain needs the least row at which it could; `LeastNat`
supplies it. In the siblings `SiblingInv` asks for exact counts in finance and for counts
that are never too small in the other two, whose verification may pair an old head with a newer checkpoint. That makes
`SiblingChainsKeepOrder`, `NoFalseAlarmsInSiblings`, `CheckpointsStayExact` and `AnchorsStayHistory`.

**CrystalCommitProofs** (8 theorems). All properties of the `crystal` run except its
liveness, for any number of operations, accounts, policies and mesh rules, any amounts and
tolerances, under each governor. Every action is first reduced to its effect on one row; the
invariant is `TypeOK`, `CrystalsConsistent` (which makes "no terminal state" mean
CRYSTALLIZED with nothing on record) and `OpenNotAdjudicated`. Conservation follows from
the sums of `LedgerSumsProofs`: one-row actions change one summand, a sweep changes the sum by
what it releases. That the audits stay silent follows from consistency and
`HighRiskNeverExpires`. `SpineImplementsHolds` is the refinement: an adjudicated strand is a release, the
sweep's strand a pin, a commit a charge of at most the hold.

**GuardrailsProofs** (3 theorems), for any number of processes, threads and keys and any limits. The cap is not
inductive: between INCR and DECR a counter stands for threads and for rows at once. `CapInv` says that the counter
covers every slot that is out (open or expired rows and the threads between taking and returning one), and that rows and
admitted threads together are within the cap; `SlotInv` is the converse, that the counter covers nothing else;
`RedisTrusted` that only a Redis failure makes a process use its own limiter. Each is conditional on the incidents its
property names, so every step is also shown to record its incident. The counting is cardinalities of sets of threads and keys
that a step changes by one element.

**AdminAuditProofs** (2 theorems), for any number of operators, rows, crashes and failed database calls, under each of the four governors. `QuietActionsStay` needs to know
that ids grow with time (`LogInv`), that a request chains its row to one no older than any it has seen (`RequestInv`), and
`CoverInv`, which states the property for rows that are quiet *among the committed ones* and for the row a
request is about to seal: a rollback can only make more rows quiet. `ClearsStayAudited` counts: every
clear made has its row, or a request that is recording it, or a fault that cut such a request short.

**PlatformProofs** (4 theorems), for any number of requests, operations, keys, retries and scenarios, whatever the gates
decide. `PlatformInv` has two halves.

- `GovernedInv`: where a request stands says what the spine knows of its operation. A request that is committing has a crystal
  of its platform and facets whose decision calls for a commit, or commits 0 for a held wire; one that pays for an approved claim has a crystal that
  is resolved; a message that was lost says the same for as long as it may arrive. It is inductive because crystals keep
  their platform and stay resolved (`CrystalsKeep`), which is shown of every spine step. `credit_govern` is the exception that the
  invariant spells out: it crystallizes facets without a score and commits facets with one, and the spine, which compares them, never accepts.
- `PaymentInv`: one request per key is between reading and writing the row, or the key is suspect; one that has not yet
  called the bank finds nothing paid under its key; and what was paid is on record, or about to be, or suspect.

`CommitsWereApproved`, `PaymentsAreResolved` and `KeysArePaidOnce` follow. Every handler is reduced to what it leaves
behind (`Handled`): a request to be crystallized whose commit flag agrees with its decision, or an answer.

`RowsConsistent`, `AttemptsOwned`, `HoldKeptUntilSettled`, `SettledIsFinal`, `LockDiscipline`,
`CrystalsConsistent`, `HighRiskNeverExpires` and `TerminalIsFinal` are proved and no longer in a run:
`ImplementsHolds` or the properties they support are checked in their place.

**Model-checked only.** Liveness (`LapsedRowsAreSwept`, `HoldsAreResolved`, `SweepsContinue`,
`HorizonsAreResolved`): fairness and ENABLED are out of the prover's reach. What the gates decide (`PlatformGates`) is evaluated by TLC
on the inputs of the platforms run; the theorems hold for any decisions.

## 6. Findings

Places where the code and the repository's own words disagree. Three have a violation run of the
same name, and `PROJECT.json` quotes the text.

1. `refund_after_dispatch`: `docs/architecture.md` has the operation become IN_FLIGHT
   at dispatch; the gateway never reports it, so expiry takes the refund branch.
2. `reserve_before_payout`: the insurance capability matrix (`docs/insurance-governor/capability-matrix.md:26`)
   promises a reserve before each payout. `crystallize_operation` answers a known operation id with the stored crystal whatever
   its facets (`commit_ledger.py:94`) and `commit_operation` answers REPLAY for any terminal crystal (`:259`): a claim first
   REFERRED, with nothing reserved, is paid when evaluated APPROVED after the sweep has stranded its crystal.
3. `provider_cost`: `docs/architecture.md:26`, `:53-55` settle at the authoritative provider cost, debit what exceeds the
   reserve and lock the wallet on material drift. The gateway settles `min(actual_cost, estimated_cost)`
   (`governance.py:75`), so none of this can follow from a gateway's call. The ledger does it for other
   clients: `WalletLockMatchesDrift` of `escrow_safety` says exactly when.

**Promises that fail, stated without a run.** Each is a definition of its module; put it into a copy of the
module's configuration with the constants named here and TLC shows the behaviour.

| Definition | Promise | Code | Configuration |
|---|---|---|---|
| `CrystalCommit!StrandedHoldsAreKept` | `docs/finance-governor/domain-model.md:214`, `:232`: a stranded hold is retained | `adjudicate_operation` (`commit_ledger.py:405`) refunds it under the same status | `Governors <- MCFinance`, `Spec` |
| `GatewayDispatch!DispatchHasAHold` | `docs/architecture.md:41`: dispatch only after a reservation | a replay of a settled or expired key is answered 200 and dispatched (`governance.py:65`) | 2 calls, `EstimatedCosts = {1, 2, 3}`, `GatewaySpec` |
| `ReconcilerDaemon!ClearResumesSweeps` | `docs/enterprise-hardening-roadmap.md:136`: the clear ends diagnostic mode | the flag of the process that entered it stays set (`diagnostic_mode.py:66`) | `Governors = {"ledger"}`, `Backends = {b1, b2}`, `Deployments <- MCDirectOnly`, `MaxHolds = 5` |
| `LedgerChain!TamperIsReported` | `docs/operations-runbook.md:127`: verification reports tampering | nothing at or below the checkpoint is read again (`ledger_seal.py:331`) | `MaxTx = 3`, no replica, no archive |
| `LedgerChain!ArchivalKeepsTheChainValid` | `retention_runner.py:1`: retention keeps the chain verifiable | it deletes the row the next verification starts from (`:215`) | `MaxTx = 3`, no replica |
| `Guardrails!StormBlocksReserve` | `docs/institutional-reliability.md:49`: reserve is blocked per provider | `/reserve` looks up the model's name (`ledger.py:85`), failures are counted under the provider's (`:314`, `:909-915`) | `Governors = {"ledger"}`, `Threshold = 2`, `MaxFaults = 2` |
| `PlatformOperations!HeldWiresAreStranded` | `programs/wire_match/README.md:41`, `docs/finance-governor/code-driven-fixes.md:119`: a held wire is STRANDED until compliance has adjudicated it | it is committed with an exposure of 0 in the same request (`wire_match/main.py:80-87`), which leaves nothing to adjudicate; `CommittedWasApproved` names the case (`HeldWire`) | `ReserveBeforePayout.cfg` with `Scenarios <- MCWires`, `Governors <- MCFinance` |

**Observed while modelling**, without a definition of their own.

- *Ledger.* The per-trace cap of `docs/build-plan.md` bounds what a trace holds at one time, not what it
  spends. The leader lock outlives its context when the unlock fails in an aborted transaction or reaches another
  session of the pool; `SweepsContinue` therefore holds on direct connections only.
- *Guardrails.* A DECR below zero is followed by SET 0, which overwrites what others took in between
  (`guardrails.py:118`). The siblings' circuit on Redis practically never opens: the degraded mode takes over at the first failure.
- *Commit ledgers.* A crystal the sweep has stranded can be neither committed late nor adjudicated: its hold is
  never released. The mesh looks at the newest open parent crystal, so an ACTIVE one masks a FROZEN one, and the block
  ends with the frozen crystal's horizon.
- *Platforms and the spine.* Most handlers answer the approving decision with `crystal_id` None when governance failed.
  Posture and identity use a fixed operation id, so a later DRIFT or VIOLATION is answered with the committed crystal. `content_guard` never
  crystallizes BLOCKED and `lineage_ingest` commits CRITICAL at once, so the mesh rules on them never fire. The facets of
  parametric, indemnity, underwriting and reserve leave the amount out. Approved wires reserve 0 and commit the full amount, so the
  drift rule locks the desk's account (`exposure_drift.py:18-27`; `docs/finance-governor/code-driven-fixes.md:119`). The
  facets `credit_govern` commits with are never those it crystallized with, so its crystals strand. `set_approved_version` does not unfreeze.
- *Platform stores.* The asset charge is applied before its crystal; `SqlAssetStore.apply_charge` (`platform_store.py:407`) can lose
  an update; `run_match` can match a transaction twice; sealing a claim again overwrites its commitment; lineage edge ids restart at 1 after a
  restart; the FNOL key is fixed per vendor and raw id, so that a BLOCKED record stays; the payment upsert can overwrite COMPLETED with BLOCKED.

## 7. Abstractions and what is not modelled

- Transactions of the ledger are atomic. What concurrent transactions do to each
  other through lock waits (deadlocks that Postgres resolves by aborting one) is a stutter there;
  see below. The loop guardrail's read is not
  locked, so in the code the count may exceed the limit by the number of racing reports;
  the model takes check and increment as one step.
- `execution_lineage` rows, metadata, tracing and metrics are left out: nothing reads them back to
  decide anything. `expire_operation` has no caller and is left out.
- Amounts are integers; expiry times are the set `lapsed`.
- PgBouncer in transaction mode does not run `server_reset_query`, so session locks survive
  in the pool; `ReconcilerDaemon` models exactly that.
- The chain leaves out rows older than the sealing migration. Retention's read of the checkpoint and its DELETE are one step.
- In `CrystalCommit` the mesh check and the commit are one step, `crystallized_at` is the order
  of the transactions, the sidecar's clock and the database's are one, and the accounts
  of all requests exist. The incident row of DRIFT_ENFORCED, the aggregate and exposure caps that no code updates, and the rail
  attempts, which nothing reads back, are left out.
  IN_FLIGHT and ACTION_TIMEOUT occur in the sweep's query only: no code sets them.
- Guardrails: one user and one trace, since limits of different users share nothing; windows pass as a
  whole.
- Platforms: texts, vendors and feature vectors are the class the rule puts them in; ids drawn at random are a nonce per
  call; a platform's store is one record.

**Not modelled**, and why.

- *Lock orders of whole transactions.* Reserve, settle and the sweep lock rows, wallets and the
  chain in different orders; Postgres aborts one of a cycle, which the ledger's model has as a stutter. A model of the cycles needs the
  transactions statement by statement beside the ledger's state. The race on the loop counter
  (`attribution.py:159`) belongs there.
- *`prev_crystal_hash`*: read without a lock, and read back by nothing.
- *The 503 that write routes answer in diagnostic mode*: it only removes behaviours of the ledgers.
- *Standalone mode* of the platforms (no spine) and `MemoryPaymentStore`: both keep their state in one process and meet no other component.
- *Administration of policies, registry and mesh rules*: changed out of band, constants here. The FNOL write-back, the oracle, desk and
  spatial feeds are I/O; their answers are inputs.
- *Authentication and OIDC, provider adapters, telemetry, metrics, tracing, regulatory export routes*: no state that decides anything.
- *Scripts, attestation and certification, deployment manifests*: not part of the running protocol; pool mode and replica counts enter as constants.

## 8. Plan

**Done**: all modules of section 2, every safety property of every passing run with a theorem, and `GovernedHolds` with both
refinements proved.

**Left**, in order of importance:

1. `PlatformSpec => Spec` of `CrystalCommit`: that everything the platforms make the spine do is a step of the spine's
   specification, so that its theorems hold under them as the ledger's hold under the gateway. It needs the amounts and
   facets of all handlers to be among the constants of the spine.
2. `LedgerLocks`: lock orders of reserve, settle and sweep with the chain lock; no circular wait, or the run that
   shows one.

## 9. How to run

```
tlc -workers 2 -config EscrowSafety.cfg MCEscrowLedger
tlapm EscrowLedgerProofs.tla
```

`PROJECT.json` lists every run with its module and configuration, the mutants, the
theorems, and the source lines behind each definition.
