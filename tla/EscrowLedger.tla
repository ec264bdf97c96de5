---------------------------- MODULE EscrowLedger ----------------------------
(***************************************************************************)
(* The Postgres escrow ledger of ModelGovernor: the sidecar's reserve and  *)
(* settle transactions (sidecar/app/ledger.py, sidecar/app/attribution.py) *)
(* and the reconciler's expiry sweep (reconciler/app/sweeper.py), over the *)
(* tables and constraints of migrations/.                                  *)
(*                                                                         *)
(* One action is one committed transaction.  A transaction that raises is  *)
(* rolled back, so a refused request is a stuttering step, except for the  *)
(* two refusals that commit a guardrail incident before they raise.        *)
(* Money is an integral number of the quanta that quantize_money keeps.    *)
(*                                                                         *)
(* A definition that directly precedes another and is not used is a faulty *)
(* variant of it (a dropped guard, a forgotten case): PROJECT.json pairs   *)
(* it with the property that it breaks.                                    *)
(***************************************************************************)
EXTENDS Integers, FiniteSets, LedgerSums

CONSTANTS
    NumOps,          \* idempotency keys are the numbers 1..NumOps
    Users,           \* wallet owners (user_wallets.user_id)
    Traces,          \* trace ids
    Scopes,          \* budget scope keys (run, session, user, tenant)
    ScopeChoices,    \* the sets of scopes one request's identity may name
    AttemptKeys,     \* dispatch_attempt_key values
    ProviderIds,     \* provider_request_id values
    LoopScopes,      \* run:step:signature keys of the loop guardrail
    InitialBalance,  \* the seeded wallet balances
    EstimatedCosts,  \* estimated_cost values of reserve requests
    ActualCosts,     \* actual_cost values of settle requests
    TraceCaps,       \* trace caps, the request's or the default
    ScopeCaps,       \* scope caps, the request's or the default
    ApprovalThreshold,  \* manual_approval_cost_threshold
    MaxLoopRepeats,  \* max_loop_repeats
    DriftAbsolute,   \* drift_absolute_tolerance
    DriftRatio,      \* drift_ratio_tolerance, <<numerator, denominator>>
    BatchSize,       \* the sweep's LIMIT
    MaxUpdates,      \* model bound: reports of each dispatch outcome per operation
    None             \* SQL NULL

Ops == 1..NumOps

ASSUME ConstantsAssumption ==
    /\ NumOps \in Nat
    /\ InitialBalance \in [Users -> Nat]
    /\ EstimatedCosts \subseteq Nat
    /\ ActualCosts \subseteq Nat
    /\ TraceCaps \subseteq Nat \ {0}
    /\ ScopeCaps \subseteq Nat \ {0}
    /\ ScopeChoices \subseteq SUBSET Scopes
    /\ ApprovalThreshold \in Nat
    /\ MaxLoopRepeats \in Nat
    /\ DriftAbsolute \in Nat
    /\ DriftRatio \in Nat \X (Nat \ {0})
    /\ BatchSize \in Nat \ {0}
    /\ MaxUpdates \in Nat

ASSUME NoneAssumption ==
    None \notin Ops \cup AttemptKeys \cup ProviderIds \cup LoopScopes

VARIABLES
    wallet,    \* user_wallets
    trace,     \* trace_budget_state
    scope,     \* budget_scope_state
    op,        \* escrow_ledger
    attempt,   \* provider_dispatch_attempts
    events,    \* ledger_events: number of rows per operation and event_type
    net,       \* ledger_events: SUM(amount_delta) per operation
    loops,     \* execution_loop_state.consecutive_count
    incidents, \* guardrail_incidents: the types on record; nothing reads them back
    lapsed     \* operations with expires_at <= CURRENT_TIMESTAMP

vars == <<wallet, trace, scope, op, attempt, events, net, loops, incidents, lapsed>>

-----------------------------------------------------------------------------
(***************************************************************************)
(* Rows                                                                    *)
(***************************************************************************)

Held == {"RESERVED", "IN_FLIGHT", "PROVIDER_TIMEOUT", "STRANDED"}
SweepableAllUnsettled == Held \cup {"EXPIRED"}
SweepableDispatchedOnly == {"IN_FLIGHT", "PROVIDER_TIMEOUT"}
Sweepable == {"RESERVED", "IN_FLIGHT", "PROVIDER_TIMEOUT"}
Dispatched == {"IN_FLIGHT", "PROVIDER_TIMEOUT"}
Terminal == {"SETTLED", "EXPIRED"}
Status == Held \cup {"NONE", "EXPIRED", "SETTLED"}

EventTypes ==
    {"RESERVE_CREATED", "DISPATCH_STARTED", "PROVIDER_TIMEOUT_RECORDED",
     "STRANDED_HOLD", "EXPIRED_SWEEP", "SETTLEMENT_REFUND",
     "SETTLEMENT_CORRECTION_DEBIT", "SETTLED_FINAL", "RECONCILED_LATE_SETTLE",
     "DRIFT_ENFORCED", "DRIFT_TOLERATED"}

(* A reserve request.  "flagged" is requires_manual_approval, "approved"   *)
(* says that it carries a manual_approval_id.                              *)
ReserveRequest ==
    [user: Users, trace: Traces, amt: EstimatedCosts, cap: TraceCaps,
     scopes: ScopeChoices, caps: [Scopes -> ScopeCaps],
     flagged: BOOLEAN, approved: BOOLEAN]

(* The escrow row; "dispatched" is dispatch_started_at IS NOT NULL.        *)
Operation ==
    [status: Status, user: Users \cup {None}, trace: Traces \cup {None},
     amt: Nat, cap: Nat, scopes: SUBSET Scopes, actual: Nat,
     prid: ProviderIds \cup {None}, dispatched: BOOLEAN]

NoOperation ==
    [status |-> "NONE", user |-> None, trace |-> None, amt |-> 0, cap |-> 0,
     scopes |-> {}, actual |-> 0, prid |-> None, dispatched |-> FALSE]

Attempt ==
    [op: Ops \cup {None},
     status: Dispatched \cup {"SETTLED", "NONE"},
     prid: ProviderIds \cup {None}]

NoAttempt == [op |-> None, status |-> "NONE", prid |-> None]

(* A cap of 0 stands for the row that has not been inserted yet.           *)
NoTrace == [cap |-> 0, reserved |-> 0, settled |-> 0]
NoScope == [cap |-> 0, consumed |-> 0]

Coalesce(a, b) == IF a # None THEN a ELSE b

Init ==
    /\ wallet = [u \in Users |-> [balance |-> InitialBalance[u], active |-> TRUE]]
    /\ trace = [t \in Traces |-> NoTrace]
    /\ scope = [s \in Scopes |-> NoScope]
    /\ op = [o \in Ops |-> NoOperation]
    /\ attempt = [k \in AttemptKeys |-> NoAttempt]
    /\ events = [o \in Ops |-> [e \in EventTypes |-> 0]]
    /\ net = [o \in Ops |-> 0]
    /\ loops = [s \in LoopScopes |-> 0]
    /\ incidents = {}
    /\ lapsed = {}

(* _append_event for the operation o: the rows named by es, whose          *)
(* amount_delta values add up to delta.                                    *)
AppendEvents(o, es, delta) ==
    /\ events' = [events EXCEPT ![o] = [e \in EventTypes |-> @[e] + IF e \in es THEN 1 ELSE 0]]
    /\ net' = [net EXCEPT ![o] = @ + delta]

-----------------------------------------------------------------------------
(***************************************************************************)
(* Reserve                                                                 *)
(***************************************************************************)

NeedsApproval(r) ==
    /\ r.flagged \/ r.amt > ApprovalThreshold
    /\ ~r.approved

(* The cap a scope row has once ON CONFLICT DO NOTHING has been applied.   *)
ScopeCap(s, caps) == IF scope[s].cap = 0 THEN caps[s] ELSE scope[s].cap

(* apply_budget_delta for every scope in ss: the conditional update that   *)
(* must hit a row in each of them, and the rows it leaves.                 *)
BudgetDeltaFits(ss, caps, delta) ==
    \A s \in ss : scope[s].consumed + delta <= ScopeCap(s, caps)

ApplyBudgetDelta(ss, caps, delta) ==
    scope' = [s \in Scopes |->
                IF s \in ss
                THEN [cap |-> ScopeCap(s, caps), consumed |-> scope[s].consumed + delta]
                ELSE scope[s]]

(* The trace row's cap must be the request's, and the conditional update   *)
(* must find room below it.                                                *)
TraceClaimUnchecked(t, cap, amt) == trace[t].cap \in {0, cap}
TraceClaimFits(t, cap, amt) ==
    /\ trace[t].cap \in {0, cap}
    /\ trace[t].reserved + amt <= cap

WalletDebitUnchecked(u, amt) == wallet[u].active
WalletDebitFits(u, amt) ==
    /\ wallet[u].active
    /\ wallet[u].balance >= amt

Reserve(o, r) ==
    /\ op[o].status = "NONE"
    /\ ~NeedsApproval(r)
    /\ BudgetDeltaFits(r.scopes, r.caps, r.amt)
    /\ TraceClaimFits(r.trace, r.cap, r.amt)
    /\ WalletDebitFits(r.user, r.amt)
    /\ ApplyBudgetDelta(r.scopes, r.caps, r.amt)
    /\ trace' = [trace EXCEPT ![r.trace] =
                   [cap |-> r.cap, reserved |-> @.reserved + r.amt, settled |-> @.settled]]
    /\ wallet' = [wallet EXCEPT ![r.user] =
                    [balance |-> @.balance - r.amt, active |-> @.active]]
    /\ op' = [op EXCEPT ![o] =
                [status |-> "RESERVED", user |-> r.user, trace |-> r.trace,
                 amt |-> r.amt, cap |-> r.cap, scopes |-> r.scopes, actual |-> 0,
                 prid |-> None, dispatched |-> FALSE]]
    /\ AppendEvents(o, {"RESERVE_CREATED"}, -r.amt)
    /\ UNCHANGED <<attempt, loops, incidents, lapsed>>

(* enforce_manual_approval commits the incident and then refuses.          *)
ReserveNeedsApproval(o, r) ==
    /\ op[o].status = "NONE"
    /\ NeedsApproval(r)
    /\ incidents' = incidents \cup {"APPROVAL_REQUIRED"}
    /\ UNCHANGED <<wallet, trace, scope, op, attempt, events, net, loops, lapsed>>

-----------------------------------------------------------------------------
(***************************************************************************)
(* Settle                                                                  *)
(***************************************************************************)

(* _load_operation_for_update: by idempotency key when the request has     *)
(* one, else through the attempt that carries the provider request id.     *)
LoadOperation(key, p) ==
    {o \in Ops :
        /\ op[o].status # "NONE"
        /\ IF key # None THEN o = key
           ELSE p # None /\ \E k \in AttemptKeys : attempt[k].prid = p /\ attempt[k].op = o}

(* The unique indexes on provider_request_id of the two tables.            *)
AttemptIdFree(k, p) == p # None => \A j \in AttemptKeys \ {k} : attempt[j].prid # p
EscrowIdFree(o, p) == p # None => \A q \in Ops \ {o} : op[q].prid # p

(* INSERT ... ON CONFLICT (attempt_key): an existing row keeps the         *)
(* operation it was inserted for.                                          *)
UpsertAttempt(k, o, outcome, p) ==
    attempt' = [attempt EXCEPT ![k] =
                  [op |-> Coalesce(@.op, o), status |-> outcome, prid |-> Coalesce(p, @.prid)]]

(* The dispatch activity on record for an operation.                       *)
Updates(o) == events[o]["DISPATCH_STARTED"] + events[o]["PROVIDER_TIMEOUT_RECORDED"]

LoopAllows(sig) == sig # None => loops[sig] < MaxLoopRepeats

DispatchEvent(outcome) ==
    IF outcome = "IN_FLIGHT" THEN "DISPATCH_STARTED" ELSE "PROVIDER_TIMEOUT_RECORDED"

(* _record_attempt_state: the operation o reports a dispatch (IN_FLIGHT)   *)
(* or a timeout under the attempt key k.                                   *)
RecordAttempt(o, outcome, k, p, sig) ==
    /\ op[o].status \notin Terminal
    /\ events[o][DispatchEvent(outcome)] < MaxUpdates
    /\ LoopAllows(sig)
    /\ AttemptIdFree(k, p)
    /\ EscrowIdFree(o, p)
    /\ loops' = IF sig = None THEN loops ELSE [loops EXCEPT ![sig] = @ + 1]
    /\ UpsertAttempt(k, o, outcome, p)
    /\ op' = [op EXCEPT ![o].status = outcome,
                        ![o].dispatched = TRUE,
                        ![o].prid = Coalesce(p, @)]
    /\ AppendEvents(o, {DispatchEvent(outcome)}, 0)
    /\ UNCHANGED <<wallet, trace, scope, incidents, lapsed>>

(* enforce_loop_guardrail commits the incident and then refuses.           *)
LoopBlocked(o, sig) ==
    /\ op[o].status \notin Terminal
    /\ ~LoopAllows(sig)
    /\ incidents' = incidents \cup {"AGENT_LOOP_DETECTED"}
    /\ UNCHANGED <<wallet, trace, scope, op, attempt, events, net, loops, lapsed>>

DriftReachesTolerance(drift, reserved) ==
    /\ drift >= DriftAbsolute
    /\ reserved > 0 => drift * DriftRatio[2] >= DriftRatio[1] * reserved
DriftExceedsTolerance(drift, reserved) ==
    /\ drift > DriftAbsolute
    /\ reserved > 0 => drift * DriftRatio[2] > DriftRatio[1] * reserved

(* Whether the escrow row still holds its reservation, and what settling   *)
(* at cost moves: in the wallet (refund or correction debit) and in the    *)
(* budget scopes.                                                          *)
StillHeldUnlessLate(o) == op[o].status \notin {"EXPIRED", "STRANDED"}
StillHeld(o) == op[o].status # "EXPIRED"
WalletDeltaAsIfHeld(o, cost) == op[o].amt - cost
WalletDelta(o, cost) == IF StillHeld(o) THEN op[o].amt - cost ELSE -cost
BudgetDeltaAsIfHeld(o, cost) == cost - op[o].amt
BudgetDelta(o, cost) == IF StillHeld(o) THEN cost - op[o].amt ELSE cost

TerminalReason(o) ==
    IF op[o].status \in {"EXPIRED", "STRANDED"} THEN "RECONCILED_LATE_SETTLE" ELSE "SETTLED_FINAL"

SettleEvents(o, cost) ==
    LET delta == WalletDelta(o, cost)
        drift == cost - op[o].amt
    IN  {TerminalReason(o)}
          \cup (IF delta > 0 THEN {"SETTLEMENT_REFUND"} ELSE {})
          \cup (IF delta < 0 THEN {"SETTLEMENT_CORRECTION_DEBIT"} ELSE {})
          \cup (IF drift > 0
                THEN {IF DriftExceedsTolerance(drift, op[o].amt)
                      THEN "DRIFT_ENFORCED" ELSE "DRIFT_TOLERATED"}
                ELSE {})

(* The database backstops a settlement has to pass.                        *)
SettleBackstops(o, cost) ==
    /\ StillHeld(o) => trace[op[o].trace].reserved >= op[o].amt
    /\ events[o]["SETTLED_FINAL"] + events[o]["RECONCILED_LATE_SETTLE"] = 0
    /\ \A s \in op[o].scopes : scope[s].consumed + BudgetDelta(o, cost) >= 0

(* _finalize_settlement of an operation that is not SETTLED yet; k is None *)
(* when the request has no dispatch_attempt_key.  (A replay of a SETTLED   *)
(* operation either repeats the recorded answer or is refused: no change.) *)
FinalizeSettlement(o, cost, k, p) ==
    /\ op[o].status # "SETTLED"
    /\ k # None => AttemptIdFree(k, p)
    /\ EscrowIdFree(o, p)
    /\ SettleBackstops(o, cost)
    /\ wallet[op[o].user].balance + WalletDelta(o, cost) >= 0
    /\ BudgetDelta(o, cost) # 0 =>
           BudgetDeltaFits(op[o].scopes, [s \in Scopes |-> scope[s].cap], BudgetDelta(o, cost))
    /\ IF k = None THEN UNCHANGED attempt ELSE UpsertAttempt(k, o, "SETTLED", p)
    /\ wallet' = [wallet EXCEPT ![op[o].user] =
                    [balance |-> @.balance + WalletDelta(o, cost),
                     active |-> @.active /\ ~DriftExceedsTolerance(cost - op[o].amt, op[o].amt)]]
    /\ trace' = [trace EXCEPT ![op[o].trace] =
                   [cap |-> @.cap,
                    reserved |-> @.reserved - (IF StillHeld(o) THEN op[o].amt ELSE 0),
                    settled |-> @.settled + cost]]
    /\ ApplyBudgetDelta(op[o].scopes, [s \in Scopes |-> scope[s].cap], BudgetDelta(o, cost))
    /\ op' = [op EXCEPT ![o].status = "SETTLED",
                        ![o].actual = cost,
                        ![o].prid = Coalesce(p, @)]
    /\ AppendEvents(o, SettleEvents(o, cost), WalletDelta(o, cost))
    /\ UNCHANGED <<loops, incidents, lapsed>>

-----------------------------------------------------------------------------
(***************************************************************************)
(* Expiry sweep                                                            *)
(***************************************************************************)

(* The clock passes expires_at.                                            *)
TtlElapses(o) ==
    /\ op[o].status # "NONE"
    /\ o \notin lapsed
    /\ lapsed' = lapsed \cup {o}
    /\ UNCHANGED <<wallet, trace, scope, op, attempt, events, net, loops, incidents>>

HasOpenAttempts(o) ==
    \E k \in AttemptKeys : attempt[k].op = o /\ attempt[k].status \in Dispatched

StrandsOnOpenAttempt(o) == HasOpenAttempts(o)
Strands(o) == op[o].status \in Dispatched \/ HasOpenAttempts(o)

Claimable == {o \in lapsed : op[o].status \in Sweepable}

(* What expiring the rows of S gives back to a wallet and to a trace.      *)
UserRefunds(S, u) ==
    [o \in Ops |-> IF o \in S /\ ~Strands(o) /\ op[o].user = u THEN op[o].amt ELSE 0]
TraceReleasesStranded(S, t) ==
    [o \in Ops |-> IF o \in S /\ op[o].trace = t THEN op[o].amt ELSE 0]
TraceReleases(S, t) ==
    [o \in Ops |-> IF o \in S /\ ~Strands(o) /\ op[o].trace = t THEN op[o].amt ELSE 0]
RefundsTo(S, u) == SumTo(UserRefunds(S, u), NumOps)
ReleasedOn(S, t) == SumTo(TraceReleases(S, t), NumOps)

(* The database backstops a sweep of S has to pass, all rows or none.      *)
SweepBackstops(S) ==
    /\ \A o \in S : Strands(o) => op[o].dispatched
    /\ \A o \in S : ~Strands(o) => events[o]["EXPIRED_SWEEP"] = 0
    /\ \A t \in Traces : trace[t].reserved >= ReleasedOn(S, t)

(* sweep_expired_reservations: S is the batch that FOR UPDATE SKIP LOCKED  *)
(* claimed, swept and committed as one transaction.                        *)
Sweep(S) ==
    /\ S # {} /\ S \subseteq Claimable /\ Cardinality(S) <= BatchSize
    /\ SweepBackstops(S)
    /\ wallet' = [u \in Users |->
                    [balance |-> wallet[u].balance + RefundsTo(S, u), active |-> wallet[u].active]]
    /\ trace' = [t \in Traces |->
                   [cap |-> trace[t].cap, reserved |-> trace[t].reserved - ReleasedOn(S, t),
                    settled |-> trace[t].settled]]
    /\ op' = [o \in Ops |->
                IF o \in S
                THEN [op[o] EXCEPT !.status = IF Strands(o) THEN "STRANDED" ELSE "EXPIRED"]
                ELSE op[o]]
    /\ events' = [o \in Ops |->
                    IF o \in S
                    THEN [events[o] EXCEPT ![IF Strands(o) THEN "STRANDED_HOLD" ELSE "EXPIRED_SWEEP"] = @ + 1]
                    ELSE events[o]]
    /\ net' = [o \in Ops |-> net[o] + IF o \in S /\ ~Strands(o) THEN op[o].amt ELSE 0]
    /\ UNCHANGED <<scope, attempt, loops, incidents, lapsed>>

-----------------------------------------------------------------------------
(***************************************************************************)
(* The audit after every sweep                                             *)
(***************************************************************************)

(* assert_finance_ops_invariants: the rows each probe reports.  The        *)
(* reconciler runs it after every sweep; one row is enough to put the      *)
(* whole cluster in diagnostic mode.                                       *)
AuditFindings ==
    [negative_wallets |-> {u \in Users : wallet[u].balance < 0},
     trace_cap_overruns |-> {t \in Traces : trace[t].reserved > trace[t].cap},
     duplicate_refunds |-> {o \in Ops : events[o]["EXPIRED_SWEEP"] > 1},
     duplicate_settlements |->
        {o \in Ops : events[o]["SETTLED_FINAL"] + events[o]["RECONCILED_LATE_SETTLE"] > 1},
     stranded_without_hold_event |->
        {o \in Ops : op[o].status = "STRANDED" /\ events[o]["STRANDED_HOLD"] = 0}]

-----------------------------------------------------------------------------
ReserveStep == \E o \in Ops, r \in ReserveRequest : Reserve(o, r)

ApprovalStep == \E o \in Ops, r \in ReserveRequest : ReserveNeedsApproval(o, r)

AttemptStep ==
    \E key \in Ops \cup {None}, p \in ProviderIds \cup {None} :
    \E o \in LoadOperation(key, p), outcome \in Dispatched, k \in AttemptKeys,
       sig \in LoopScopes \cup {None} :
        RecordAttempt(o, outcome, k, p, sig)

LoopStep ==
    \E key \in Ops \cup {None}, p \in ProviderIds \cup {None} :
    \E o \in LoadOperation(key, p), sig \in LoopScopes : LoopBlocked(o, sig)

SettleStep ==
    \E key \in Ops \cup {None}, p \in ProviderIds \cup {None} :
    \E o \in LoadOperation(key, p), cost \in ActualCosts, k \in AttemptKeys \cup {None} :
        FinalizeSettlement(o, cost, k, p)

TtlStep == \E o \in Ops : TtlElapses(o)

SweepStep == \E S \in SUBSET Ops : Sweep(S)

Next ==
    \/ ReserveStep
    \/ ApprovalStep
    \/ AttemptStep
    \/ LoopStep
    \/ SettleStep
    \/ TtlStep
    \/ SweepStep

Spec == Init /\ [][Next]_vars

(* The daemon loop of the reconciler keeps sweeping, and row locks are     *)
(* short: a sweep that finds no row locked claims every claimable row, as  *)
(* long as they fit in one batch.                                          *)
SweepAll == Sweep(Claimable)

FairSpec == Spec /\ WF_vars(SweepAll)

-----------------------------------------------------------------------------
(***************************************************************************)
(* Properties                                                              *)
(***************************************************************************)

TypeOK ==
    /\ wallet \in [Users -> [balance: Nat, active: BOOLEAN]]
    /\ trace \in [Traces -> [cap: Nat, reserved: Nat, settled: Nat]]
    /\ scope \in [Scopes -> [cap: Nat, consumed: Nat]]
    /\ op \in [Ops -> Operation]
    /\ \A o \in Ops : op[o].status # "NONE" => op[o].user \in Users /\ op[o].trace \in Traces
    /\ attempt \in [AttemptKeys -> Attempt]
    /\ events \in [Ops -> [EventTypes -> Nat]]
    /\ net \in [Ops -> Int]
    /\ loops \in [LoopScopes -> Nat]
    /\ incidents \subseteq {"APPROVAL_REQUIRED", "AGENT_LOOP_DETECTED"}
    /\ lapsed \subseteq Ops

(* The amount an operation holds, and the amount it has finally cost.      *)
HeldAmount(o) == IF op[o].status \in Held THEN op[o].amt ELSE 0
SpentAmount(o) == IF op[o].status = "SETTLED" THEN op[o].actual ELSE 0

(* The same as columns, for the sums over a wallet, a trace or a scope.    *)
UserCharges(u) ==
    [o \in Ops |-> IF op[o].user = u THEN HeldAmount(o) + SpentAmount(o) ELSE 0]
TraceHolds(t) == [o \in Ops |-> IF op[o].trace = t THEN HeldAmount(o) ELSE 0]
TraceCosts(t) == [o \in Ops |-> IF op[o].trace = t THEN SpentAmount(o) ELSE 0]

(* The audit trail explains the row: whatever reserve, dispatch, strand,   *)
(* expire and settle steps led there, the amount_delta values on record    *)
(* for an operation add up to minus what it holds or has cost.  A refund   *)
(* applied twice, or a late settlement that forgets the hold is gone,      *)
(* breaks it.                                                              *)
AuditTrailMatchesRow ==
    \A o \in Ops : net[o] = -(HeldAmount(o) + SpentAmount(o))

(* The strengthening the proofs rest on: what each status says about the   *)
(* audit rows of the operation ...                                         *)
RowConsistent(o) ==
    /\ op[o].status = "NONE" =>
          op[o] = NoOperation /\ events[o] = [e \in EventTypes |-> 0]
    /\ op[o].dispatched <=> Updates(o) > 0
    /\ op[o].status \in Dispatched \cup {"STRANDED"} => op[o].dispatched
    /\ op[o].status \in {"RESERVED", "EXPIRED"} => ~op[o].dispatched
    /\ op[o].status = "STRANDED" => events[o]["STRANDED_HOLD"] > 0
    /\ op[o].status = "EXPIRED" => events[o]["EXPIRED_SWEEP"] = 1
    /\ op[o].status \in Held => events[o]["EXPIRED_SWEEP"] = 0
    /\ events[o]["EXPIRED_SWEEP"] > 0 => events[o]["EXPIRED_SWEEP"] = 1 /\ ~op[o].dispatched
    /\ events[o]["SETTLED_FINAL"] + events[o]["RECONCILED_LATE_SETTLE"]
         = IF op[o].status = "SETTLED" THEN 1 ELSE 0

RowsConsistent == \A o \in Ops : RowConsistent(o)

(* ... and that an attempt row never belongs to an operation that has only *)
(* been reserved, or has expired: HasOpenAttempts can never be what        *)
(* strands a RESERVED row.                                                 *)
AttemptsOwned ==
    \A k \in AttemptKeys : attempt[k].op # None =>
        op[attempt[k].op].status \in Dispatched \cup {"STRANDED", "SETTLED"}

(* No money is made or lost: a wallet's balance, the reservations held     *)
(* against it and the settled cost of its operations add up to what it     *)
(* was funded with.                                                        *)
FundsConserved ==
    \A u \in Users : wallet[u].balance + SumTo(UserCharges(u), NumOps) = InitialBalance[u]

(* trace_budget_state is exactly the sum of the escrow rows of the trace,  *)
(* so that no interleaving of settle and sweep releases a claim twice or   *)
(* leaks one, and its reserved_total stays within the cap.                 *)
TraceTotalsExact ==
    \A t \in Traces :
        /\ trace[t].reserved = SumTo(TraceHolds(t), NumOps)
        /\ trace[t].settled = SumTo(TraceCosts(t), NumOps)
        /\ trace[t].reserved <= trace[t].cap

(* What an operation consumes of each of its budget scopes.  Neither the   *)
(* sweep nor expire_operation gives a reservation back to the scopes, and  *)
(* a late settlement adds its cost on top.                                 *)
ScopeCharge(o) ==
    SpentAmount(o)
      + IF op[o].status \in Held \/ events[o]["EXPIRED_SWEEP"] > 0 THEN op[o].amt ELSE 0

ScopeCharges(s) == [o \in Ops |-> IF s \in op[o].scopes THEN ScopeCharge(o) ELSE 0]

(* budget_scope_state is the sum of what its operations consumed, never    *)
(* more than the cap the scope was created with.                           *)
ScopeConsumptionExact ==
    \A s \in Scopes :
        /\ scope[s].consumed = SumTo(ScopeCharges(s), NumOps)
        /\ scope[s].consumed <= scope[s].cap

(* No claimed batch can trip a constraint of migrations 0003 to 0007,      *)
(* which would roll the whole batch back and stall every refund in it.  A  *)
(* settlement, at whatever cost, never trips the CHECKs on trace and scope *)
(* totals nor the index of terminal settle events, and while it repeats    *)
(* the ids on record for its operation it never trips the unique           *)
(* provider_request_id indexes of 0003 and 0004.  Two constraints do       *)
(* refuse settlements and are left out: those indexes when the request     *)
(* brings an id that another row has, and the wallet's balance >= 0 when   *)
(* a correction debit is larger than the balance.                          *)
BackstopsNeverBlock ==
    /\ \A S \in SUBSET Claimable : SweepBackstops(S)
    /\ \A o \in Ops : op[o].status \notin {"NONE", "SETTLED"} =>
           /\ \A cost \in ActualCosts : SettleBackstops(o, cost)
           /\ EscrowIdFree(o, op[o].prid)
           /\ \A k \in AttemptKeys :
                  attempt[k].prid = op[o].prid => AttemptIdFree(k, op[o].prid)

(* An operation settled for more than it reserved, beyond both tolerances. *)
MaterialDrift(o) ==
    LET drift == op[o].actual - op[o].amt
    IN  /\ op[o].status = "SETTLED"
        /\ drift > DriftAbsolute
        /\ drift * DriftRatio[2] > DriftRatio[1] * op[o].amt

(* A wallet is locked exactly if one of its operations was settled with    *)
(* material positive drift, in time or late: drift on the tolerance itself *)
(* never locks one, and no later reserve, settlement or sweep reopens one. *)
WalletLockMatchesDrift ==
    \A u \in Users :
        wallet[u].active <=> \A o \in Ops : op[o].user = u => ~MaterialDrift(o)

(* A reservation is only ever refunded by expiry if no dispatch activity   *)
(* has been recorded for it, and a stranded one has some.                  *)
RefundOnlyIfNeverDispatched ==
    \A o \in Ops :
        /\ events[o]["EXPIRED_SWEEP"] > 0 => Updates(o) = 0 /\ events[o]["EXPIRED_SWEEP"] = 1
        /\ op[o].status = "STRANDED" => Updates(o) > 0

(* The audit never reports a row, so the ledger itself can never be what   *)
(* halts the sweeps and the writes (diagnostic mode).                      *)
FinanceAuditClean ==
    /\ AuditFindings.negative_wallets = {}
    /\ AuditFindings.trace_cap_overruns = {}
    /\ AuditFindings.duplicate_refunds = {}
    /\ AuditFindings.duplicate_settlements = {}
    /\ AuditFindings.stranded_without_hold_event = {}

(* Once dispatch activity is on record the hold is kept: no step but the   *)
(* settlement itself moves money for the operation.                        *)
HoldKeptUntilSettled ==
    [][\A o \in Ops : op[o].dispatched /\ net'[o] # net[o] => op'[o].status = "SETTLED"]_vars

(* A settled operation is final: its row, its audit rows and its money     *)
(* never change again, whatever replay, late dispatch report or sweep      *)
(* arrives.                                                                *)
SettledIsFinal ==
    [][\A o \in Ops : op[o].status = "SETTLED" =>
           op'[o] = op[o] /\ events'[o] = events[o] /\ net'[o] = net[o]]_vars

(* The ledger as GovernedHolds sees it: a row that was never dispatched    *)
(* holds, one with dispatch activity on record is pinned, stranded or not. *)
HoldState(status) ==
    CASE status = "NONE" -> "free"
      [] status = "RESERVED" -> "held"
      [] status \in Dispatched \cup {"STRANDED"} -> "pinned"
      [] status = "EXPIRED" -> "released"
      [] status = "SETTLED" -> "charged"

HoldRow(o) ==
    [state |-> HoldState(op[o].status), owner |-> op[o].user, amount |-> HeldAmount(o) + SpentAmount(o)]

HoldOf == [o \in Ops |-> HoldRow(o)]

BalanceOf == [u \in Users |-> wallet[u].balance]

Book == INSTANCE GovernedHolds
          WITH balance <- BalanceOf, hold <- HoldOf, Owners <- Users, Funds <- InitialBalance

(* Reserve, dispatch report, settle and sweep, in any interleaving, with   *)
(* late settlements and attempt rows that outlive their report, move money *)
(* only as a book of holds does: a hold is taken within the balance, is    *)
(* given back at most once and never after a dispatch, and is charged at   *)
(* most once, in full when it had been given back.                         *)
ImplementsHolds == Book!Spec

(* Every row whose TTL has passed is swept in the end.                     *)
LapsedRowsAreSwept ==
    \A o \in Ops : o \in Claimable ~> o \notin Claimable
=============================================================================
