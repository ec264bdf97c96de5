------------------------- MODULE EscrowLedgerProofs -------------------------
(***************************************************************************)
(* Theorems about EscrowLedger, for any number of operations, users,       *)
(* traces, budget scopes and attempts, any amounts and any caps; and about *)
(* the gateway that uses it (GatewayDispatch).                             *)
(*                                                                         *)
(* Each transaction gets a lemma that says what it does to the escrow row, *)
(* to the audit rows and to the totals; the theorems argue from those.     *)
(***************************************************************************)
EXTENDS GatewayDispatch, LedgerSumsProofs

-----------------------------------------------------------------------------
(***************************************************************************)
(* What each transaction does                                              *)
(***************************************************************************)

(* The columns settle and sweep never touch.                               *)
SameTerms(x, y) ==
    /\ x.user = y.user /\ x.trace = y.trace
    /\ x.amt = y.amt /\ x.cap = y.cap /\ x.scopes = y.scopes

(* The operation a settle request loads exists.                            *)
LEMMA LoadedExists ==
    ASSUME NEW key, NEW p, NEW o \in LoadOperation(key, p)
    PROVE  o \in Ops /\ op[o].status # "NONE"
  BY DEF LoadOperation

(* The columns of an existing row.                                         *)
LEMMA RowTypes ==
    ASSUME TypeOK, NEW o \in Ops
    PROVE  /\ op[o] \in Operation
           /\ op[o].amt \in Nat /\ op[o].actual \in Nat /\ op[o].scopes \subseteq Scopes
           /\ op[o].status \in Status /\ op[o].dispatched \in BOOLEAN
           /\ op[o].status # "NONE" => op[o].user \in Users /\ op[o].trace \in Traces
           /\ events[o] \in [EventTypes -> Nat]
           /\ net[o] \in Int
<1>1. op[o] \in Operation
  BY DEF TypeOK
<1>2. /\ op[o].amt \in Nat /\ op[o].actual \in Nat /\ op[o].scopes \subseteq Scopes
      /\ op[o].status \in Status /\ op[o].dispatched \in BOOLEAN
  BY <1>1 DEF Operation
<1> QED
  BY <1>1, <1>2 DEF TypeOK

(* Appending the audit rows es of an operation.                            *)
LEMMA AppendEffect ==
    ASSUME TypeOK, NEW o \in Ops, NEW es, NEW delta \in Int, AppendEvents(o, es, delta)
    PROVE  /\ events' \in [Ops -> [EventTypes -> Nat]]
           /\ net' \in [Ops -> Int]
           /\ net'[o] = net[o] + delta
           /\ \A e \in EventTypes : events'[o][e] = events[o][e] + IF e \in es THEN 1 ELSE 0
           /\ \A q \in Ops : q # o => events'[q] = events[q] /\ net'[q] = net[q]
<1>1. events \in [Ops -> [EventTypes -> Nat]] /\ net \in [Ops -> Int]
  BY DEF TypeOK
<1>2. events' = [events EXCEPT ![o] = [e \in EventTypes |-> events[o][e] + IF e \in es THEN 1 ELSE 0]]
  BY DEF AppendEvents
<1>3. net' = [net EXCEPT ![o] = net[o] + delta]
  BY DEF AppendEvents
<1>4. [e \in EventTypes |-> events[o][e] + IF e \in es THEN 1 ELSE 0] \in [EventTypes -> Nat]
  BY <1>1
<1>5. /\ net' \in [Ops -> Int] /\ net'[o] = net[o] + delta
      /\ \A q \in Ops : q # o => net'[q] = net[q]
  BY <1>1, <1>3
<1>6. /\ events' \in [Ops -> [EventTypes -> Nat]]
      /\ events'[o] = [e \in EventTypes |-> events[o][e] + IF e \in es THEN 1 ELSE 0]
      /\ \A q \in Ops : q # o => events'[q] = events[q]
  BY <1>1, <1>2, <1>4
<1> QED
  BY <1>5, <1>6

(* Reserve writes the row of the request and one audit row.                *)
LEMMA ReserveEffect ==
    ASSUME TypeOK, NEW o \in Ops, NEW r \in ReserveRequest, Reserve(o, r)
    PROVE  /\ op' \in [Ops -> Operation]
           /\ op'[o].status = "RESERVED" /\ op'[o].user = r.user /\ op'[o].trace = r.trace
           /\ op'[o].amt = r.amt /\ op'[o].scopes = r.scopes /\ op'[o].actual = 0
           /\ op'[o].dispatched = FALSE
           /\ \A q \in Ops : q # o => op'[q] = op[q]
           /\ events' \in [Ops -> [EventTypes -> Nat]]
           /\ net' \in [Ops -> Int]
           /\ net'[o] = net[o] - r.amt
           /\ \A e \in EventTypes \ {"RESERVE_CREATED"} : events'[o][e] = events[o][e]
           /\ \A q \in Ops : q # o => events'[q] = events[q] /\ net'[q] = net[q]
           /\ r.amt \in Nat /\ r.cap \in Nat /\ r.user \in Users /\ r.trace \in Traces
           /\ r.scopes \subseteq Scopes /\ r.caps \in [Scopes -> Nat]
<1>1. /\ r.amt \in Nat /\ r.cap \in Nat /\ r.user \in Users /\ r.trace \in Traces
      /\ r.scopes \subseteq Scopes /\ r.caps \in [Scopes -> Nat]
  BY ConstantsAssumption DEF ReserveRequest
<1> DEFINE row == [status |-> "RESERVED", user |-> r.user, trace |-> r.trace,
                   amt |-> r.amt, cap |-> r.cap, scopes |-> r.scopes, actual |-> 0,
                   prid |-> None, dispatched |-> FALSE]
<1>2. op' = [op EXCEPT ![o] = row] /\ op \in [Ops -> Operation]
  BY DEF Reserve, TypeOK
<1>3. row \in Operation
  BY <1>1 DEF Operation, Status, Held
<1>4. /\ row.status = "RESERVED" /\ row.user = r.user /\ row.trace = r.trace
      /\ row.amt = r.amt /\ row.scopes = r.scopes /\ row.actual = 0
      /\ row.dispatched = FALSE
  OBVIOUS
<1> HIDE DEF row
<1>5. op' \in [Ops -> Operation] /\ op'[o] = row /\ \A q \in Ops : q # o => op'[q] = op[q]
  BY <1>2, <1>3
<1>6. AppendEvents(o, {"RESERVE_CREATED"}, -r.amt) /\ -r.amt \in Int
  BY <1>1 DEF Reserve
<1>7. /\ events' \in [Ops -> [EventTypes -> Nat]]
      /\ net' \in [Ops -> Int]
      /\ net'[o] = net[o] + (-r.amt)
      /\ \A e \in EventTypes : events'[o][e] = events[o][e] + IF e \in {"RESERVE_CREATED"} THEN 1 ELSE 0
      /\ \A q \in Ops : q # o => events'[q] = events[q] /\ net'[q] = net[q]
  BY <1>6, AppendEffect
<1>8. /\ net'[o] = net[o] - r.amt
      /\ \A e \in EventTypes \ {"RESERVE_CREATED"} : events'[o][e] = events[o][e]
  BY <1>1, <1>7, RowTypes
<1> QED
  BY <1>1, <1>4, <1>5, <1>7, <1>8

(* A dispatch report changes the status and moves no money.                *)
LEMMA RecordAttemptEffect ==
    ASSUME TypeOK, NEW o \in Ops, NEW outcome \in Dispatched, NEW k \in AttemptKeys,
           NEW p \in ProviderIds \cup {None}, NEW sig \in LoopScopes \cup {None},
           RecordAttempt(o, outcome, k, p, sig)
    PROVE  /\ op' \in [Ops -> Operation]
           /\ op'[o].status = outcome /\ op'[o].dispatched = TRUE
           /\ SameTerms(op'[o], op[o]) /\ op'[o].actual = op[o].actual
           /\ \A q \in Ops : q # o => op'[q] = op[q]
           /\ events' \in [Ops -> [EventTypes -> Nat]]
           /\ net' = net
           /\ events'[o]["DISPATCH_STARTED"] + events'[o]["PROVIDER_TIMEOUT_RECORDED"]
                = events[o]["DISPATCH_STARTED"] + events[o]["PROVIDER_TIMEOUT_RECORDED"] + 1
           /\ \A e \in EventTypes \ {"DISPATCH_STARTED", "PROVIDER_TIMEOUT_RECORDED"} :
                 events'[o][e] = events[o][e]
           /\ \A q \in Ops : q # o => events'[q] = events[q]
<1>1. op \in [Ops -> Operation] /\ net \in [Ops -> Int] /\ outcome \in Status
  BY DEF TypeOK, Status, Held, Dispatched
<1>2. op' = [op EXCEPT ![o].status = outcome, ![o].dispatched = TRUE, ![o].prid = Coalesce(p, @)]
  BY DEF RecordAttempt
<1> DEFINE row == [op[o] EXCEPT !.status = outcome, !.dispatched = TRUE, !.prid = Coalesce(p, @)]
<1>3. op'[o] = row /\ DOMAIN op' = Ops /\ \A q \in Ops : q # o => op'[q] = op[q]
  BY <1>1, <1>2
<1>4. op[o] \in Operation
  BY <1>1
<1>5. /\ row \in Operation
      /\ row.status = outcome /\ row.dispatched = TRUE /\ row.actual = op[o].actual
      /\ SameTerms(row, op[o])
  BY <1>1, <1>4 DEF Operation, Coalesce, SameTerms
<1> HIDE DEF row
<1>6. op' \in [Ops -> Operation]
  <2>1. \A q \in Ops : op'[q] \in Operation
    BY <1>1, <1>3, <1>5
  <2>2. op' = [q \in Ops |-> op'[q]]
    BY <1>1, <1>2
  <2> QED
    BY <2>1, <2>2
<1>7. AppendEvents(o, {DispatchEvent(outcome)}, 0)
  BY DEF RecordAttempt
<1>8. /\ events' \in [Ops -> [EventTypes -> Nat]]
      /\ net'[o] = net[o] + 0 /\ net' \in [Ops -> Int]
      /\ \A e \in EventTypes : events'[o][e] = events[o][e] + IF e \in {DispatchEvent(outcome)} THEN 1 ELSE 0
      /\ \A q \in Ops : q # o => events'[q] = events[q] /\ net'[q] = net[q]
  BY <1>7, AppendEffect
<1>9. net' = net
  BY <1>1, <1>8
<1>10. /\ events'[o]["DISPATCH_STARTED"] + events'[o]["PROVIDER_TIMEOUT_RECORDED"]
             = events[o]["DISPATCH_STARTED"] + events[o]["PROVIDER_TIMEOUT_RECORDED"] + 1
       /\ \A e \in EventTypes \ {"DISPATCH_STARTED", "PROVIDER_TIMEOUT_RECORDED"} :
             events'[o][e] = events[o][e]
  <2>1. events[o] \in [EventTypes -> Nat]
    BY RowTypes
  <2> QED
    BY <1>8, <2>1 DEF DispatchEvent, EventTypes, Dispatched
<1> QED
  BY <1>3, <1>5, <1>6, <1>8, <1>9, <1>10

(* A settlement writes the final status and cost, moves the difference to  *)
(* what was held, and appends exactly one terminal audit row.              *)
LEMMA SettleEffect ==
    ASSUME TypeOK, NEW o \in Ops, op[o].status # "NONE", NEW cost \in ActualCosts,
           NEW k \in AttemptKeys \cup {None}, NEW p \in ProviderIds \cup {None},
           FinalizeSettlement(o, cost, k, p)
    PROVE  /\ cost \in Nat
           /\ WalletDelta(o, cost) \in Int /\ BudgetDelta(o, cost) \in Int
           /\ op' \in [Ops -> Operation]
           /\ op'[o].status = "SETTLED" /\ op'[o].actual = cost
           /\ op'[o].dispatched = op[o].dispatched
           /\ SameTerms(op'[o], op[o])
           /\ \A q \in Ops : q # o => op'[q] = op[q]
           /\ events' \in [Ops -> [EventTypes -> Nat]]
           /\ net' \in [Ops -> Int]
           /\ net'[o] = net[o] + WalletDelta(o, cost)
           /\ events'[o]["SETTLED_FINAL"] + events'[o]["RECONCILED_LATE_SETTLE"]
                = events[o]["SETTLED_FINAL"] + events[o]["RECONCILED_LATE_SETTLE"] + 1
           /\ \A e \in {"DISPATCH_STARTED", "PROVIDER_TIMEOUT_RECORDED", "EXPIRED_SWEEP"} :
                 events'[o][e] = events[o][e]
           /\ \A q \in Ops : q # o => events'[q] = events[q] /\ net'[q] = net[q]
<1>0. cost \in Nat /\ op[o].amt \in Nat
  BY RowTypes, ConstantsAssumption
<1>1. WalletDelta(o, cost) \in Int /\ BudgetDelta(o, cost) \in Int
  BY <1>0 DEF WalletDelta, BudgetDelta
<1>2. op \in [Ops -> Operation] /\ "SETTLED" \in Status
  BY DEF TypeOK, Status
<1>3. op' = [op EXCEPT ![o].status = "SETTLED", ![o].actual = cost, ![o].prid = Coalesce(p, @)]
  BY DEF FinalizeSettlement
<1> DEFINE row == [op[o] EXCEPT !.status = "SETTLED", !.actual = cost, !.prid = Coalesce(p, @)]
<1>4. op'[o] = row /\ \A q \in Ops : q # o => op'[q] = op[q]
  BY <1>2, <1>3
<1>5. op[o] \in Operation
  BY <1>2
<1>6. /\ row \in Operation
      /\ row.status = "SETTLED" /\ row.actual = cost /\ row.dispatched = op[o].dispatched
      /\ SameTerms(row, op[o])
  BY <1>0, <1>2, <1>5 DEF Operation, Coalesce, SameTerms
<1> HIDE DEF row
<1>7. op' \in [Ops -> Operation]
  <2>1. \A q \in Ops : op'[q] \in Operation
    BY <1>2, <1>4, <1>6
  <2>2. op' = [q \in Ops |-> op'[q]]
    BY <1>2, <1>3
  <2> QED
    BY <2>1, <2>2
<1>8. AppendEvents(o, SettleEvents(o, cost), WalletDelta(o, cost))
  BY DEF FinalizeSettlement
<1>9. /\ events' \in [Ops -> [EventTypes -> Nat]]
      /\ net' \in [Ops -> Int]
      /\ net'[o] = net[o] + WalletDelta(o, cost)
      /\ \A e \in EventTypes : events'[o][e] = events[o][e] + IF e \in SettleEvents(o, cost) THEN 1 ELSE 0
      /\ \A q \in Ops : q # o => events'[q] = events[q] /\ net'[q] = net[q]
  BY <1>1, <1>8, AppendEffect
<1>10. events[o] \in [EventTypes -> Nat]
  BY RowTypes
<1>11. /\ "DISPATCH_STARTED" \notin SettleEvents(o, cost)
       /\ "PROVIDER_TIMEOUT_RECORDED" \notin SettleEvents(o, cost)
       /\ "EXPIRED_SWEEP" \notin SettleEvents(o, cost)
       /\ \/ "SETTLED_FINAL" \in SettleEvents(o, cost) /\ "RECONCILED_LATE_SETTLE" \notin SettleEvents(o, cost)
          \/ "SETTLED_FINAL" \notin SettleEvents(o, cost) /\ "RECONCILED_LATE_SETTLE" \in SettleEvents(o, cost)
  BY DEF SettleEvents, TerminalReason
<1>12. /\ events'[o]["SETTLED_FINAL"] + events'[o]["RECONCILED_LATE_SETTLE"]
             = events[o]["SETTLED_FINAL"] + events[o]["RECONCILED_LATE_SETTLE"] + 1
       /\ \A e \in {"DISPATCH_STARTED", "PROVIDER_TIMEOUT_RECORDED", "EXPIRED_SWEEP"} :
             events'[o][e] = events[o][e]
  BY <1>9, <1>10, <1>11 DEF EventTypes
<1> QED
  BY <1>0, <1>1, <1>4, <1>6, <1>7, <1>9, <1>12

(* What a sweep refunds and releases is an amount.                         *)
LEMMA SweepAmounts ==
    ASSUME TypeOK, NEW S \in SUBSET Ops
    PROVE  /\ \A u \in Users : RefundsTo(S, u) \in Nat
           /\ \A t \in Traces : ReleasedOn(S, t) \in Nat
<1>1. ASSUME NEW u \in Users PROVE RefundsTo(S, u) \in Nat
  <2>1. UserRefunds(S, u) \in [1..NumOps -> Nat]
    BY DEF TypeOK, Operation, Ops, UserRefunds
  <2> QED
    BY <2>1, SumNonNegative, ConstantsAssumption DEF RefundsTo
<1>2. ASSUME NEW t \in Traces PROVE ReleasedOn(S, t) \in Nat
  <2>1. TraceReleases(S, t) \in [1..NumOps -> Nat]
    BY DEF TypeOK, Operation, Ops, TraceReleases
  <2> QED
    BY <2>1, SumNonNegative, ConstantsAssumption DEF ReleasedOn
<1> QED
  BY <1>1, <1>2

(* A sweep strands or expires the rows of its batch and touches no other.  *)
LEMMA SweepEffect ==
    ASSUME TypeOK, NEW S \in SUBSET Ops, Sweep(S)
    PROVE  /\ op' \in [Ops -> Operation]
           /\ \A q \in Ops :
                 /\ SameTerms(op'[q], op[q]) /\ op'[q].actual = op[q].actual
                 /\ op'[q].dispatched = op[q].dispatched
                 /\ q \notin S => op'[q] = op[q] /\ events'[q] = events[q] /\ net'[q] = net[q]
                 /\ q \in S => /\ op[q].status \in Sweepable
                               /\ op'[q].status = IF Strands(q) THEN "STRANDED" ELSE "EXPIRED"
                               /\ net'[q] = net[q] + IF Strands(q) THEN 0 ELSE op[q].amt
                               /\ events'[q]["EXPIRED_SWEEP"] =
                                    events[q]["EXPIRED_SWEEP"] + IF Strands(q) THEN 0 ELSE 1
                               /\ events'[q]["STRANDED_HOLD"] =
                                    events[q]["STRANDED_HOLD"] + IF Strands(q) THEN 1 ELSE 0
                               /\ \A e \in EventTypes \ {"STRANDED_HOLD", "EXPIRED_SWEEP"} :
                                     events'[q][e] = events[q][e]
           /\ events' \in [Ops -> [EventTypes -> Nat]]
           /\ net' \in [Ops -> Int]
<1>1. /\ op' = [o \in Ops |->
                  IF o \in S
                  THEN [op[o] EXCEPT !.status = IF Strands(o) THEN "STRANDED" ELSE "EXPIRED"]
                  ELSE op[o]]
      /\ events' = [o \in Ops |->
                      IF o \in S
                      THEN [events[o] EXCEPT ![IF Strands(o) THEN "STRANDED_HOLD" ELSE "EXPIRED_SWEEP"] = @ + 1]
                      ELSE events[o]]
      /\ net' = [o \in Ops |-> net[o] + IF o \in S /\ ~Strands(o) THEN op[o].amt ELSE 0]
      /\ \A q \in S : op[q].status \in Sweepable
  BY DEF Sweep, Claimable
<1>2. ASSUME NEW q \in Ops
      PROVE  /\ op'[q] \in Operation
             /\ SameTerms(op'[q], op[q]) /\ op'[q].actual = op[q].actual
             /\ op'[q].dispatched = op[q].dispatched
             /\ q \notin S => op'[q] = op[q]
             /\ q \in S => op'[q].status = IF Strands(q) THEN "STRANDED" ELSE "EXPIRED"
  <2>1. op[q] \in Operation
    BY RowTypes
  <2>2. CASE q \in S
    <3> DEFINE st == IF Strands(q) THEN "STRANDED" ELSE "EXPIRED"
    <3>1. op'[q] = [op[q] EXCEPT !.status = st]
      BY <1>1, <2>2
    <3>2. st \in Status
      BY DEF Status, Held
    <3> HIDE DEF st
    <3>3. /\ [op[q] EXCEPT !.status = st] \in Operation
          /\ SameTerms([op[q] EXCEPT !.status = st], op[q])
          /\ [op[q] EXCEPT !.status = st].actual = op[q].actual
          /\ [op[q] EXCEPT !.status = st].dispatched = op[q].dispatched
          /\ [op[q] EXCEPT !.status = st].status = st
      BY <2>1, <3>2 DEF Operation, SameTerms
    <3> QED
      BY <2>2, <3>1, <3>3 DEF st
  <2>3. CASE q \notin S
    BY <1>1, <2>1, <2>3 DEF SameTerms
  <2> QED
    BY <2>2, <2>3
<1>3. ASSUME NEW q \in Ops
      PROVE  /\ events'[q] \in [EventTypes -> Nat]
             /\ q \notin S => events'[q] = events[q]
             /\ q \in S => /\ events'[q]["EXPIRED_SWEEP"] =
                                events[q]["EXPIRED_SWEEP"] + IF Strands(q) THEN 0 ELSE 1
                           /\ events'[q]["STRANDED_HOLD"] =
                                events[q]["STRANDED_HOLD"] + IF Strands(q) THEN 1 ELSE 0
                           /\ \A e \in EventTypes \ {"STRANDED_HOLD", "EXPIRED_SWEEP"} :
                                 events'[q][e] = events[q][e]
  <2>1. events[q] \in [EventTypes -> Nat]
    BY RowTypes
  <2>2. events'[q] = IF q \in S
                     THEN [events[q] EXCEPT ![IF Strands(q) THEN "STRANDED_HOLD" ELSE "EXPIRED_SWEEP"] = @ + 1]
                     ELSE events[q]
    BY <1>1
  <2>3. CASE Strands(q)
    BY <2>1, <2>2, <2>3 DEF EventTypes
  <2>4. CASE ~Strands(q)
    BY <2>1, <2>2, <2>4 DEF EventTypes
  <2> QED
    BY <2>3, <2>4
<1>4. ASSUME NEW q \in Ops
      PROVE  /\ net'[q] \in Int
             /\ q \notin S => net'[q] = net[q]
             /\ q \in S => net'[q] = net[q] + IF Strands(q) THEN 0 ELSE op[q].amt
  <2>1. net[q] \in Int /\ op[q].amt \in Nat
    BY RowTypes
  <2> QED
    BY <1>1, <2>1
<1>5. op' \in [Ops -> Operation] /\ events' \in [Ops -> [EventTypes -> Nat]] /\ net' \in [Ops -> Int]
  BY <1>1, <1>2, <1>3, <1>4
<1> QED
  BY <1>1, <1>2, <1>3, <1>4, <1>5

-----------------------------------------------------------------------------
(***************************************************************************)
(* Types                                                                   *)
(***************************************************************************)

(* Every column keeps its type, amounts stay non-negative included: the    *)
(* conditional updates and the checks of reserve, settle and sweep keep    *)
(* every balance and total out of the negative numbers.                    *)
THEOREM TypeCorrect == Spec => []TypeOK
<1>1. Init => TypeOK
  BY ConstantsAssumption
     DEF Init, TypeOK, NoTrace, NoScope, NoOperation, NoAttempt, Operation, Attempt, Status, Held
<1>2. TypeOK /\ [Next]_vars => TypeOK'
  <2> SUFFICES ASSUME TypeOK, [Next]_vars PROVE TypeOK'
    OBVIOUS
  <2>0. /\ wallet \in [Users -> [balance: Nat, active: BOOLEAN]]
        /\ trace \in [Traces -> [cap: Nat, reserved: Nat, settled: Nat]]
        /\ scope \in [Scopes -> [cap: Nat, consumed: Nat]]
        /\ attempt \in [AttemptKeys -> Attempt]
        /\ loops \in [LoopScopes -> Nat]
    BY DEF TypeOK
  <2>1. ASSUME NEW o \in Ops, NEW r \in ReserveRequest, Reserve(o, r) PROVE TypeOK'
    <3>0. /\ r.amt \in Nat /\ r.cap \in Nat /\ r.user \in Users /\ r.trace \in Traces
          /\ r.scopes \subseteq Scopes /\ r.caps \in [Scopes -> Nat]
          /\ op' \in [Ops -> Operation] /\ events' \in [Ops -> [EventTypes -> Nat]] /\ net' \in [Ops -> Int]
          /\ op'[o].user = r.user /\ op'[o].trace = r.trace
          /\ \A q \in Ops : q # o => op'[q] = op[q]
      BY <2>1, ReserveEffect
    <3>1. wallet' \in [Users -> [balance: Nat, active: BOOLEAN]]
      <4>1. wallet' = [wallet EXCEPT ![r.user] = [balance |-> @.balance - r.amt, active |-> @.active]]
        BY <2>1 DEF Reserve
      <4>2. wallet[r.user].balance >= r.amt
        BY <2>1 DEF Reserve, WalletDebitFits
      <4> QED
        BY <2>0, <3>0, <4>1, <4>2
    <3>2. trace' \in [Traces -> [cap: Nat, reserved: Nat, settled: Nat]]
      <4>1. trace' = [trace EXCEPT ![r.trace] =
                        [cap |-> r.cap, reserved |-> @.reserved + r.amt, settled |-> @.settled]]
        BY <2>1 DEF Reserve
      <4> QED
        BY <2>0, <3>0, <4>1
    <3>3. scope' \in [Scopes -> [cap: Nat, consumed: Nat]]
      <4>1. ApplyBudgetDelta(r.scopes, r.caps, r.amt)
        BY <2>1 DEF Reserve
      <4> QED
        BY <2>0, <3>0, <4>1 DEF ApplyBudgetDelta, ScopeCap
    <3>4. \A q \in Ops : op'[q].status # "NONE" => op'[q].user \in Users /\ op'[q].trace \in Traces
      BY <3>0, RowTypes
    <3>5. UNCHANGED <<attempt, loops, incidents, lapsed>>
      BY <2>1 DEF Reserve
    <3> QED
      BY <3>0, <3>1, <3>2, <3>3, <3>4, <3>5 DEF TypeOK
  <2>2. ASSUME NEW o \in Ops, NEW r \in ReserveRequest, ReserveNeedsApproval(o, r) PROVE TypeOK'
    BY <2>2 DEF ReserveNeedsApproval, TypeOK
  <2>3. ASSUME NEW o \in Ops, op[o].status # "NONE", NEW p \in ProviderIds \cup {None},
               NEW outcome \in Dispatched, NEW k \in AttemptKeys, NEW sig \in LoopScopes \cup {None},
               RecordAttempt(o, outcome, k, p, sig)
        PROVE  TypeOK'
    <3>0. /\ op' \in [Ops -> Operation] /\ events' \in [Ops -> [EventTypes -> Nat]] /\ net' = net
          /\ SameTerms(op'[o], op[o])
          /\ \A q \in Ops : q # o => op'[q] = op[q]
      BY <2>3, RecordAttemptEffect
    <3>1. \A q \in Ops : op'[q].status # "NONE" => op'[q].user \in Users /\ op'[q].trace \in Traces
      BY <3>0, <2>3, RowTypes DEF SameTerms
    <3>2. attempt' \in [AttemptKeys -> Attempt]
      <4>1. UpsertAttempt(k, o, outcome, p)
        BY <2>3 DEF RecordAttempt
      <4> QED
        BY <2>0, <4>1 DEF UpsertAttempt, Attempt, Coalesce
    <3>3. loops' \in [LoopScopes -> Nat]
      <4>1. loops' = IF sig = None THEN loops ELSE [loops EXCEPT ![sig] = @ + 1]
        BY <2>3 DEF RecordAttempt
      <4> QED
        BY <2>0, <4>1
    <3>4. UNCHANGED <<wallet, trace, scope, incidents, lapsed>>
      BY <2>3 DEF RecordAttempt
    <3> QED
      BY <3>0, <3>1, <3>2, <3>3, <3>4 DEF TypeOK
  <2>4. ASSUME NEW o \in Ops, NEW sig, LoopBlocked(o, sig)
        PROVE  TypeOK'
    BY <2>4 DEF LoopBlocked, TypeOK
  <2>5. ASSUME NEW o \in Ops, op[o].status # "NONE", NEW p \in ProviderIds \cup {None},
               NEW cost \in ActualCosts, NEW k \in AttemptKeys \cup {None},
               FinalizeSettlement(o, cost, k, p)
        PROVE  TypeOK'
    <3>0. /\ cost \in Nat /\ WalletDelta(o, cost) \in Int /\ BudgetDelta(o, cost) \in Int
          /\ op' \in [Ops -> Operation] /\ events' \in [Ops -> [EventTypes -> Nat]] /\ net' \in [Ops -> Int]
          /\ SameTerms(op'[o], op[o])
          /\ \A q \in Ops : q # o => op'[q] = op[q]
      BY <2>5, SettleEffect
    <3>a. /\ op[o].amt \in Nat /\ op[o].scopes \subseteq Scopes
          /\ op[o].user \in Users /\ op[o].trace \in Traces
      BY <2>5, RowTypes
    <3>1. wallet' \in [Users -> [balance: Nat, active: BOOLEAN]]
      <4>1. /\ wallet' = [wallet EXCEPT ![op[o].user] =
                    [balance |-> @.balance + WalletDelta(o, cost),
                     active |-> @.active /\ ~DriftExceedsTolerance(cost - op[o].amt, op[o].amt)]]
            /\ wallet[op[o].user].balance + WalletDelta(o, cost) >= 0
        BY <2>5 DEF FinalizeSettlement
      <4> QED
        BY <2>0, <3>0, <3>a, <4>1
    <3>2. trace' \in [Traces -> [cap: Nat, reserved: Nat, settled: Nat]]
      <4>1. /\ trace' = [trace EXCEPT ![op[o].trace] =
                   [cap |-> @.cap,
                    reserved |-> @.reserved - (IF StillHeld(o) THEN op[o].amt ELSE 0),
                    settled |-> @.settled + cost]]
            /\ StillHeld(o) => trace[op[o].trace].reserved >= op[o].amt
        BY <2>5 DEF FinalizeSettlement, SettleBackstops
      <4> QED
        BY <2>0, <3>0, <3>a, <4>1
    <3>3. scope' \in [Scopes -> [cap: Nat, consumed: Nat]]
      <4>1. /\ ApplyBudgetDelta(op[o].scopes, [s \in Scopes |-> scope[s].cap], BudgetDelta(o, cost))
            /\ \A s \in op[o].scopes : scope[s].consumed + BudgetDelta(o, cost) >= 0
        BY <2>5 DEF FinalizeSettlement, SettleBackstops
      <4> QED
        BY <2>0, <3>0, <3>a, <4>1 DEF ApplyBudgetDelta, ScopeCap
    <3>4. \A q \in Ops : op'[q].status # "NONE" => op'[q].user \in Users /\ op'[q].trace \in Traces
      BY <3>0, <2>5, RowTypes DEF SameTerms
    <3>5. attempt' \in [AttemptKeys -> Attempt]
      <4>1. CASE k = None
        BY <2>0, <2>5, <4>1 DEF FinalizeSettlement
      <4>2. CASE k # None
        <5>1. UpsertAttempt(k, o, "SETTLED", p)
          BY <2>5, <4>2 DEF FinalizeSettlement
        <5> QED
          BY <2>0, <4>2, <5>1 DEF UpsertAttempt, Attempt, Coalesce
      <4> QED
        BY <4>1, <4>2
    <3>6. UNCHANGED <<loops, incidents, lapsed>>
      BY <2>5 DEF FinalizeSettlement
    <3> QED
      BY <3>0, <3>1, <3>2, <3>3, <3>4, <3>5, <3>6 DEF TypeOK
  <2>6. ASSUME NEW o \in Ops, TtlElapses(o) PROVE TypeOK'
    BY <2>6 DEF TtlElapses, TypeOK
  <2>7. ASSUME NEW S \in SUBSET Ops, Sweep(S) PROVE TypeOK'
    <3>0. /\ \A u \in Users : RefundsTo(S, u) \in Nat
          /\ \A t \in Traces : ReleasedOn(S, t) \in Nat
      BY SweepAmounts
    <3>1. wallet' \in [Users -> [balance: Nat, active: BOOLEAN]]
      <4>1. wallet' = [u \in Users |->
                    [balance |-> wallet[u].balance + RefundsTo(S, u), active |-> wallet[u].active]]
        BY <2>7 DEF Sweep
      <4> QED
        BY <2>0, <3>0, <4>1
    <3>2. trace' \in [Traces -> [cap: Nat, reserved: Nat, settled: Nat]]
      <4>1. /\ trace' = [t \in Traces |->
                   [cap |-> trace[t].cap, reserved |-> trace[t].reserved - ReleasedOn(S, t),
                    settled |-> trace[t].settled]]
            /\ \A t \in Traces : trace[t].reserved >= ReleasedOn(S, t)
        BY <2>7 DEF Sweep, SweepBackstops
      <4> QED
        BY <2>0, <3>0, <4>1
    <3>3. /\ op' \in [Ops -> Operation] /\ events' \in [Ops -> [EventTypes -> Nat]] /\ net' \in [Ops -> Int]
          /\ \A q \in Ops : SameTerms(op'[q], op[q]) /\ (q \notin S => op'[q] = op[q])
          /\ \A q \in S : op[q].status \in Sweepable
      BY <2>7, SweepEffect
    <3>4. \A q \in Ops : op'[q].status # "NONE" => op'[q].user \in Users /\ op'[q].trace \in Traces
      BY <3>3, RowTypes DEF SameTerms, Sweepable
    <3>5. UNCHANGED <<scope, attempt, loops, incidents, lapsed>>
      BY <2>7 DEF Sweep
    <3> QED
      BY <3>1, <3>2, <3>3, <3>4, <3>5 DEF TypeOK
  <2>8. CASE UNCHANGED vars
    BY <2>8 DEF vars, TypeOK
  <2> QED
    BY <2>1, <2>2, <2>3, <2>4, <2>5, <2>6, <2>7, <2>8, LoadedExists
       DEF Next, ReserveStep, ApprovalStep, AttemptStep, LoopStep, SettleStep, TtlStep, SweepStep
<1> QED
  BY <1>1, <1>2, PTL DEF Spec

-----------------------------------------------------------------------------
(***************************************************************************)
(* Rows: the strengthening every other invariant rests on                  *)
(***************************************************************************)

(* What the audit rows and attempts of a row say is preserved when neither *)
(* the row nor its audit rows change.                                      *)
LEMMA RowsStep ==
    ASSUME TypeOK, RowsConsistent, AttemptsOwned, [Next]_vars
    PROVE  RowsConsistent' /\ AttemptsOwned'
<1>a. \A q \in Ops : RowConsistent(q)
  BY DEF RowsConsistent
<1>b. attempt \in [AttemptKeys -> Attempt]
  BY DEF TypeOK
<1>c. \A j \in AttemptKeys : attempt[j].op \in Ops \cup {None}
  BY <1>b DEF Attempt
<1>d. ASSUME NEW q \in Ops, op'[q] = op[q], events'[q] = events[q] PROVE RowConsistent(q)'
  BY <1>a, <1>d DEF RowConsistent, Updates
<1>1. ASSUME NEW o \in Ops, NEW r \in ReserveRequest, Reserve(o, r)
      PROVE  RowsConsistent' /\ AttemptsOwned'
  <2>1. /\ op'[o].status = "RESERVED" /\ op'[o].dispatched = FALSE
        /\ \A e \in EventTypes \ {"RESERVE_CREATED"} : events'[o][e] = events[o][e]
        /\ \A q \in Ops : q # o => op'[q] = op[q] /\ events'[q] = events[q]
    BY <1>1, ReserveEffect
  <2>2. op[o].status = "NONE" /\ attempt' = attempt
    BY <1>1 DEF Reserve
  <2>3. events[o] = [e \in EventTypes |-> 0]
    BY <1>a, <2>2 DEF RowConsistent
  <2>4. RowConsistent(o)'
    BY <2>1, <2>3 DEF RowConsistent, Updates, EventTypes, Held, Dispatched
  <2>5. RowsConsistent'
    BY <1>d, <2>1, <2>4 DEF RowsConsistent
  <2>6. AttemptsOwned'
    BY <1>c, <2>1, <2>2 DEF AttemptsOwned, Dispatched
  <2> QED
    BY <2>5, <2>6
<1>3. ASSUME NEW o \in Ops, op[o].status # "NONE", NEW p \in ProviderIds \cup {None},
             NEW outcome \in Dispatched, NEW k \in AttemptKeys, NEW sig \in LoopScopes \cup {None},
             RecordAttempt(o, outcome, k, p, sig)
      PROVE  RowsConsistent' /\ AttemptsOwned'
  <2>1. /\ op'[o].status = outcome /\ op'[o].dispatched = TRUE
        /\ \A q \in Ops : q # o => op'[q] = op[q] /\ events'[q] = events[q]
        /\ events'[o]["DISPATCH_STARTED"] + events'[o]["PROVIDER_TIMEOUT_RECORDED"]
             = events[o]["DISPATCH_STARTED"] + events[o]["PROVIDER_TIMEOUT_RECORDED"] + 1
        /\ \A e \in EventTypes \ {"DISPATCH_STARTED", "PROVIDER_TIMEOUT_RECORDED"} :
              events'[o][e] = events[o][e]
    BY <1>3, RecordAttemptEffect
  <2>2. op[o].status \notin Terminal /\ UpsertAttempt(k, o, outcome, p)
    BY <1>3 DEF RecordAttempt
  <2>3. events[o] \in [EventTypes -> Nat] /\ op[o].status \in Status
    BY RowTypes
  <2>4. op[o].status \in Held
    BY <1>3, <2>2, <2>3 DEF Status, Held, Terminal
  <2>5. events[o]["EXPIRED_SWEEP"] = 0
        /\ events[o]["SETTLED_FINAL"] + events[o]["RECONCILED_LATE_SETTLE"] = 0
    BY <1>a, <2>4 DEF RowConsistent, Held
  <2>6. RowConsistent(o)'
    <3>1. /\ events'[o]["EXPIRED_SWEEP"] = 0
          /\ events'[o]["SETTLED_FINAL"] + events'[o]["RECONCILED_LATE_SETTLE"] = 0
          /\ events'[o]["DISPATCH_STARTED"] + events'[o]["PROVIDER_TIMEOUT_RECORDED"] > 0
      BY <2>1, <2>3, <2>5 DEF EventTypes
    <3> QED
      BY <2>1, <3>1 DEF RowConsistent, Updates, Held, Dispatched
  <2>7. RowsConsistent'
    BY <1>d, <2>1, <2>6 DEF RowsConsistent
  <2>8. AttemptsOwned'
    <3>1. \A j \in AttemptKeys : attempt'[j].op \in {attempt[j].op, o}
      BY <1>b, <2>2 DEF UpsertAttempt, Coalesce
    <3>2. op'[o].status \in Dispatched \cup {"STRANDED", "SETTLED"}
      BY <2>1
    <3> QED
      BY <1>c, <2>1, <3>1, <3>2 DEF AttemptsOwned
  <2> QED
    BY <2>7, <2>8
<1>5. ASSUME NEW o \in Ops, op[o].status # "NONE", NEW p \in ProviderIds \cup {None},
             NEW cost \in ActualCosts, NEW k \in AttemptKeys \cup {None},
             FinalizeSettlement(o, cost, k, p)
      PROVE  RowsConsistent' /\ AttemptsOwned'
  <2>1. /\ op'[o].status = "SETTLED" /\ op'[o].dispatched = op[o].dispatched
        /\ \A q \in Ops : q # o => op'[q] = op[q] /\ events'[q] = events[q]
        /\ events'[o]["SETTLED_FINAL"] + events'[o]["RECONCILED_LATE_SETTLE"]
             = events[o]["SETTLED_FINAL"] + events[o]["RECONCILED_LATE_SETTLE"] + 1
        /\ \A e \in {"DISPATCH_STARTED", "PROVIDER_TIMEOUT_RECORDED", "EXPIRED_SWEEP"} :
              events'[o][e] = events[o][e]
    BY <1>5, SettleEffect
  <2>2. op[o].status # "SETTLED" /\ (IF k = None THEN UNCHANGED attempt ELSE UpsertAttempt(k, o, "SETTLED", p))
    BY <1>5 DEF FinalizeSettlement
  <2>3. events[o] \in [EventTypes -> Nat]
    BY RowTypes
  <2>4. RowConsistent(o)'
    <3>1. RowConsistent(o)
      BY <1>a
    <3> QED
      BY <2>1, <2>2, <2>3, <3>1 DEF RowConsistent, Updates, EventTypes, Held, Dispatched
  <2>5. RowsConsistent'
    BY <1>d, <2>1, <2>4 DEF RowsConsistent
  <2>6. AttemptsOwned'
    <3>1. \A j \in AttemptKeys : attempt'[j].op \in {attempt[j].op, o}
      BY <1>b, <1>5, <2>2 DEF UpsertAttempt, Coalesce
    <3> QED
      BY <1>c, <2>1, <3>1 DEF AttemptsOwned
  <2> QED
    BY <2>5, <2>6
<1>7. ASSUME NEW S \in SUBSET Ops, Sweep(S) PROVE RowsConsistent' /\ AttemptsOwned'
  <2>1. ASSUME NEW q \in Ops
        PROVE  /\ op'[q].dispatched = op[q].dispatched
               /\ q \notin S => op'[q] = op[q] /\ events'[q] = events[q]
               /\ q \in S => /\ op[q].status \in Sweepable
                             /\ op'[q].status = IF Strands(q) THEN "STRANDED" ELSE "EXPIRED"
                             /\ events'[q]["EXPIRED_SWEEP"] =
                                  events[q]["EXPIRED_SWEEP"] + IF Strands(q) THEN 0 ELSE 1
                             /\ events'[q]["STRANDED_HOLD"] =
                                  events[q]["STRANDED_HOLD"] + IF Strands(q) THEN 1 ELSE 0
                             /\ \A e \in EventTypes \ {"STRANDED_HOLD", "EXPIRED_SWEEP"} :
                                   events'[q][e] = events[q][e]
    BY <1>7, SweepEffect
  <2>2. ASSUME NEW q \in S PROVE RowConsistent(q)'
    <3>1. RowConsistent(q) /\ q \in Ops
      BY <1>a
    <3>2. events[q] \in [EventTypes -> Nat]
      BY <3>1, RowTypes
    <3>3. op[q].status \in Sweepable
      BY <2>1
    <3>4. CASE Strands(q)
      <4>1. op[q].status \in Dispatched
        BY <3>1, <3>3, <3>4, NoneAssumption DEF Strands, HasOpenAttempts, AttemptsOwned, Sweepable, Dispatched
      <4>2. op[q].dispatched /\ events[q]["EXPIRED_SWEEP"] = 0
            /\ events[q]["SETTLED_FINAL"] + events[q]["RECONCILED_LATE_SETTLE"] = 0
        BY <3>1, <4>1 DEF RowConsistent, Dispatched, Held
      <4>3. /\ op'[q].dispatched = op[q].dispatched /\ op'[q].status = "STRANDED"
            /\ events'[q]["EXPIRED_SWEEP"] = events[q]["EXPIRED_SWEEP"]
            /\ events'[q]["STRANDED_HOLD"] = events[q]["STRANDED_HOLD"] + 1
            /\ \A e \in EventTypes \ {"STRANDED_HOLD", "EXPIRED_SWEEP"} : events'[q][e] = events[q][e]
        BY <2>1, <3>1, <3>2, <3>4 DEF EventTypes
      <4> QED
        BY <3>1, <3>2, <4>2, <4>3 DEF RowConsistent, Updates, EventTypes, Held, Dispatched
    <3>5. CASE ~Strands(q)
      <4>1. op[q].status = "RESERVED"
        BY <3>3, <3>5 DEF Strands, Sweepable, Dispatched
      <4>2. ~op[q].dispatched /\ events[q]["EXPIRED_SWEEP"] = 0
            /\ events[q]["SETTLED_FINAL"] + events[q]["RECONCILED_LATE_SETTLE"] = 0
        BY <3>1, <4>1 DEF RowConsistent, Held
      <4> QED
        BY <2>1, <3>1, <3>2, <3>5, <4>2 DEF RowConsistent, Updates, EventTypes, Held, Dispatched
    <3> QED
      BY <3>4, <3>5
  <2>3. RowsConsistent'
    BY <1>d, <2>1, <2>2 DEF RowsConsistent
  <2>4. AttemptsOwned'
    <3>1. attempt' = attempt
      BY <1>7 DEF Sweep
    <3>2. ASSUME NEW j \in AttemptKeys, attempt[j].op # None
          PROVE  op'[attempt[j].op].status \in Dispatched \cup {"STRANDED", "SETTLED"}
      <4>1. /\ attempt[j].op \in Ops
            /\ op[attempt[j].op].status \in Dispatched \cup {"STRANDED", "SETTLED"}
        BY <1>c, <3>2 DEF AttemptsOwned
      <4> QED
        BY <2>1, <4>1 DEF Strands, Sweepable, Dispatched
    <3> QED
      BY <3>1, <3>2 DEF AttemptsOwned
  <2> QED
    BY <2>3, <2>4
<1>8. ASSUME op' = op, events' = events, attempt' = attempt PROVE RowsConsistent' /\ AttemptsOwned'
  BY <1>8, <1>d DEF RowsConsistent, AttemptsOwned
<1>2. ASSUME NEW o \in Ops, NEW r \in ReserveRequest, ReserveNeedsApproval(o, r)
      PROVE  RowsConsistent' /\ AttemptsOwned'
  BY <1>2, <1>8 DEF ReserveNeedsApproval
<1>4. ASSUME NEW o \in Ops, NEW sig, LoopBlocked(o, sig) PROVE RowsConsistent' /\ AttemptsOwned'
  BY <1>4, <1>8 DEF LoopBlocked
<1>6. ASSUME NEW o \in Ops, TtlElapses(o) PROVE RowsConsistent' /\ AttemptsOwned'
  BY <1>6, <1>8 DEF TtlElapses
<1>9. CASE UNCHANGED vars
  BY <1>8, <1>9 DEF vars
<1> QED
  BY <1>1, <1>2, <1>3, <1>4, <1>5, <1>6, <1>7, <1>9, LoadedExists
     DEF Next, ReserveStep, ApprovalStep, AttemptStep, LoopStep, SettleStep, TtlStep, SweepStep

(* Status, dispatch marker, audit rows and attempts of every operation     *)
(* agree after any history of transactions.                                *)
THEOREM RowsStayConsistent == Spec => [](RowsConsistent /\ AttemptsOwned)
<1>1. Init => RowsConsistent /\ AttemptsOwned
  BY DEF Init, RowsConsistent, RowConsistent, AttemptsOwned, NoOperation, NoAttempt, Updates,
         EventTypes, Held, Dispatched
<1>2. TypeOK /\ RowsConsistent /\ AttemptsOwned /\ [Next]_vars => RowsConsistent' /\ AttemptsOwned'
  BY RowsStep
<1> QED
  BY <1>1, <1>2, TypeCorrect, PTL DEF Spec

-----------------------------------------------------------------------------
(***************************************************************************)
(* Money                                                                   *)
(***************************************************************************)

(* The columns the sums add up are amounts, before and after a step that   *)
(* keeps the types.                                                        *)
LEMMA ChargeColumns ==
    ASSUME TypeOK, op' \in [Ops -> Operation], events' \in [Ops -> [EventTypes -> Nat]]
    PROVE  /\ \A u : UserCharges(u) \in [1..NumOps -> Int] /\ UserCharges(u)' \in [1..NumOps -> Int]
           /\ \A t : /\ TraceHolds(t) \in [1..NumOps -> Nat] /\ TraceHolds(t)' \in [1..NumOps -> Nat]
                     /\ TraceCosts(t) \in [1..NumOps -> Nat] /\ TraceCosts(t)' \in [1..NumOps -> Nat]
           /\ \A s : ScopeCharges(s) \in [1..NumOps -> Nat] /\ ScopeCharges(s)' \in [1..NumOps -> Nat]
<1>1. \A o \in Ops : op[o].amt \in Nat /\ op[o].actual \in Nat
  BY RowTypes
<1>2. \A o \in Ops : op'[o].amt \in Nat /\ op'[o].actual \in Nat
  BY DEF Operation
<1>3. \A o \in Ops : HeldAmount(o) \in Nat /\ SpentAmount(o) \in Nat /\ ScopeCharge(o) \in Nat
  BY <1>1 DEF HeldAmount, SpentAmount, ScopeCharge
<1>4. \A o \in Ops : HeldAmount(o)' \in Nat /\ SpentAmount(o)' \in Nat /\ ScopeCharge(o)' \in Nat
  BY <1>2 DEF HeldAmount, SpentAmount, ScopeCharge
<1>5. \A u : UserCharges(u) \in [1..NumOps -> Int] /\ UserCharges(u)' \in [1..NumOps -> Int]
  BY <1>3, <1>4 DEF UserCharges, Ops
<1>6. \A t : /\ TraceHolds(t) \in [1..NumOps -> Nat] /\ TraceHolds(t)' \in [1..NumOps -> Nat]
             /\ TraceCosts(t) \in [1..NumOps -> Nat] /\ TraceCosts(t)' \in [1..NumOps -> Nat]
  BY <1>3, <1>4 DEF TraceHolds, TraceCosts, Ops
<1>7. \A s : ScopeCharges(s) \in [1..NumOps -> Nat] /\ ScopeCharges(s)' \in [1..NumOps -> Nat]
  BY <1>3, <1>4 DEF ScopeCharges, Ops
<1> QED
  BY <1>5, <1>6, <1>7

(* A transaction on one operation changes every sum by that row's change.  *)
LEMMA OneRowChanges ==
    ASSUME TypeOK, op' \in [Ops -> Operation], events' \in [Ops -> [EventTypes -> Nat]],
           NEW o \in Ops, \A q \in Ops : q # o => op'[q] = op[q] /\ events'[q] = events[q]
    PROVE  /\ \A u : SumTo(UserCharges(u)', NumOps)
                       = SumTo(UserCharges(u), NumOps) + (UserCharges(u)'[o] - UserCharges(u)[o])
           /\ \A t : SumTo(TraceHolds(t)', NumOps)
                       = SumTo(TraceHolds(t), NumOps) + (TraceHolds(t)'[o] - TraceHolds(t)[o])
           /\ \A t : SumTo(TraceCosts(t)', NumOps)
                       = SumTo(TraceCosts(t), NumOps) + (TraceCosts(t)'[o] - TraceCosts(t)[o])
           /\ \A s : SumTo(ScopeCharges(s)', NumOps)
                       = SumTo(ScopeCharges(s), NumOps) + (ScopeCharges(s)'[o] - ScopeCharges(s)[o])
<1>1. NumOps \in Nat /\ o \in 1..NumOps
  BY ConstantsAssumption DEF Ops
<1>2. ASSUME NEW u
      PROVE  SumTo(UserCharges(u)', NumOps)
               = SumTo(UserCharges(u), NumOps) + (UserCharges(u)'[o] - UserCharges(u)[o])
  <2>1. UserCharges(u) \in [1..NumOps -> Int] /\ UserCharges(u)' \in [1..NumOps -> Int]
    BY ChargeColumns
  <2>2. \A q \in 1..NumOps : q # o => UserCharges(u)'[q] = UserCharges(u)[q]
    BY DEF UserCharges, HeldAmount, SpentAmount, Ops
  <2> QED
    BY <1>1, <2>1, <2>2, SumChangeOne
<1>3. ASSUME NEW t
      PROVE  /\ SumTo(TraceHolds(t)', NumOps)
                  = SumTo(TraceHolds(t), NumOps) + (TraceHolds(t)'[o] - TraceHolds(t)[o])
             /\ SumTo(TraceCosts(t)', NumOps)
                  = SumTo(TraceCosts(t), NumOps) + (TraceCosts(t)'[o] - TraceCosts(t)[o])
  <2>1. /\ TraceHolds(t) \in [1..NumOps -> Int] /\ TraceHolds(t)' \in [1..NumOps -> Int]
        /\ TraceCosts(t) \in [1..NumOps -> Int] /\ TraceCosts(t)' \in [1..NumOps -> Int]
    BY ChargeColumns
  <2>2. \A q \in 1..NumOps : q # o => /\ TraceHolds(t)'[q] = TraceHolds(t)[q]
                                      /\ TraceCosts(t)'[q] = TraceCosts(t)[q]
    BY DEF TraceHolds, TraceCosts, HeldAmount, SpentAmount, Ops
  <2>3. SumTo(TraceHolds(t)', NumOps)
          = SumTo(TraceHolds(t), NumOps) + (TraceHolds(t)'[o] - TraceHolds(t)[o])
    BY <1>1, <2>1, <2>2, SumChangeOne
  <2>4. SumTo(TraceCosts(t)', NumOps)
          = SumTo(TraceCosts(t), NumOps) + (TraceCosts(t)'[o] - TraceCosts(t)[o])
    BY <1>1, <2>1, <2>2, SumChangeOne
  <2> QED
    BY <2>3, <2>4
<1>4. ASSUME NEW s
      PROVE  SumTo(ScopeCharges(s)', NumOps)
               = SumTo(ScopeCharges(s), NumOps) + (ScopeCharges(s)'[o] - ScopeCharges(s)[o])
  <2>1. ScopeCharges(s) \in [1..NumOps -> Int] /\ ScopeCharges(s)' \in [1..NumOps -> Int]
    BY ChargeColumns
  <2>2. \A q \in 1..NumOps : q # o => ScopeCharges(s)'[q] = ScopeCharges(s)[q]
    BY DEF ScopeCharges, ScopeCharge, SpentAmount, Ops
  <2> QED
    BY <1>1, <2>1, <2>2, SumChangeOne
<1> QED
  BY <1>2, <1>3, <1>4

(* The sums are integers.                                                  *)
LEMMA SumsAreInts ==
    ASSUME TypeOK
    PROVE  /\ \A u : SumTo(UserCharges(u), NumOps) \in Int
           /\ \A t : SumTo(TraceHolds(t), NumOps) \in Int /\ SumTo(TraceCosts(t), NumOps) \in Int
           /\ \A s : SumTo(ScopeCharges(s), NumOps) \in Int
<1>1. \A o \in Ops : op[o].amt \in Nat /\ op[o].actual \in Nat
  BY RowTypes
<1>2. \A o \in Ops : HeldAmount(o) \in Nat /\ SpentAmount(o) \in Nat /\ ScopeCharge(o) \in Nat
  BY <1>1 DEF HeldAmount, SpentAmount, ScopeCharge
<1>3. NumOps \in Nat
  BY ConstantsAssumption
<1>4. ASSUME NEW u PROVE SumTo(UserCharges(u), NumOps) \in Int
  <2>1. UserCharges(u) \in [1..NumOps -> Int]
    BY <1>2 DEF UserCharges, Ops
  <2> QED
    BY <1>3, <2>1, SumInt
<1>5. ASSUME NEW t PROVE SumTo(TraceHolds(t), NumOps) \in Int /\ SumTo(TraceCosts(t), NumOps) \in Int
  <2>1. TraceHolds(t) \in [1..NumOps -> Int]
    BY <1>2 DEF TraceHolds, Ops
  <2>2. TraceCosts(t) \in [1..NumOps -> Int]
    BY <1>2 DEF TraceCosts, Ops
  <2> QED
    BY <1>3, <2>1, <2>2, SumInt
<1>6. ASSUME NEW s PROVE SumTo(ScopeCharges(s), NumOps) \in Int
  <2>1. ScopeCharges(s) \in [1..NumOps -> Int]
    BY <1>2 DEF ScopeCharges, Ops
  <2> QED
    BY <1>3, <2>1, SumInt
<1> QED
  BY <1>4, <1>5, <1>6

(* What one settlement does to the amounts of its row.                     *)
LEMMA SettleAmounts ==
    ASSUME TypeOK, RowsConsistent, NEW o \in Ops, op[o].status # "NONE", NEW cost \in ActualCosts,
           NEW k \in AttemptKeys \cup {None}, NEW p \in ProviderIds \cup {None},
           FinalizeSettlement(o, cost, k, p)
    PROVE  /\ HeldAmount(o) = IF StillHeld(o) THEN op[o].amt ELSE 0
           /\ SpentAmount(o) = 0
           /\ ScopeCharge(o) = op[o].amt
           /\ HeldAmount(o)' = 0 /\ SpentAmount(o)' = cost
           /\ ScopeCharge(o)' = cost + IF StillHeld(o) THEN 0 ELSE op[o].amt
           /\ WalletDelta(o, cost) = HeldAmount(o) - cost
           /\ BudgetDelta(o, cost) = ScopeCharge(o)' - ScopeCharge(o)
<1>1. cost \in Nat /\ op[o].amt \in Nat /\ op[o].status \in Status
  BY RowTypes, ConstantsAssumption
<1>2. op[o].status # "SETTLED"
  BY DEF FinalizeSettlement
<1>3. RowConsistent(o)
  BY DEF RowsConsistent
<1>4. /\ op'[o].status = "SETTLED" /\ op'[o].actual = cost /\ op'[o].amt = op[o].amt
      /\ events'[o]["EXPIRED_SWEEP"] = events[o]["EXPIRED_SWEEP"]
  BY SettleEffect DEF SameTerms
<1>5. events[o]["EXPIRED_SWEEP"] = IF StillHeld(o) THEN 0 ELSE 1
  BY <1>1, <1>2, <1>3 DEF RowConsistent, StillHeld, Status, Held
<1>6. /\ HeldAmount(o) = IF StillHeld(o) THEN op[o].amt ELSE 0
      /\ SpentAmount(o) = 0
  BY <1>1, <1>2 DEF HeldAmount, SpentAmount, StillHeld, Status, Held
<1>7. ScopeCharge(o) = op[o].amt
  BY <1>1, <1>2, <1>5, <1>6 DEF ScopeCharge, StillHeld, Status, Held
<1>8. HeldAmount(o)' = 0 /\ SpentAmount(o)' = cost
  BY <1>4 DEF HeldAmount, SpentAmount, Held
<1>9. ScopeCharge(o)' = cost + IF StillHeld(o) THEN 0 ELSE op[o].amt
  BY <1>1, <1>4, <1>5, <1>8 DEF ScopeCharge, Held
<1> QED
  BY <1>1, <1>6, <1>7, <1>8, <1>9 DEF WalletDelta, BudgetDelta

(* Every sweep or settle moves exactly what the audit rows say.            *)
LEMMA AuditStep ==
    ASSUME TypeOK, RowsConsistent, AuditTrailMatchesRow, [Next]_vars
    PROVE  AuditTrailMatchesRow'
<1>a. \A q \in Ops : /\ net[q] = -(HeldAmount(q) + SpentAmount(q))
                     /\ op[q].amt \in Nat /\ op[q].actual \in Nat
  BY RowTypes DEF AuditTrailMatchesRow
<1>b. ASSUME NEW q \in Ops, op'[q] = op[q], net'[q] = net[q]
      PROVE  net'[q] = -(HeldAmount(q) + SpentAmount(q))'
  BY <1>a, <1>b DEF HeldAmount, SpentAmount
<1>1. ASSUME NEW o \in Ops, NEW r \in ReserveRequest, Reserve(o, r) PROVE AuditTrailMatchesRow'
  <2>1. /\ op'[o].status = "RESERVED" /\ op'[o].amt = r.amt
        /\ net'[o] = net[o] - r.amt /\ r.amt \in Nat
        /\ \A q \in Ops : q # o => op'[q] = op[q] /\ net'[q] = net[q]
    BY <1>1, ReserveEffect
  <2>2. op[o].status = "NONE"
    BY <1>1 DEF Reserve
  <2>3. net'[o] = -(HeldAmount(o) + SpentAmount(o))'
    BY <1>a, <2>1, <2>2 DEF HeldAmount, SpentAmount, Held
  <2> QED
    BY <1>b, <2>1, <2>3 DEF AuditTrailMatchesRow
<1>3. ASSUME NEW o \in Ops, op[o].status # "NONE", NEW p \in ProviderIds \cup {None},
             NEW outcome \in Dispatched, NEW k \in AttemptKeys, NEW sig \in LoopScopes \cup {None},
             RecordAttempt(o, outcome, k, p, sig)
      PROVE  AuditTrailMatchesRow'
  <2>1. /\ op'[o].status = outcome /\ op'[o].amt = op[o].amt /\ net' = net
        /\ \A q \in Ops : q # o => op'[q] = op[q]
    BY <1>3, RecordAttemptEffect DEF SameTerms
  <2>2. op[o].status \notin Terminal /\ op[o].status \in Status
    BY <1>3, RowTypes DEF RecordAttempt
  <2>3. net'[o] = -(HeldAmount(o) + SpentAmount(o))'
    BY <1>a, <1>3, <2>1, <2>2 DEF HeldAmount, SpentAmount, Held, Status, Terminal, Dispatched
  <2> QED
    BY <1>b, <2>1, <2>3 DEF AuditTrailMatchesRow
<1>5. ASSUME NEW o \in Ops, op[o].status # "NONE", NEW p \in ProviderIds \cup {None},
             NEW cost \in ActualCosts, NEW k \in AttemptKeys \cup {None},
             FinalizeSettlement(o, cost, k, p)
      PROVE  AuditTrailMatchesRow'
  <2>1. /\ net'[o] = net[o] + WalletDelta(o, cost) /\ cost \in Nat
        /\ \A q \in Ops : q # o => op'[q] = op[q] /\ net'[q] = net[q]
    BY <1>5, SettleEffect
  <2>2. /\ SpentAmount(o) = 0 /\ HeldAmount(o)' = 0 /\ SpentAmount(o)' = cost
        /\ WalletDelta(o, cost) = HeldAmount(o) - cost
    BY <1>5, SettleAmounts
  <2>3. HeldAmount(o) \in Nat
    BY <1>a DEF HeldAmount
  <2>4. net'[o] = -(HeldAmount(o)' + SpentAmount(o)')
    BY <1>a, <2>1, <2>2, <2>3
  <2> QED
    BY <1>b, <2>1, <2>4 DEF AuditTrailMatchesRow
<1>7. ASSUME NEW S \in SUBSET Ops, Sweep(S) PROVE AuditTrailMatchesRow'
  <2>1. ASSUME NEW q \in Ops
        PROVE  /\ op'[q].amt = op[q].amt
               /\ q \notin S => op'[q] = op[q] /\ net'[q] = net[q]
               /\ q \in S => /\ op[q].status \in Sweepable
                             /\ op'[q].status = IF Strands(q) THEN "STRANDED" ELSE "EXPIRED"
                             /\ net'[q] = net[q] + IF Strands(q) THEN 0 ELSE op[q].amt
    BY <1>7, SweepEffect DEF SameTerms
  <2>2. ASSUME NEW q \in S PROVE net'[q] = -(HeldAmount(q) + SpentAmount(q))'
    BY <1>a, <2>1 DEF HeldAmount, SpentAmount, Held, Sweepable
  <2> QED
    BY <1>b, <2>1, <2>2 DEF AuditTrailMatchesRow
<1>8. ASSUME op' = op, net' = net PROVE AuditTrailMatchesRow'
  BY <1>8, <1>b DEF AuditTrailMatchesRow
<1>2. ASSUME NEW o \in Ops, NEW r \in ReserveRequest, ReserveNeedsApproval(o, r)
      PROVE  AuditTrailMatchesRow'
  BY <1>2, <1>8 DEF ReserveNeedsApproval
<1>4. ASSUME NEW o \in Ops, NEW sig, LoopBlocked(o, sig) PROVE AuditTrailMatchesRow'
  BY <1>4, <1>8 DEF LoopBlocked
<1>6. ASSUME NEW o \in Ops, TtlElapses(o) PROVE AuditTrailMatchesRow'
  BY <1>6, <1>8 DEF TtlElapses
<1>9. CASE UNCHANGED vars
  BY <1>8, <1>9 DEF vars
<1> QED
  BY <1>1, <1>2, <1>3, <1>4, <1>5, <1>6, <1>7, <1>9, LoadedExists
     DEF Next, ReserveStep, ApprovalStep, AttemptStep, LoopStep, SettleStep, TtlStep, SweepStep

(* The amount_delta values on record for an operation always explain what  *)
(* it holds or has cost: no refund, correction or expiry is recorded twice *)
(* or not at all.                                                          *)
THEOREM AuditTrailExact == Spec => []AuditTrailMatchesRow
<1>1. Init => AuditTrailMatchesRow
  BY DEF Init, AuditTrailMatchesRow, HeldAmount, SpentAmount, NoOperation, Held
<1>2. TypeOK /\ RowsConsistent /\ AuditTrailMatchesRow /\ [Next]_vars => AuditTrailMatchesRow'
  BY AuditStep
<1> QED
  BY <1>1, <1>2, TypeCorrect, RowsStayConsistent, PTL DEF Spec

(* A sweep takes out of the held columns exactly what it refunds.          *)
LEMMA SweepSums ==
    ASSUME TypeOK, RowsConsistent, AttemptsOwned, NEW S \in SUBSET Ops, Sweep(S)
    PROVE  /\ \A u \in Users : SumTo(UserCharges(u), NumOps)
                                 = SumTo(UserCharges(u)', NumOps) + RefundsTo(S, u)
           /\ \A t \in Traces : /\ SumTo(TraceHolds(t), NumOps)
                                     = SumTo(TraceHolds(t)', NumOps) + ReleasedOn(S, t)
                                /\ SumTo(TraceCosts(t)', NumOps) = SumTo(TraceCosts(t), NumOps)
           /\ \A s \in Scopes : SumTo(ScopeCharges(s)', NumOps) = SumTo(ScopeCharges(s), NumOps)
<1>0. NumOps \in Nat
  BY ConstantsAssumption
<1>1. op' \in [Ops -> Operation] /\ events' \in [Ops -> [EventTypes -> Nat]]
  BY SweepEffect
<1>2. ASSUME NEW q \in Ops
      PROVE  /\ op[q].amt \in Nat /\ op[q].actual \in Nat
             /\ op'[q].amt = op[q].amt /\ op'[q].actual = op[q].actual
             /\ op'[q].user = op[q].user /\ op'[q].trace = op[q].trace /\ op'[q].scopes = op[q].scopes
             /\ q \notin S => op'[q] = op[q] /\ events'[q] = events[q]
             /\ q \in S => /\ op[q].status \in Sweepable
                           /\ op'[q].status = IF Strands(q) THEN "STRANDED" ELSE "EXPIRED"
                           /\ events'[q]["EXPIRED_SWEEP"] =
                                events[q]["EXPIRED_SWEEP"] + IF Strands(q) THEN 0 ELSE 1
  BY SweepEffect, RowTypes DEF SameTerms
<1>3. ASSUME NEW q \in Ops
      PROVE  /\ HeldAmount(q) = HeldAmount(q)' + IF q \in S /\ ~Strands(q) THEN op[q].amt ELSE 0
             /\ SpentAmount(q)' = SpentAmount(q)
             /\ ScopeCharge(q)' = ScopeCharge(q)
             /\ HeldAmount(q)' \in Nat /\ SpentAmount(q) \in Nat
  <2>1. /\ HeldAmount(q) = HeldAmount(q)' + IF q \in S /\ ~Strands(q) THEN op[q].amt ELSE 0
        /\ SpentAmount(q)' = SpentAmount(q)
        /\ HeldAmount(q)' \in Nat /\ SpentAmount(q) \in Nat
    BY <1>2 DEF HeldAmount, SpentAmount, Held, Sweepable
  <2>2. q \in S => events[q]["EXPIRED_SWEEP"] = 0
    BY <1>2 DEF RowsConsistent, RowConsistent, Sweepable, Held
  <2>3. ScopeCharge(q)' = ScopeCharge(q)
    BY <1>2, <2>1, <2>2 DEF ScopeCharge, Held, Sweepable
  <2> QED
    BY <2>1, <2>3
<1>4. ASSUME NEW u \in Users
      PROVE  SumTo(UserCharges(u), NumOps) = SumTo(UserCharges(u)', NumOps) + RefundsTo(S, u)
  <2>1. UserCharges(u) \in [1..NumOps -> Int] /\ UserCharges(u)' \in [1..NumOps -> Int]
    BY <1>1, ChargeColumns
  <2>2. UserRefunds(S, u) \in [1..NumOps -> Int]
    BY <1>2 DEF UserRefunds, Ops
  <2>3. \A q \in 1..NumOps : UserCharges(u)[q] = UserCharges(u)'[q] + UserRefunds(S, u)[q]
    BY <1>2, <1>3 DEF UserCharges, UserRefunds, Ops
  <2> QED
    BY <1>0, <2>1, <2>2, <2>3, SumAdd DEF RefundsTo
<1>5. ASSUME NEW t \in Traces
      PROVE  /\ SumTo(TraceHolds(t), NumOps) = SumTo(TraceHolds(t)', NumOps) + ReleasedOn(S, t)
             /\ SumTo(TraceCosts(t)', NumOps) = SumTo(TraceCosts(t), NumOps)
  <2>1. /\ TraceHolds(t) \in [1..NumOps -> Int] /\ TraceHolds(t)' \in [1..NumOps -> Int]
        /\ TraceCosts(t) \in [1..NumOps -> Int] /\ TraceCosts(t)' \in [1..NumOps -> Int]
    BY <1>1, ChargeColumns
  <2>2. TraceReleases(S, t) \in [1..NumOps -> Int]
    BY <1>2 DEF TraceReleases, Ops
  <2>3. \A q \in 1..NumOps : TraceHolds(t)[q] = TraceHolds(t)'[q] + TraceReleases(S, t)[q]
    BY <1>2, <1>3 DEF TraceHolds, TraceReleases, Ops
  <2>4. \A q \in 1..NumOps : TraceCosts(t)'[q] = TraceCosts(t)[q]
    BY <1>2, <1>3 DEF TraceCosts, Ops
  <2>5. SumTo(TraceHolds(t), NumOps) = SumTo(TraceHolds(t)', NumOps) + ReleasedOn(S, t)
    BY <1>0, <2>1, <2>2, <2>3, SumAdd DEF ReleasedOn
  <2>6. SumTo(TraceCosts(t)', NumOps) = SumTo(TraceCosts(t), NumOps)
    BY <1>0, <2>1, <2>4, SumSame
  <2> QED
    BY <2>5, <2>6
<1>6. ASSUME NEW s \in Scopes
      PROVE  SumTo(ScopeCharges(s)', NumOps) = SumTo(ScopeCharges(s), NumOps)
  <2>1. ScopeCharges(s) \in [1..NumOps -> Int] /\ ScopeCharges(s)' \in [1..NumOps -> Int]
    BY <1>1, ChargeColumns
  <2>2. \A q \in 1..NumOps : ScopeCharges(s)'[q] = ScopeCharges(s)[q]
    BY <1>2, <1>3 DEF ScopeCharges, Ops
  <2> QED
    BY <1>0, <2>1, <2>2, SumSame
<1> QED
  BY <1>4, <1>5, <1>6

(* The wallets, step by step.                                              *)
LEMMA FundsStep ==
    ASSUME TypeOK, RowsConsistent, AttemptsOwned, FundsConserved, [Next]_vars
    PROVE  FundsConserved'
<1>a. ASSUME NEW u \in Users
      PROVE  /\ wallet[u].balance + SumTo(UserCharges(u), NumOps) = InitialBalance[u]
             /\ SumTo(UserCharges(u), NumOps) \in Int
             /\ wallet[u].balance \in Int
  BY SumsAreInts DEF FundsConserved, TypeOK
<1>w. wallet \in [Users -> [balance: Nat, active: BOOLEAN]]
  BY DEF TypeOK
<1>1. ASSUME NEW o \in Ops, NEW r \in ReserveRequest, Reserve(o, r) PROVE FundsConserved'
  <2>1. /\ op' \in [Ops -> Operation] /\ events' \in [Ops -> [EventTypes -> Nat]]
        /\ op'[o].status = "RESERVED" /\ op'[o].amt = r.amt /\ op'[o].user = r.user
        /\ r.amt \in Nat /\ r.user \in Users
        /\ \A q \in Ops : q # o => op'[q] = op[q] /\ events'[q] = events[q]
    BY <1>1, ReserveEffect
  <2>2. /\ op[o].status = "NONE"
        /\ wallet' = [wallet EXCEPT ![r.user] = [balance |-> @.balance - r.amt, active |-> @.active]]
    BY <1>1 DEF Reserve
  <2>3. ASSUME NEW u \in Users
        PROVE  wallet'[u].balance + SumTo(UserCharges(u)', NumOps) = InitialBalance[u]
    <3>1. SumTo(UserCharges(u)', NumOps)
            = SumTo(UserCharges(u), NumOps) + (UserCharges(u)'[o] - UserCharges(u)[o])
      BY <2>1, OneRowChanges
    <3>2. UserCharges(u)[o] = 0
      BY <2>2 DEF UserCharges, HeldAmount, SpentAmount, Held
    <3>3. UserCharges(u)'[o] = IF u = r.user THEN r.amt ELSE 0
      BY <2>1 DEF UserCharges, HeldAmount, SpentAmount, Held
    <3>4. wallet'[u].balance = wallet[u].balance - IF u = r.user THEN r.amt ELSE 0
      BY <1>w, <2>1, <2>2
    <3> QED
      BY <1>a, <2>1, <3>1, <3>2, <3>3, <3>4
  <2> QED
    BY <2>3 DEF FundsConserved
<1>3. ASSUME NEW o \in Ops, op[o].status # "NONE", NEW p \in ProviderIds \cup {None},
             NEW outcome \in Dispatched, NEW k \in AttemptKeys, NEW sig \in LoopScopes \cup {None},
             RecordAttempt(o, outcome, k, p, sig)
      PROVE  FundsConserved'
  <2>1. /\ op' \in [Ops -> Operation] /\ events' \in [Ops -> [EventTypes -> Nat]]
        /\ op'[o].status = outcome /\ op'[o].amt = op[o].amt /\ op'[o].user = op[o].user
        /\ \A q \in Ops : q # o => op'[q] = op[q] /\ events'[q] = events[q]
    BY <1>3, RecordAttemptEffect DEF SameTerms
  <2>2. op[o].status \notin Terminal /\ wallet' = wallet /\ op[o].status \in Status /\ op[o].amt \in Nat
    BY <1>3, RowTypes DEF RecordAttempt
  <2>3. ASSUME NEW u \in Users
        PROVE  wallet'[u].balance + SumTo(UserCharges(u)', NumOps) = InitialBalance[u]
    <3>1. SumTo(UserCharges(u)', NumOps)
            = SumTo(UserCharges(u), NumOps) + (UserCharges(u)'[o] - UserCharges(u)[o])
      BY <2>1, OneRowChanges
    <3>2. UserCharges(u)'[o] = UserCharges(u)[o] /\ UserCharges(u)[o] \in Int
      BY <1>3, <2>1, <2>2 DEF UserCharges, HeldAmount, SpentAmount, Held, Status, Terminal, Dispatched
    <3> QED
      BY <1>a, <2>2, <3>1, <3>2
  <2> QED
    BY <2>3 DEF FundsConserved
<1>5. ASSUME NEW o \in Ops, op[o].status # "NONE", NEW p \in ProviderIds \cup {None},
             NEW cost \in ActualCosts, NEW k \in AttemptKeys \cup {None},
             FinalizeSettlement(o, cost, k, p)
      PROVE  FundsConserved'
  <2>1. /\ op' \in [Ops -> Operation] /\ events' \in [Ops -> [EventTypes -> Nat]]
        /\ op'[o].user = op[o].user /\ cost \in Nat /\ op[o].user \in Users
        /\ \A q \in Ops : q # o => op'[q] = op[q] /\ events'[q] = events[q]
        /\ WalletDelta(o, cost) \in Int
    BY <1>5, SettleEffect, RowTypes DEF SameTerms
  <2>2. /\ SpentAmount(o) = 0 /\ HeldAmount(o)' = 0 /\ SpentAmount(o)' = cost
        /\ WalletDelta(o, cost) = HeldAmount(o) - cost
    BY <1>5, SettleAmounts
  <2>3. HeldAmount(o) \in Nat
    BY RowTypes DEF HeldAmount
  <2>4. wallet' = [wallet EXCEPT ![op[o].user] =
                    [balance |-> @.balance + WalletDelta(o, cost),
                     active |-> @.active /\ ~DriftExceedsTolerance(cost - op[o].amt, op[o].amt)]]
    BY <1>5 DEF FinalizeSettlement
  <2>5. ASSUME NEW u \in Users
        PROVE  wallet'[u].balance + SumTo(UserCharges(u)', NumOps) = InitialBalance[u]
    <3>1. SumTo(UserCharges(u)', NumOps)
            = SumTo(UserCharges(u), NumOps) + (UserCharges(u)'[o] - UserCharges(u)[o])
      BY <2>1, OneRowChanges
    <3>2. UserCharges(u)[o] = IF u = op[o].user THEN HeldAmount(o) ELSE 0
      BY <2>2, <2>3 DEF UserCharges
    <3>3. UserCharges(u)'[o] = IF u = op[o].user THEN cost ELSE 0
      BY <2>1, <2>2 DEF UserCharges
    <3>4. wallet'[u].balance = wallet[u].balance + IF u = op[o].user THEN WalletDelta(o, cost) ELSE 0
      BY <1>w, <2>1, <2>4
    <3> QED
      BY <1>a, <2>1, <2>2, <2>3, <3>1, <3>2, <3>3, <3>4
  <2> QED
    BY <2>5 DEF FundsConserved
<1>7. ASSUME NEW S \in SUBSET Ops, Sweep(S) PROVE FundsConserved'
  <2>1. ASSUME NEW u \in Users
        PROVE  wallet'[u].balance + SumTo(UserCharges(u)', NumOps) = InitialBalance[u]
    <3>1. SumTo(UserCharges(u), NumOps) = SumTo(UserCharges(u)', NumOps) + RefundsTo(S, u)
      BY <1>7, SweepSums
    <3>2. RefundsTo(S, u) \in Int
      BY SweepAmounts
    <3>3. SumTo(UserCharges(u)', NumOps) \in Int
      <4>1. UserCharges(u)' \in [1..NumOps -> Int]
        BY <1>7, SweepEffect, ChargeColumns
      <4> QED
        BY <4>1, SumInt, ConstantsAssumption
    <3>4. wallet'[u].balance = wallet[u].balance + RefundsTo(S, u)
      BY <1>7 DEF Sweep
    <3> QED
      BY <1>a, <3>1, <3>2, <3>3, <3>4
  <2> QED
    BY <2>1 DEF FundsConserved
<1>8. ASSUME op' = op, wallet' = wallet PROVE FundsConserved'
  BY <1>8 DEF FundsConserved, UserCharges, HeldAmount, SpentAmount
<1>2. ASSUME NEW o \in Ops, NEW r \in ReserveRequest, ReserveNeedsApproval(o, r) PROVE FundsConserved'
  BY <1>2, <1>8 DEF ReserveNeedsApproval
<1>4. ASSUME NEW o \in Ops, NEW sig, LoopBlocked(o, sig) PROVE FundsConserved'
  BY <1>4, <1>8 DEF LoopBlocked
<1>6. ASSUME NEW o \in Ops, TtlElapses(o) PROVE FundsConserved'
  BY <1>6, <1>8 DEF TtlElapses
<1>9. CASE UNCHANGED vars
  BY <1>8, <1>9 DEF vars
<1> QED
  BY <1>1, <1>2, <1>3, <1>4, <1>5, <1>6, <1>7, <1>9, LoadedExists
     DEF Next, ReserveStep, ApprovalStep, AttemptStep, LoopStep, SettleStep, TtlStep, SweepStep

(* No money is made or lost: after any history of reserve, settle, late    *)
(* settle and sweep transactions a wallet's balance, its holds and its     *)
(* settled costs add up to what it was funded with.                        *)
THEOREM FundsAreConserved == Spec => []FundsConserved
<1>1. Init => FundsConserved
  <2> SUFFICES ASSUME Init, NEW u \in Users
               PROVE  wallet[u].balance + SumTo(UserCharges(u), NumOps) = InitialBalance[u]
    BY DEF FundsConserved
  <2>1. UserCharges(u) \in [1..NumOps -> Int] /\ \A i \in 1..NumOps : UserCharges(u)[i] = 0
    BY DEF Init, UserCharges, HeldAmount, SpentAmount, NoOperation, Held, Ops
  <2>2. SumTo(UserCharges(u), NumOps) = 0
    BY <2>1, SumOfZeros, ConstantsAssumption
  <2>3. wallet[u].balance = InitialBalance[u] /\ InitialBalance[u] \in Nat
    BY ConstantsAssumption DEF Init
  <2> QED
    BY <2>2, <2>3
<1>2. TypeOK /\ RowsConsistent /\ AttemptsOwned /\ FundsConserved /\ [Next]_vars => FundsConserved'
  BY FundsStep
<1> QED
  BY <1>1, <1>2, TypeCorrect, RowsStayConsistent, PTL DEF Spec

(* The trace budget rows, step by step.                                    *)
LEMMA TraceStep ==
    ASSUME TypeOK, RowsConsistent, AttemptsOwned, TraceTotalsExact, [Next]_vars
    PROVE  TraceTotalsExact'
<1>t. trace \in [Traces -> [cap: Nat, reserved: Nat, settled: Nat]]
  BY DEF TypeOK
<1>a. ASSUME NEW t \in Traces
      PROVE  /\ trace[t].reserved = SumTo(TraceHolds(t), NumOps)
             /\ trace[t].settled = SumTo(TraceCosts(t), NumOps)
             /\ trace[t].reserved <= trace[t].cap
             /\ trace[t].cap \in Nat /\ trace[t].reserved \in Nat /\ trace[t].settled \in Nat
  BY <1>t DEF TraceTotalsExact
<1>1. ASSUME NEW o \in Ops, NEW r \in ReserveRequest, Reserve(o, r) PROVE TraceTotalsExact'
  <2>1. /\ op' \in [Ops -> Operation] /\ events' \in [Ops -> [EventTypes -> Nat]]
        /\ op'[o].status = "RESERVED" /\ op'[o].amt = r.amt /\ op'[o].trace = r.trace
        /\ r.amt \in Nat /\ r.cap \in Nat /\ r.trace \in Traces
        /\ \A q \in Ops : q # o => op'[q] = op[q] /\ events'[q] = events[q]
    BY <1>1, ReserveEffect
  <2>2. /\ op[o].status = "NONE"
        /\ trace' = [trace EXCEPT ![r.trace] =
                       [cap |-> r.cap, reserved |-> @.reserved + r.amt, settled |-> @.settled]]
        /\ trace[r.trace].reserved + r.amt <= r.cap
    BY <1>1 DEF Reserve, TraceClaimFits
  <2>3. ASSUME NEW t \in Traces
        PROVE  /\ trace'[t].reserved = SumTo(TraceHolds(t)', NumOps)
               /\ trace'[t].settled = SumTo(TraceCosts(t)', NumOps)
               /\ trace'[t].reserved <= trace'[t].cap
    <3>1. /\ SumTo(TraceHolds(t)', NumOps)
               = SumTo(TraceHolds(t), NumOps) + (TraceHolds(t)'[o] - TraceHolds(t)[o])
          /\ SumTo(TraceCosts(t)', NumOps)
               = SumTo(TraceCosts(t), NumOps) + (TraceCosts(t)'[o] - TraceCosts(t)[o])
      BY <2>1, OneRowChanges
    <3>2. TraceHolds(t)[o] = 0 /\ TraceCosts(t)[o] = 0
      BY <2>2 DEF TraceHolds, TraceCosts, HeldAmount, SpentAmount, Held
    <3>3. TraceHolds(t)'[o] = (IF t = r.trace THEN r.amt ELSE 0) /\ TraceCosts(t)'[o] = 0
      BY <2>1 DEF TraceHolds, TraceCosts, HeldAmount, SpentAmount, Held
    <3>4. trace'[t] = IF t = r.trace
                      THEN [cap |-> r.cap, reserved |-> trace[t].reserved + r.amt,
                            settled |-> trace[t].settled]
                      ELSE trace[t]
      BY <1>t, <2>1, <2>2
    <3>5. CASE t = r.trace
      BY <1>a, <2>1, <2>2, <3>1, <3>2, <3>3, <3>4, <3>5
    <3>6. CASE t # r.trace
      BY <1>a, <2>1, <2>2, <3>1, <3>2, <3>3, <3>4, <3>6
    <3> QED
      BY <3>5, <3>6
  <2> QED
    BY <2>3 DEF TraceTotalsExact
<1>3. ASSUME NEW o \in Ops, op[o].status # "NONE", NEW p \in ProviderIds \cup {None},
             NEW outcome \in Dispatched, NEW k \in AttemptKeys, NEW sig \in LoopScopes \cup {None},
             RecordAttempt(o, outcome, k, p, sig)
      PROVE  TraceTotalsExact'
  <2>1. /\ op' \in [Ops -> Operation] /\ events' \in [Ops -> [EventTypes -> Nat]]
        /\ op'[o].status = outcome /\ op'[o].amt = op[o].amt /\ op'[o].trace = op[o].trace
        /\ \A q \in Ops : q # o => op'[q] = op[q] /\ events'[q] = events[q]
    BY <1>3, RecordAttemptEffect DEF SameTerms
  <2>2. op[o].status \notin Terminal /\ trace' = trace /\ op[o].status \in Status /\ op[o].amt \in Nat
    BY <1>3, RowTypes DEF RecordAttempt
  <2>3. ASSUME NEW t \in Traces
        PROVE  /\ trace'[t].reserved = SumTo(TraceHolds(t)', NumOps)
               /\ trace'[t].settled = SumTo(TraceCosts(t)', NumOps)
               /\ trace'[t].reserved <= trace'[t].cap
    <3>1. /\ SumTo(TraceHolds(t)', NumOps)
               = SumTo(TraceHolds(t), NumOps) + (TraceHolds(t)'[o] - TraceHolds(t)[o])
          /\ SumTo(TraceCosts(t)', NumOps)
               = SumTo(TraceCosts(t), NumOps) + (TraceCosts(t)'[o] - TraceCosts(t)[o])
      BY <2>1, OneRowChanges
    <3>2. /\ TraceHolds(t)'[o] = TraceHolds(t)[o] /\ TraceHolds(t)[o] \in Int
          /\ TraceCosts(t)'[o] = TraceCosts(t)[o] /\ TraceCosts(t)[o] \in Int
      BY <1>3, <2>1, <2>2
         DEF TraceHolds, TraceCosts, HeldAmount, SpentAmount, Held, Status, Terminal, Dispatched
    <3> QED
      BY <1>a, <2>2, <3>1, <3>2
  <2> QED
    BY <2>3 DEF TraceTotalsExact
<1>5. ASSUME NEW o \in Ops, op[o].status # "NONE", NEW p \in ProviderIds \cup {None},
             NEW cost \in ActualCosts, NEW k \in AttemptKeys \cup {None},
             FinalizeSettlement(o, cost, k, p)
      PROVE  TraceTotalsExact'
  <2>1. /\ op' \in [Ops -> Operation] /\ events' \in [Ops -> [EventTypes -> Nat]]
        /\ op'[o].trace = op[o].trace /\ cost \in Nat /\ op[o].trace \in Traces
        /\ \A q \in Ops : q # o => op'[q] = op[q] /\ events'[q] = events[q]
    BY <1>5, SettleEffect, RowTypes DEF SameTerms
  <2>2. /\ SpentAmount(o) = 0 /\ HeldAmount(o)' = 0 /\ SpentAmount(o)' = cost
        /\ HeldAmount(o) = IF StillHeld(o) THEN op[o].amt ELSE 0
    BY <1>5, SettleAmounts
  <2>3. HeldAmount(o) \in Nat
    BY RowTypes DEF HeldAmount
  <2>4. trace' = [trace EXCEPT ![op[o].trace] =
                   [cap |-> @.cap, reserved |-> @.reserved - HeldAmount(o), settled |-> @.settled + cost]]
    BY <1>5, <2>2 DEF FinalizeSettlement
  <2>5. ASSUME NEW t \in Traces
        PROVE  /\ trace'[t].reserved = SumTo(TraceHolds(t)', NumOps)
               /\ trace'[t].settled = SumTo(TraceCosts(t)', NumOps)
               /\ trace'[t].reserved <= trace'[t].cap
    <3>1. /\ SumTo(TraceHolds(t)', NumOps)
               = SumTo(TraceHolds(t), NumOps) + (TraceHolds(t)'[o] - TraceHolds(t)[o])
          /\ SumTo(TraceCosts(t)', NumOps)
               = SumTo(TraceCosts(t), NumOps) + (TraceCosts(t)'[o] - TraceCosts(t)[o])
      BY <2>1, OneRowChanges
    <3>2. /\ TraceHolds(t)[o] = (IF t = op[o].trace THEN HeldAmount(o) ELSE 0)
          /\ TraceCosts(t)[o] = 0
      BY <2>2 DEF TraceHolds, TraceCosts
    <3>3. /\ TraceHolds(t)'[o] = 0
          /\ TraceCosts(t)'[o] = (IF t = op[o].trace THEN cost ELSE 0)
      BY <2>1, <2>2 DEF TraceHolds, TraceCosts
    <3>4. trace'[t] = IF t = op[o].trace
                      THEN [cap |-> trace[t].cap, reserved |-> trace[t].reserved - HeldAmount(o),
                            settled |-> trace[t].settled + cost]
                      ELSE trace[t]
      BY <1>t, <2>1, <2>4
    <3>5. CASE t = op[o].trace
      BY <1>a, <2>1, <2>3, <3>1, <3>2, <3>3, <3>4, <3>5
    <3>6. CASE t # op[o].trace
      BY <1>a, <2>1, <2>3, <3>1, <3>2, <3>3, <3>4, <3>6
    <3> QED
      BY <3>5, <3>6
  <2> QED
    BY <2>5 DEF TraceTotalsExact
<1>7. ASSUME NEW S \in SUBSET Ops, Sweep(S) PROVE TraceTotalsExact'
  <2>1. ASSUME NEW t \in Traces
        PROVE  /\ trace'[t].reserved = SumTo(TraceHolds(t)', NumOps)
               /\ trace'[t].settled = SumTo(TraceCosts(t)', NumOps)
               /\ trace'[t].reserved <= trace'[t].cap
    <3>1. /\ SumTo(TraceHolds(t), NumOps) = SumTo(TraceHolds(t)', NumOps) + ReleasedOn(S, t)
          /\ SumTo(TraceCosts(t)', NumOps) = SumTo(TraceCosts(t), NumOps)
      BY <1>7, SweepSums
    <3>2. ReleasedOn(S, t) \in Nat
      BY SweepAmounts
    <3>3. SumTo(TraceHolds(t)', NumOps) \in Int
      <4>1. TraceHolds(t)' \in [1..NumOps -> Int]
        BY <1>7, SweepEffect, ChargeColumns
      <4> QED
        BY <4>1, SumInt, ConstantsAssumption
    <3>4. trace'[t] = [cap |-> trace[t].cap, reserved |-> trace[t].reserved - ReleasedOn(S, t),
                       settled |-> trace[t].settled]
      BY <1>7 DEF Sweep
    <3> QED
      BY <1>a, <3>1, <3>2, <3>3, <3>4
  <2> QED
    BY <2>1 DEF TraceTotalsExact
<1>8. ASSUME op' = op, trace' = trace PROVE TraceTotalsExact'
  BY <1>8 DEF TraceTotalsExact, TraceHolds, TraceCosts, HeldAmount, SpentAmount
<1>2. ASSUME NEW o \in Ops, NEW r \in ReserveRequest, ReserveNeedsApproval(o, r)
      PROVE  TraceTotalsExact'
  BY <1>2, <1>8 DEF ReserveNeedsApproval
<1>4. ASSUME NEW o \in Ops, NEW sig, LoopBlocked(o, sig) PROVE TraceTotalsExact'
  BY <1>4, <1>8 DEF LoopBlocked
<1>6. ASSUME NEW o \in Ops, TtlElapses(o) PROVE TraceTotalsExact'
  BY <1>6, <1>8 DEF TtlElapses
<1>9. CASE UNCHANGED vars
  BY <1>8, <1>9 DEF vars
<1> QED
  BY <1>1, <1>2, <1>3, <1>4, <1>5, <1>6, <1>7, <1>9, LoadedExists
     DEF Next, ReserveStep, ApprovalStep, AttemptStep, LoopStep, SettleStep, TtlStep, SweepStep

(* trace_budget_state is exactly the sum of the escrow rows of the trace,  *)
(* and what is reserved on a trace never passes its cap.                   *)
THEOREM TraceTotalsAreExact == Spec => []TraceTotalsExact
<1>1. Init => TraceTotalsExact
  <2> SUFFICES ASSUME Init, NEW t \in Traces
               PROVE  /\ trace[t].reserved = SumTo(TraceHolds(t), NumOps)
                      /\ trace[t].settled = SumTo(TraceCosts(t), NumOps)
                      /\ trace[t].reserved <= trace[t].cap
    BY DEF TraceTotalsExact
  <2>1. TraceHolds(t) \in [1..NumOps -> Int] /\ \A i \in 1..NumOps : TraceHolds(t)[i] = 0
    BY DEF Init, TraceHolds, HeldAmount, NoOperation, Held, Ops
  <2>2. TraceCosts(t) \in [1..NumOps -> Int] /\ \A i \in 1..NumOps : TraceCosts(t)[i] = 0
    BY DEF Init, TraceCosts, SpentAmount, NoOperation, Ops
  <2>3. SumTo(TraceHolds(t), NumOps) = 0 /\ SumTo(TraceCosts(t), NumOps) = 0
    BY <2>1, <2>2, SumOfZeros, ConstantsAssumption
  <2> QED
    BY <2>3 DEF Init, NoTrace
<1>2. TypeOK /\ RowsConsistent /\ AttemptsOwned /\ TraceTotalsExact /\ [Next]_vars => TraceTotalsExact'
  BY TraceStep
<1> QED
  BY <1>1, <1>2, TypeCorrect, RowsStayConsistent, PTL DEF Spec

(* The budget scope rows, step by step.                                    *)
LEMMA ScopeStep ==
    ASSUME TypeOK, RowsConsistent, AttemptsOwned, ScopeConsumptionExact, [Next]_vars
    PROVE  ScopeConsumptionExact'
<1>s. scope \in [Scopes -> [cap: Nat, consumed: Nat]]
  BY DEF TypeOK
<1>a. ASSUME NEW s \in Scopes
      PROVE  /\ scope[s].consumed = SumTo(ScopeCharges(s), NumOps)
             /\ scope[s].consumed <= scope[s].cap
             /\ scope[s].cap \in Nat /\ scope[s].consumed \in Nat
  BY <1>s DEF ScopeConsumptionExact
<1>1. ASSUME NEW o \in Ops, NEW r \in ReserveRequest, Reserve(o, r) PROVE ScopeConsumptionExact'
  <2>1. /\ op' \in [Ops -> Operation] /\ events' \in [Ops -> [EventTypes -> Nat]]
        /\ op'[o].status = "RESERVED" /\ op'[o].amt = r.amt /\ op'[o].scopes = r.scopes
        /\ r.amt \in Nat /\ r.caps \in [Scopes -> Nat]
        /\ \A q \in Ops : q # o => op'[q] = op[q] /\ events'[q] = events[q]
    BY <1>1, ReserveEffect
  <2>2. /\ op[o].status = "NONE"
        /\ BudgetDeltaFits(r.scopes, r.caps, r.amt)
        /\ ApplyBudgetDelta(r.scopes, r.caps, r.amt)
    BY <1>1 DEF Reserve
  <2>3. op[o].scopes = {}
    BY <2>2 DEF RowsConsistent, RowConsistent, NoOperation
  <2>4. ASSUME NEW s \in Scopes
        PROVE  scope'[s].consumed = SumTo(ScopeCharges(s)', NumOps) /\ scope'[s].consumed <= scope'[s].cap
    <3>1. SumTo(ScopeCharges(s)', NumOps)
            = SumTo(ScopeCharges(s), NumOps) + (ScopeCharges(s)'[o] - ScopeCharges(s)[o])
      BY <2>1, OneRowChanges
    <3>2. ScopeCharges(s)[o] = 0
      BY <2>3 DEF ScopeCharges
    <3>3. ScopeCharges(s)'[o] = IF s \in r.scopes THEN r.amt ELSE 0
      BY <2>1 DEF ScopeCharges, ScopeCharge, SpentAmount, Held
    <3>4. CASE s \in r.scopes
      <4>1. /\ scope'[s] = [cap |-> ScopeCap(s, r.caps), consumed |-> scope[s].consumed + r.amt]
            /\ scope[s].consumed + r.amt <= ScopeCap(s, r.caps)
        BY <2>2, <3>4 DEF ApplyBudgetDelta, BudgetDeltaFits
      <4> QED
        BY <1>a, <2>1, <3>1, <3>2, <3>3, <3>4, <4>1
    <3>5. CASE s \notin r.scopes
      <4>1. scope'[s] = scope[s]
        BY <2>2, <3>5 DEF ApplyBudgetDelta
      <4> QED
        BY <1>a, <2>1, <3>1, <3>2, <3>3, <3>5, <4>1
    <3> QED
      BY <3>4, <3>5
  <2> QED
    BY <2>4 DEF ScopeConsumptionExact
<1>3. ASSUME NEW o \in Ops, op[o].status # "NONE", NEW p \in ProviderIds \cup {None},
             NEW outcome \in Dispatched, NEW k \in AttemptKeys, NEW sig \in LoopScopes \cup {None},
             RecordAttempt(o, outcome, k, p, sig)
      PROVE  ScopeConsumptionExact'
  <2>1. /\ op' \in [Ops -> Operation] /\ events' \in [Ops -> [EventTypes -> Nat]]
        /\ op'[o].status = outcome /\ op'[o].amt = op[o].amt /\ op'[o].scopes = op[o].scopes
        /\ \A q \in Ops : q # o => op'[q] = op[q] /\ events'[q] = events[q]
    BY <1>3, RecordAttemptEffect DEF SameTerms
  <2>2. op[o].status \notin Terminal /\ scope' = scope /\ op[o].status \in Status /\ op[o].amt \in Nat
    BY <1>3, RowTypes DEF RecordAttempt
  <2>3. op[o].status \in Held
    BY <1>3, <2>2 DEF Held, Status, Terminal
  <2>4. ASSUME NEW s \in Scopes
        PROVE  scope'[s].consumed = SumTo(ScopeCharges(s)', NumOps) /\ scope'[s].consumed <= scope'[s].cap
    <3>1. SumTo(ScopeCharges(s)', NumOps)
            = SumTo(ScopeCharges(s), NumOps) + (ScopeCharges(s)'[o] - ScopeCharges(s)[o])
      BY <2>1, OneRowChanges
    <3>2. ScopeCharges(s)'[o] = ScopeCharges(s)[o] /\ ScopeCharges(s)[o] \in Int
      BY <1>3, <2>1, <2>2, <2>3 DEF ScopeCharges, ScopeCharge, SpentAmount, Held, Dispatched
    <3> QED
      BY <1>a, <2>2, <3>1, <3>2
  <2> QED
    BY <2>4 DEF ScopeConsumptionExact
<1>5. ASSUME NEW o \in Ops, op[o].status # "NONE", NEW p \in ProviderIds \cup {None},
             NEW cost \in ActualCosts, NEW k \in AttemptKeys \cup {None},
             FinalizeSettlement(o, cost, k, p)
      PROVE  ScopeConsumptionExact'
  <2>1. /\ op' \in [Ops -> Operation] /\ events' \in [Ops -> [EventTypes -> Nat]]
        /\ op'[o].scopes = op[o].scopes /\ BudgetDelta(o, cost) \in Int
        /\ \A q \in Ops : q # o => op'[q] = op[q] /\ events'[q] = events[q]
    BY <1>5, SettleEffect DEF SameTerms
  <2>2. BudgetDelta(o, cost) = ScopeCharge(o)' - ScopeCharge(o)
    BY <1>5, SettleAmounts
  <2>3. ScopeCharge(o) \in Nat /\ ScopeCharge(o)' \in Nat
    <3>1. op[o].amt \in Nat /\ cost \in Nat
      BY RowTypes, ConstantsAssumption
    <3> QED
      BY <1>5, <3>1, SettleAmounts
  <2> DEFINE caps == [s \in Scopes |-> scope[s].cap]
  <2>4. /\ BudgetDelta(o, cost) # 0 => BudgetDeltaFits(op[o].scopes, caps, BudgetDelta(o, cost))
        /\ ApplyBudgetDelta(op[o].scopes, caps, BudgetDelta(o, cost))
    BY <1>5 DEF FinalizeSettlement
  <2>5. \A s \in Scopes : ScopeCap(s, caps) = scope[s].cap
    BY DEF ScopeCap
  <2> HIDE DEF caps
  <2>6. ASSUME NEW s \in Scopes
        PROVE  scope'[s].consumed = SumTo(ScopeCharges(s)', NumOps) /\ scope'[s].consumed <= scope'[s].cap
    <3>1. SumTo(ScopeCharges(s)', NumOps)
            = SumTo(ScopeCharges(s), NumOps) + (ScopeCharges(s)'[o] - ScopeCharges(s)[o])
      BY <2>1, OneRowChanges
    <3>2. ScopeCharges(s)[o] = IF s \in op[o].scopes THEN ScopeCharge(o) ELSE 0
      BY DEF ScopeCharges
    <3>3. ScopeCharges(s)'[o] = IF s \in op[o].scopes THEN ScopeCharge(o)' ELSE 0
      BY <2>1 DEF ScopeCharges
    <3>4. CASE s \in op[o].scopes
      <4>1. scope'[s] = [cap |-> scope[s].cap, consumed |-> scope[s].consumed + BudgetDelta(o, cost)]
        BY <2>4, <2>5, <3>4 DEF ApplyBudgetDelta
      <4>2. scope[s].consumed + BudgetDelta(o, cost) <= scope[s].cap
        <5>1. CASE BudgetDelta(o, cost) = 0
          BY <1>a, <5>1
        <5>2. CASE BudgetDelta(o, cost) # 0
          BY <2>4, <2>5, <3>4, <5>2 DEF BudgetDeltaFits
        <5> QED
          BY <5>1, <5>2
      <4> QED
        BY <1>a, <2>2, <2>3, <3>1, <3>2, <3>3, <3>4, <4>1, <4>2
    <3>5. CASE s \notin op[o].scopes
      <4>1. scope'[s] = scope[s]
        BY <2>4, <3>5 DEF ApplyBudgetDelta
      <4> QED
        BY <1>a, <3>1, <3>2, <3>3, <3>5, <4>1
    <3> QED
      BY <3>4, <3>5
  <2> QED
    BY <2>6 DEF ScopeConsumptionExact
<1>7. ASSUME NEW S \in SUBSET Ops, Sweep(S) PROVE ScopeConsumptionExact'
  <2>1. scope' = scope
    BY <1>7 DEF Sweep
  <2>2. \A s \in Scopes : SumTo(ScopeCharges(s)', NumOps) = SumTo(ScopeCharges(s), NumOps)
    BY <1>7, SweepSums
  <2> QED
    BY <1>a, <2>1, <2>2 DEF ScopeConsumptionExact
<1>8. ASSUME op' = op, events' = events, scope' = scope PROVE ScopeConsumptionExact'
  BY <1>8 DEF ScopeConsumptionExact, ScopeCharges, ScopeCharge, SpentAmount
<1>2. ASSUME NEW o \in Ops, NEW r \in ReserveRequest, ReserveNeedsApproval(o, r)
      PROVE  ScopeConsumptionExact'
  BY <1>2, <1>8 DEF ReserveNeedsApproval
<1>4. ASSUME NEW o \in Ops, NEW sig, LoopBlocked(o, sig) PROVE ScopeConsumptionExact'
  BY <1>4, <1>8 DEF LoopBlocked
<1>6. ASSUME NEW o \in Ops, TtlElapses(o) PROVE ScopeConsumptionExact'
  BY <1>6, <1>8 DEF TtlElapses
<1>9. CASE UNCHANGED vars
  BY <1>8, <1>9 DEF vars
<1> QED
  BY <1>1, <1>2, <1>3, <1>4, <1>5, <1>6, <1>7, <1>9, LoadedExists
     DEF Next, ReserveStep, ApprovalStep, AttemptStep, LoopStep, SettleStep, TtlStep, SweepStep

(* budget_scope_state is exactly what its operations consumed, and a scope *)
(* never passes its cap.                                                   *)
THEOREM ScopeConsumptionIsExact == Spec => []ScopeConsumptionExact
<1>1. Init => ScopeConsumptionExact
  <2> SUFFICES ASSUME Init, NEW s \in Scopes
               PROVE  scope[s].consumed = SumTo(ScopeCharges(s), NumOps) /\ scope[s].consumed <= scope[s].cap
    BY DEF ScopeConsumptionExact
  <2>1. ScopeCharges(s) \in [1..NumOps -> Int] /\ \A i \in 1..NumOps : ScopeCharges(s)[i] = 0
    BY DEF Init, ScopeCharges, NoOperation, Ops
  <2>2. SumTo(ScopeCharges(s), NumOps) = 0
    BY <2>1, SumOfZeros, ConstantsAssumption
  <2> QED
    BY <2>2 DEF Init, NoScope
<1>2. TypeOK /\ RowsConsistent /\ AttemptsOwned /\ ScopeConsumptionExact /\ [Next]_vars
        => ScopeConsumptionExact'
  BY ScopeStep
<1> QED
  BY <1>1, <1>2, TypeCorrect, RowsStayConsistent, PTL DEF Spec

-----------------------------------------------------------------------------
(***************************************************************************)
(* Backstops, refunds and finality                                         *)
(***************************************************************************)

(* No two escrow rows, and no two attempt rows, share a provider request   *)
(* id.                                                                     *)
EscrowIdsDistinct ==
    \A o, q \in Ops : o # q /\ op[o].prid # None => op[o].prid # op[q].prid

AttemptIdsDistinct ==
    \A j, k \in AttemptKeys :
        j # k /\ attempt[j].prid # None => attempt[j].prid # attempt[k].prid

IdsDistinct == EscrowIdsDistinct /\ AttemptIdsDistinct

(* A report or a settlement writes its id to the escrow row once the       *)
(* unique index has let it through ...                                     *)
LEMMA EscrowIdWritten ==
    ASSUME EscrowIdsDistinct, NEW o \in Ops, NEW p, EscrowIdFree(o, p),
           op'[o].prid = Coalesce(p, op[o].prid),
           \A q \in Ops : q # o => op'[q] = op[q]
    PROVE  EscrowIdsDistinct'
  BY DEF EscrowIdsDistinct, Coalesce, EscrowIdFree

(* ... and to the attempt row likewise.                                    *)
LEMMA AttemptIdWritten ==
    ASSUME TypeOK, AttemptIdsDistinct, NEW k \in AttemptKeys, NEW o, NEW outcome, NEW p,
           AttemptIdFree(k, p), UpsertAttempt(k, o, outcome, p)
    PROVE  AttemptIdsDistinct'
<1>1. DOMAIN attempt = AttemptKeys
  BY DEF TypeOK
<1>2. /\ attempt'[k].prid = Coalesce(p, attempt[k].prid)
      /\ \A j \in AttemptKeys : j # k => attempt'[j] = attempt[j]
  BY <1>1 DEF UpsertAttempt
<1> QED
  BY <1>2 DEF AttemptIdsDistinct, Coalesce, AttemptIdFree

LEMMA IdsStep ==
    ASSUME TypeOK, IdsDistinct, [Next]_vars
    PROVE  IdsDistinct'
<1> USE DEF IdsDistinct
<1>1. ASSUME NEW o \in Ops, NEW r \in ReserveRequest, Reserve(o, r) PROVE IdsDistinct'
  <2>1. /\ op' = [op EXCEPT ![o] =
                    [status |-> "RESERVED", user |-> r.user, trace |-> r.trace,
                     amt |-> r.amt, cap |-> r.cap, scopes |-> r.scopes, actual |-> 0,
                     prid |-> None, dispatched |-> FALSE]]
        /\ attempt' = attempt /\ DOMAIN op = Ops
    BY <1>1 DEF Reserve, TypeOK
  <2>2. op'[o].prid = None /\ \A q \in Ops : q # o => op'[q] = op[q]
    BY <2>1
  <2> QED
    BY <2>1, <2>2 DEF EscrowIdsDistinct, AttemptIdsDistinct
<1>2. ASSUME NEW o \in Ops, NEW p \in ProviderIds \cup {None}, NEW outcome \in Dispatched,
             NEW k \in AttemptKeys, NEW sig \in LoopScopes \cup {None},
             RecordAttempt(o, outcome, k, p, sig)
      PROVE  IdsDistinct'
  <2>1. /\ op' = [op EXCEPT ![o].status = outcome, ![o].dispatched = TRUE, ![o].prid = Coalesce(p, @)]
        /\ AttemptIdFree(k, p) /\ EscrowIdFree(o, p) /\ UpsertAttempt(k, o, outcome, p)
    BY <1>2 DEF RecordAttempt
  <2>2. op \in [Ops -> Operation] /\ op[o] \in Operation
    BY DEF TypeOK
  <2>3. op'[o].prid = Coalesce(p, op[o].prid) /\ \A q \in Ops : q # o => op'[q] = op[q]
    BY <2>1, <2>2 DEF Operation
  <2> QED
    BY <2>1, <2>3, EscrowIdWritten, AttemptIdWritten
<1>3. ASSUME NEW o \in Ops, NEW p \in ProviderIds \cup {None}, NEW cost \in ActualCosts,
             NEW k \in AttemptKeys \cup {None}, FinalizeSettlement(o, cost, k, p)
      PROVE  IdsDistinct'
  <2>1. /\ op' = [op EXCEPT ![o].status = "SETTLED", ![o].actual = cost, ![o].prid = Coalesce(p, @)]
        /\ EscrowIdFree(o, p)
    BY <1>3 DEF FinalizeSettlement
  <2>2. op \in [Ops -> Operation] /\ op[o] \in Operation
    BY DEF TypeOK
  <2>3. op'[o].prid = Coalesce(p, op[o].prid) /\ \A q \in Ops : q # o => op'[q] = op[q]
    BY <2>1, <2>2 DEF Operation
  <2>4. CASE k = None
    <3>1. attempt' = attempt
      BY <1>3, <2>4 DEF FinalizeSettlement
    <3> QED
      BY <2>1, <2>3, <3>1, EscrowIdWritten DEF AttemptIdsDistinct
  <2>5. CASE k # None
    <3>1. k \in AttemptKeys /\ AttemptIdFree(k, p) /\ UpsertAttempt(k, o, "SETTLED", p)
      BY <1>3, <2>5 DEF FinalizeSettlement
    <3> QED
      BY <2>1, <2>3, <3>1, EscrowIdWritten, AttemptIdWritten
  <2> QED
    BY <2>4, <2>5
<1>4. ASSUME NEW S \in SUBSET Ops, Sweep(S) PROVE IdsDistinct'
  <2>1. /\ op' = [o \in Ops |->
                    IF o \in S
                    THEN [op[o] EXCEPT !.status = IF Strands(o) THEN "STRANDED" ELSE "EXPIRED"]
                    ELSE op[o]]
        /\ attempt' = attempt
    BY <1>4 DEF Sweep
  <2>2. \A q \in Ops : op'[q].prid = op[q].prid
    BY <2>1 DEF TypeOK, Operation
  <2> QED
    BY <2>1, <2>2 DEF EscrowIdsDistinct, AttemptIdsDistinct
<1>5. ASSUME op' = op, attempt' = attempt PROVE IdsDistinct'
  BY <1>5 DEF EscrowIdsDistinct, AttemptIdsDistinct
<1>6. CASE ReserveStep
  BY <1>1, <1>6 DEF ReserveStep
<1>7. CASE AttemptStep
  BY <1>2, <1>7, LoadedExists DEF AttemptStep
<1>8. CASE SettleStep
  BY <1>3, <1>8, LoadedExists DEF SettleStep
<1>9. CASE SweepStep
  BY <1>4, <1>9 DEF SweepStep
<1>10. CASE ApprovalStep \/ LoopStep \/ TtlStep \/ UNCHANGED vars
  BY <1>5, <1>10 DEF ApprovalStep, ReserveNeedsApproval, LoopStep, LoopBlocked, TtlStep, TtlElapses, vars
<1> QED
  BY <1>6, <1>7, <1>8, <1>9, <1>10 DEF Next

LEMMA IdsStayDistinct == Spec => []IdsDistinct
<1>1. Init => IdsDistinct
  BY DEF Init, IdsDistinct, EscrowIdsDistinct, AttemptIdsDistinct, NoOperation, NoAttempt
<1>2. TypeOK /\ IdsDistinct /\ [Next]_vars => IdsDistinct'
  BY IdsStep
<1> QED
  BY <1>1, <1>2, TypeCorrect, PTL DEF Spec

(* The rows and the totals leave nothing for the backstops to catch.       *)
LEMMA BackstopsFollow ==
    ASSUME TypeOK, RowsConsistent, AttemptsOwned, TraceTotalsExact, ScopeConsumptionExact,
           IdsDistinct
    PROVE  BackstopsNeverBlock
<1>0. NumOps \in Nat /\ lapsed \subseteq Ops
  BY ConstantsAssumption DEF TypeOK
<1>c. \A q \in Ops : /\ op[q].amt \in Nat /\ op[q].actual \in Nat
                     /\ HeldAmount(q) \in Nat /\ SpentAmount(q) \in Nat /\ ScopeCharge(q) \in Nat
  BY RowTypes DEF HeldAmount, SpentAmount, ScopeCharge
<1>1. ASSUME NEW S \in SUBSET Claimable PROVE SweepBackstops(S)
  <2>0. S \subseteq Ops /\ \A q \in S : op[q].status \in Sweepable
    BY <1>0 DEF Claimable
  <2>1. ASSUME NEW q \in S, Strands(q) PROVE op[q].dispatched
    <3>1. op[q].status \in Dispatched
      BY <2>0, <2>1, NoneAssumption DEF Strands, HasOpenAttempts, AttemptsOwned, Sweepable, Dispatched
    <3> QED
      BY <2>0, <3>1 DEF RowsConsistent, RowConsistent
  <2>2. \A q \in S : events[q]["EXPIRED_SWEEP"] = 0
    BY <2>0 DEF RowsConsistent, RowConsistent, Sweepable, Held
  <2>3. ASSUME NEW t \in Traces PROVE trace[t].reserved >= ReleasedOn(S, t)
    <3>1. TraceHolds(t) \in [1..NumOps -> Int]
      BY <1>c DEF TraceHolds, Ops
    <3>2. TraceReleases(S, t) \in [1..NumOps -> Int]
      BY <1>c DEF TraceReleases, Ops
    <3>3. \A q \in 1..NumOps : TraceReleases(S, t)[q] <= TraceHolds(t)[q]
      BY <1>c, <2>0 DEF TraceReleases, TraceHolds, HeldAmount, Ops, Sweepable, Held
    <3>4. ReleasedOn(S, t) <= SumTo(TraceHolds(t), NumOps)
      BY <1>0, <3>1, <3>2, <3>3, SumMonotonic DEF ReleasedOn
    <3>5. trace[t].reserved = SumTo(TraceHolds(t), NumOps)
      BY DEF TraceTotalsExact
    <3>6. ReleasedOn(S, t) \in Int /\ SumTo(TraceHolds(t), NumOps) \in Int
      BY <1>0, <3>1, <3>2, SumInt DEF ReleasedOn
    <3> QED
      BY <3>4, <3>5, <3>6
  <2> QED
    BY <2>1, <2>2, <2>3 DEF SweepBackstops
<1>2. ASSUME NEW o \in Ops, op[o].status \notin {"NONE", "SETTLED"}, NEW cost \in ActualCosts
      PROVE  SettleBackstops(o, cost)
  <2>0. /\ cost \in Nat /\ op[o].amt \in Nat /\ op[o].status \in Status /\ o \in 1..NumOps
        /\ op[o].trace \in Traces /\ op[o].scopes \subseteq Scopes
    BY <1>2, RowTypes, ConstantsAssumption DEF Ops
  <2>1. RowConsistent(o)
    BY DEF RowsConsistent
  <2>2. events[o]["SETTLED_FINAL"] + events[o]["RECONCILED_LATE_SETTLE"] = 0
    BY <1>2, <2>1 DEF RowConsistent
  <2>3. StillHeld(o) => trace[op[o].trace].reserved >= op[o].amt
    <3> SUFFICES ASSUME StillHeld(o) PROVE trace[op[o].trace].reserved >= op[o].amt
      OBVIOUS
    <3> DEFINE f == TraceHolds(op[o].trace)
    <3>1. f \in [1..NumOps -> Nat]
      BY <1>c DEF TraceHolds, Ops
    <3>2. f[o] = op[o].amt
      BY <1>2, <2>0 DEF TraceHolds, HeldAmount, StillHeld, Status, Held
    <3>3. trace[op[o].trace].reserved = SumTo(f, NumOps)
      BY <2>0 DEF TraceTotalsExact
    <3> HIDE DEF f
    <3>4. f[o] <= SumTo(f, NumOps) /\ SumTo(f, NumOps) \in Nat
      BY <1>0, <2>0, <3>1, SumBoundsRow, SumNonNegative
    <3> QED
      BY <2>0, <3>2, <3>3, <3>4
  <2>4. ASSUME NEW s \in op[o].scopes PROVE scope[s].consumed + BudgetDelta(o, cost) >= 0
    <3>1. ScopeCharges(s) \in [1..NumOps -> Nat]
      BY <1>c DEF ScopeCharges, Ops
    <3>2. ScopeCharge(o) = op[o].amt + SpentAmount(o) /\ SpentAmount(o) = 0
      BY <1>2, <2>0, <2>1 DEF ScopeCharge, SpentAmount, RowConsistent, Status, Held
    <3>3. ScopeCharges(s)[o] = op[o].amt
      BY <2>0, <3>2 DEF ScopeCharges
    <3>4. scope[s].consumed = SumTo(ScopeCharges(s), NumOps)
      BY <2>0 DEF ScopeConsumptionExact
    <3>5. ScopeCharges(s)[o] <= SumTo(ScopeCharges(s), NumOps) /\ SumTo(ScopeCharges(s), NumOps) \in Nat
      BY <1>0, <2>0, <3>1, SumBoundsRow, SumNonNegative
    <3>6. BudgetDelta(o, cost) \in Int /\ BudgetDelta(o, cost) >= -op[o].amt
      BY <2>0 DEF BudgetDelta
    <3> QED
      BY <2>0, <3>3, <3>4, <3>5, <3>6
  <2> QED
    BY <2>2, <2>3, <2>4 DEF SettleBackstops
<1>3. ASSUME NEW o \in Ops
      PROVE  /\ EscrowIdFree(o, op[o].prid)
             /\ \A k \in AttemptKeys :
                    attempt[k].prid = op[o].prid => AttemptIdFree(k, op[o].prid)
  BY DEF IdsDistinct, EscrowIdsDistinct, AttemptIdsDistinct, EscrowIdFree, AttemptIdFree
<1> QED
  BY <1>1, <1>2, <1>3 DEF BackstopsNeverBlock

(* No batch of the sweep is ever rolled back by a constraint of the        *)
(* migrations, and no settlement by the totals, the index of terminal      *)
(* settle events or, under its own ids, the provider request id indexes.   *)
THEOREM BackstopsAreNeverHit == Spec => []BackstopsNeverBlock
  BY BackstopsFollow, TypeCorrect, RowsStayConsistent, TraceTotalsAreExact, ScopeConsumptionIsExact,
     IdsStayDistinct, PTL

(* Expiry refunds a reservation only if nothing was ever dispatched for    *)
(* it, and at most once.                                                   *)
THEOREM RefundsNeverFollowDispatch == Spec => []RefundOnlyIfNeverDispatched
<1>1. TypeOK /\ RowsConsistent => RefundOnlyIfNeverDispatched
  <2> SUFFICES ASSUME TypeOK, RowsConsistent, NEW o \in Ops
               PROVE  /\ events[o]["EXPIRED_SWEEP"] > 0 =>
                            Updates(o) = 0 /\ events[o]["EXPIRED_SWEEP"] = 1
                      /\ op[o].status = "STRANDED" => Updates(o) > 0
    BY DEF RefundOnlyIfNeverDispatched
  <2>1. RowConsistent(o) /\ events[o] \in [EventTypes -> Nat]
    BY RowTypes DEF RowsConsistent
  <2>2. Updates(o) \in Nat
    BY <2>1 DEF Updates, EventTypes
  <2> QED
    BY <2>1, <2>2 DEF RowConsistent
<1> QED
  BY <1>1, TypeCorrect, RowsStayConsistent, PTL

(* The audit that runs after every sweep can never fail.                   *)
THEOREM AuditNeverFails == Spec => []FinanceAuditClean
<1>1. TypeOK /\ RowsConsistent /\ TraceTotalsExact => FinanceAuditClean
  <2> SUFFICES ASSUME TypeOK, RowsConsistent, TraceTotalsExact PROVE FinanceAuditClean
    OBVIOUS
  <2>1. \A u \in Users : ~(wallet[u].balance < 0)
    BY DEF TypeOK
  <2>2. \A t \in Traces : ~(trace[t].reserved > trace[t].cap)
    BY DEF TypeOK, TraceTotalsExact
  <2>3. ASSUME NEW o \in Ops
        PROVE  /\ ~(events[o]["EXPIRED_SWEEP"] > 1)
               /\ ~(events[o]["SETTLED_FINAL"] + events[o]["RECONCILED_LATE_SETTLE"] > 1)
               /\ ~(op[o].status = "STRANDED" /\ events[o]["STRANDED_HOLD"] = 0)
    <3>1. RowConsistent(o) /\ events[o] \in [EventTypes -> Nat]
      BY RowTypes DEF RowsConsistent
    <3> QED
      BY <3>1 DEF RowConsistent, EventTypes
  <2> QED
    BY <2>1, <2>2, <2>3 DEF FinanceAuditClean, AuditFindings
<1> QED
  BY <1>1, TypeCorrect, RowsStayConsistent, TraceTotalsAreExact, PTL

(* The step form of the two action properties.                             *)
LEMMA FinalityStep ==
    ASSUME TypeOK, RowsConsistent, AttemptsOwned, [Next]_vars, NEW q \in Ops
    PROVE  /\ op[q].dispatched /\ net'[q] # net[q] => op'[q].status = "SETTLED"
           /\ op[q].status = "SETTLED" =>
                 op'[q] = op[q] /\ events'[q] = events[q] /\ net'[q] = net[q]
<1> DEFINE Ok == /\ op[q].dispatched /\ net'[q] # net[q] => op'[q].status = "SETTLED"
                 /\ op[q].status = "SETTLED" =>
                       op'[q] = op[q] /\ events'[q] = events[q] /\ net'[q] = net[q]
<1>1. ASSUME NEW o \in Ops, NEW r \in ReserveRequest, Reserve(o, r) PROVE Ok
  <2>1. \A i \in Ops : i # o => op'[i] = op[i] /\ events'[i] = events[i] /\ net'[i] = net[i]
    BY <1>1, ReserveEffect
  <2>2. op[o].status = "NONE"
    BY <1>1 DEF Reserve
  <2>3. ~op[o].dispatched
    BY <2>2 DEF RowsConsistent, RowConsistent, NoOperation
  <2> QED
    BY <2>1, <2>2, <2>3
<1>3. ASSUME NEW o \in Ops, NEW p \in ProviderIds \cup {None}, NEW outcome \in Dispatched,
             NEW k \in AttemptKeys, NEW sig \in LoopScopes \cup {None},
             RecordAttempt(o, outcome, k, p, sig)
      PROVE  Ok
  <2>1. net' = net /\ \A i \in Ops : i # o => op'[i] = op[i] /\ events'[i] = events[i]
    BY <1>3, RecordAttemptEffect
  <2>2. op[o].status # "SETTLED"
    BY <1>3 DEF RecordAttempt, Terminal
  <2> QED
    BY <2>1, <2>2
<1>5. ASSUME NEW o \in Ops, op[o].status # "NONE", NEW p \in ProviderIds \cup {None},
             NEW cost \in ActualCosts, NEW k \in AttemptKeys \cup {None},
             FinalizeSettlement(o, cost, k, p)
      PROVE  Ok
  <2>1. /\ op'[o].status = "SETTLED"
        /\ \A i \in Ops : i # o => op'[i] = op[i] /\ events'[i] = events[i] /\ net'[i] = net[i]
    BY <1>5, SettleEffect
  <2>2. op[o].status # "SETTLED"
    BY <1>5 DEF FinalizeSettlement
  <2> QED
    BY <2>1, <2>2
<1>7. ASSUME NEW S \in SUBSET Ops, Sweep(S) PROVE Ok
  <2>1. /\ q \notin S => op'[q] = op[q] /\ events'[q] = events[q] /\ net'[q] = net[q]
        /\ q \in S => /\ op[q].status \in Sweepable
                      /\ net'[q] = net[q] + IF Strands(q) THEN 0 ELSE op[q].amt
    BY <1>7, SweepEffect
  <2>2. CASE q \in S
    <3>1. op[q].status \in Sweepable /\ op[q].status # "SETTLED" /\ net[q] \in Int
      BY <2>1, <2>2, RowTypes DEF Sweepable
    <3>2. op[q].dispatched => Strands(q)
      BY <3>1 DEF RowsConsistent, RowConsistent, Strands, Sweepable, Dispatched
    <3> QED
      BY <2>1, <2>2, <3>1, <3>2
  <2> QED
    BY <2>1, <2>2
<1>8. ASSUME op' = op, events' = events, net' = net PROVE Ok
  BY <1>8
<1>2. ASSUME NEW o \in Ops, NEW r \in ReserveRequest, ReserveNeedsApproval(o, r) PROVE Ok
  BY <1>2, <1>8 DEF ReserveNeedsApproval
<1>4. ASSUME NEW o \in Ops, NEW sig, LoopBlocked(o, sig) PROVE Ok
  BY <1>4, <1>8 DEF LoopBlocked
<1>6. ASSUME NEW o \in Ops, TtlElapses(o) PROVE Ok
  BY <1>6, <1>8 DEF TtlElapses
<1>9. ASSUME UNCHANGED vars PROVE Ok
  BY <1>8, <1>9 DEF vars
<1> SUFFICES Ok
  OBVIOUS
<1> HIDE DEF Ok
<1>10. CASE ReserveStep \/ ApprovalStep
  BY <1>1, <1>2, <1>10 DEF ReserveStep, ApprovalStep
<1>11. CASE AttemptStep
  BY <1>3, <1>11, LoadedExists DEF AttemptStep
<1>12. CASE LoopStep
  BY <1>4, <1>12, LoadedExists DEF LoopStep
<1>13. CASE SettleStep
  BY <1>5, <1>13, LoadedExists DEF SettleStep
<1>14. CASE TtlStep \/ SweepStep
  BY <1>6, <1>7, <1>14 DEF TtlStep, SweepStep
<1> QED
  BY <1>9, <1>10, <1>11, <1>12, <1>13, <1>14 DEF Next

(* Once dispatch activity is on record, only the settlement of that very   *)
(* operation moves its money.                                              *)
THEOREM HoldIsKept == Spec => HoldKeptUntilSettled
<1>1. TypeOK /\ RowsConsistent /\ AttemptsOwned /\ [Next]_vars
        => [\A o \in Ops : op[o].dispatched /\ net'[o] # net[o] => op'[o].status = "SETTLED"]_vars
  BY FinalityStep
<1> QED
  BY <1>1, TypeCorrect, RowsStayConsistent, PTL DEF Spec, HoldKeptUntilSettled

(* A settled operation never changes again.                                *)
THEOREM SettlementIsFinal == Spec => SettledIsFinal
<1>1. TypeOK /\ RowsConsistent /\ AttemptsOwned /\ [Next]_vars
        => [\A o \in Ops : op[o].status = "SETTLED" =>
              op'[o] = op[o] /\ events'[o] = events[o] /\ net'[o] = net[o]]_vars
  BY FinalityStep
<1> QED
  BY <1>1, TypeCorrect, RowsStayConsistent, PTL DEF Spec, SettledIsFinal

-----------------------------------------------------------------------------
(***************************************************************************)
(* Locked wallets                                                          *)
(***************************************************************************)

(* A step that settles no row and leaves the wallets' is_active alone.     *)
LEMMA LockKept ==
    ASSUME WalletLockMatchesDrift,
           \A u \in Users : wallet'[u].active = wallet[u].active,
           \A q \in Ops : op[q].status = "SETTLED" \/ op'[q].status = "SETTLED" => op'[q] = op[q]
    PROVE  WalletLockMatchesDrift'
<1>1. ASSUME NEW q \in Ops
      PROVE  /\ MaterialDrift(q)' <=> MaterialDrift(q)
             /\ MaterialDrift(q) => op'[q].user = op[q].user
  BY DEF MaterialDrift
<1> QED
  BY <1>1 DEF WalletLockMatchesDrift

(* On a row that reserved nothing the absolute tolerance alone decides, as *)
(* any positive drift is above every ratio of zero.                        *)
LEMMA ToleranceIsDrift ==
    ASSUME NEW drift \in Int, NEW reserved \in Nat
    PROVE  DriftExceedsTolerance(drift, reserved)
             <=> /\ drift > DriftAbsolute
                 /\ drift * DriftRatio[2] > DriftRatio[1] * reserved
<1>1. DriftAbsolute \in Nat /\ DriftRatio[1] \in Nat /\ DriftRatio[2] \in Nat /\ DriftRatio[2] > 0
  BY ConstantsAssumption
<1>2. ASSUME reserved = 0, drift > DriftAbsolute
      PROVE  drift * DriftRatio[2] > DriftRatio[1] * reserved
  <2>1. ASSUME NEW a \in Nat, NEW b \in Nat, NEW c \in Nat, a > 0, b > 0 PROVE a * b > c * 0
    BY <2>1
  <2>2. drift \in Nat /\ drift > 0
    BY <1>1, <1>2
  <2> QED
    BY <1>1, <1>2, <2>1, <2>2
<1> QED
  BY <1>1, <1>2 DEF DriftExceedsTolerance

LEMMA LockStep ==
    ASSUME TypeOK, WalletLockMatchesDrift, [Next]_vars
    PROVE  WalletLockMatchesDrift'
<1>0. wallet \in [Users -> [balance: Nat, active: BOOLEAN]]
  BY DEF TypeOK
<1>1. ASSUME NEW o \in Ops, NEW r \in ReserveRequest, Reserve(o, r) PROVE WalletLockMatchesDrift'
  <2>1. /\ wallet' = [wallet EXCEPT ![r.user] = [balance |-> @.balance - r.amt, active |-> @.active]]
        /\ op[o].status = "NONE"
    BY <1>1 DEF Reserve
  <2>2. \A u \in Users : wallet'[u].active = wallet[u].active
    BY <1>0, <2>1
  <2>3. op'[o].status = "RESERVED" /\ \A q \in Ops : q # o => op'[q] = op[q]
    BY <1>1, ReserveEffect
  <2> QED
    BY <2>1, <2>2, <2>3, LockKept
<1>2. ASSUME NEW o \in Ops, NEW p \in ProviderIds \cup {None}, NEW outcome \in Dispatched,
             NEW k \in AttemptKeys, NEW sig \in LoopScopes \cup {None},
             RecordAttempt(o, outcome, k, p, sig)
      PROVE  WalletLockMatchesDrift'
  <2>1. op'[o].status = outcome /\ \A q \in Ops : q # o => op'[q] = op[q]
    BY <1>2, RecordAttemptEffect
  <2>2. wallet' = wallet /\ op[o].status # "SETTLED" /\ outcome # "SETTLED"
    BY <1>2 DEF RecordAttempt, Terminal, Dispatched
  <2> QED
    BY <2>1, <2>2, LockKept
<1>3. ASSUME NEW o \in Ops, op[o].status # "NONE", NEW p \in ProviderIds \cup {None},
             NEW cost \in ActualCosts, NEW k \in AttemptKeys \cup {None},
             FinalizeSettlement(o, cost, k, p)
      PROVE  WalletLockMatchesDrift'
  <2> DEFINE owner == op[o].user
             locks == DriftExceedsTolerance(cost - op[o].amt, op[o].amt)
  <2>1. /\ wallet' = [wallet EXCEPT ![owner] =
                        [balance |-> @.balance + WalletDelta(o, cost), active |-> @.active /\ ~locks]]
        /\ op[o].status # "SETTLED"
    BY <1>3 DEF FinalizeSettlement
  <2>2. /\ op'[o].status = "SETTLED" /\ op'[o].actual = cost /\ cost \in Nat
        /\ op'[o].amt = op[o].amt /\ op'[o].user = owner
        /\ \A q \in Ops : q # o => op'[q] = op[q]
    BY <1>3, SettleEffect DEF SameTerms
  <2>3. op[o].amt \in Nat /\ owner \in Users
    BY <1>3, RowTypes
  <2>4. MaterialDrift(o)' <=> locks
    BY <2>2, <2>3, ToleranceIsDrift DEF MaterialDrift
  <2>5. ~MaterialDrift(o)
    BY <2>1 DEF MaterialDrift
  <2>6. \A q \in Ops : q # o => (MaterialDrift(q)' <=> MaterialDrift(q)) /\ op'[q].user = op[q].user
    BY <2>2 DEF MaterialDrift
  <2> HIDE DEF owner, locks
  <2>7. \A u \in Users : wallet'[u].active <=> wallet[u].active /\ (u = owner => ~locks)
    BY <1>0, <2>1, <2>3
  <2> QED
    BY <2>2, <2>4, <2>5, <2>6, <2>7 DEF WalletLockMatchesDrift, owner
<1>4. ASSUME NEW S \in SUBSET Ops, Sweep(S) PROVE WalletLockMatchesDrift'
  <2>1. \A u \in Users : wallet'[u].active = wallet[u].active
    BY <1>4 DEF Sweep
  <2>2. \A q \in Ops : op[q].status = "SETTLED" \/ op'[q].status = "SETTLED" => op'[q] = op[q]
    BY <1>4, SweepEffect DEF Sweepable
  <2> QED
    BY <2>1, <2>2, LockKept
<1>5. ASSUME op' = op, wallet' = wallet PROVE WalletLockMatchesDrift'
  BY <1>5, LockKept
<1>6. CASE ReserveStep
  BY <1>1, <1>6 DEF ReserveStep
<1>7. CASE AttemptStep
  BY <1>2, <1>7, LoadedExists DEF AttemptStep
<1>8. CASE SettleStep
  BY <1>3, <1>8, LoadedExists DEF SettleStep
<1>9. CASE SweepStep
  BY <1>4, <1>9 DEF SweepStep
<1>10. CASE ApprovalStep \/ LoopStep \/ TtlStep \/ UNCHANGED vars
  BY <1>5, <1>10 DEF ApprovalStep, ReserveNeedsApproval, LoopStep, LoopBlocked, TtlStep, TtlElapses, vars
<1> QED
  BY <1>6, <1>7, <1>8, <1>9, <1>10 DEF Next

(* A wallet is locked exactly by the material positive drift of one of its *)
(* operations, and stays so.                                               *)
THEOREM LocksMatchDrift == Spec => []WalletLockMatchesDrift
<1>1. Init => WalletLockMatchesDrift
  BY DEF Init, WalletLockMatchesDrift, MaterialDrift, NoOperation
<1>2. TypeOK /\ WalletLockMatchesDrift /\ [Next]_vars => WalletLockMatchesDrift'
  BY LockStep
<1> QED
  BY <1>1, <1>2, TypeCorrect, PTL DEF Spec

-----------------------------------------------------------------------------
(***************************************************************************)
(* The ledger implements a book of holds                                   *)
(***************************************************************************)

(* The refinement mapping, row by row.                                     *)
LEMMA BookColumns ==
    /\ DOMAIN HoldOf = Ops /\ \A q \in Ops : HoldOf[q] = HoldRow(q)
    /\ DOMAIN BalanceOf = Users /\ \A u \in Users : BalanceOf[u] = wallet[u].balance
  BY DEF HoldOf, BalanceOf

LEMMA BookColumnsNext ==
    /\ HoldOf' = [q \in Ops |-> HoldRow(q)']
    /\ BalanceOf' = [u \in Users |-> wallet'[u].balance]
  BY DEF HoldOf, BalanceOf

(* The sums of the two specifications are the same sums.                   *)
LEMMA BookSums ==
    ASSUME NEW f, NEW n
    PROVE  Book!SumTo(f, n) = SumTo(f, n)
  BY DEF SumTo, Book!SumTo

(* Giving nothing back changes no balance.                                 *)
LEMMA NothingReturned ==
    ASSUME NEW u
    PROVE  Book!Returned({}, u) = 0
<1> DEFINE f == [o \in 1..NumOps |-> IF o \in {} /\ HoldOf[o].owner = u THEN HoldOf[o].amount ELSE 0]
<1>1. f \in [1..NumOps -> Int] /\ \A i \in 1..NumOps : f[i] = 0
  OBVIOUS
<1>2. Book!Returned({}, u) = Book!SumTo(f, NumOps)
  BY DEF Book!Returned
<1> HIDE DEF f
<1> QED
  BY <1>1, <1>2, BookSums, SumOfZeros, ConstantsAssumption

(* The state of a hold, status by status.                                  *)
LEMMA HoldStates ==
    ASSUME NEW s
    PROVE  /\ s = "NONE" => HoldState(s) = "free"
           /\ s = "RESERVED" => HoldState(s) = "held"
           /\ s \in {"IN_FLIGHT", "PROVIDER_TIMEOUT", "STRANDED"} => HoldState(s) = "pinned"
           /\ s = "EXPIRED" => HoldState(s) = "released"
           /\ s = "SETTLED" => HoldState(s) = "charged"
  BY DEF HoldState, Dispatched

(* A row that does not change is a hold that does not change.              *)
LEMMA SameHolds ==
    ASSUME NEW q, op'[q] = op[q]
    PROVE  HoldRow(q)' = HoldRow(q)
  BY DEF HoldRow, HeldAmount, SpentAmount

(* A reservation takes a hold within the balance.                          *)
LEMMA ReserveIsPlace ==
    ASSUME TypeOK, NEW o \in Ops, NEW r \in ReserveRequest, Reserve(o, r)
    PROVE  r.amt \in 0..BalanceOf[r.user] /\ r.user \in Users /\ Book!Place(o, r.user, r.amt)
<1>1. /\ op'[o].status = "RESERVED" /\ op'[o].amt = r.amt /\ op'[o].user = r.user
      /\ r.amt \in Nat /\ r.user \in Users
      /\ \A q \in Ops : q # o => op'[q] = op[q]
  BY ReserveEffect
<1>2. /\ op[o].status = "NONE"
      /\ wallet[r.user].balance >= r.amt
      /\ wallet' = [wallet EXCEPT ![r.user] = [balance |-> @.balance - r.amt, active |-> @.active]]
      /\ wallet \in [Users -> [balance: Nat, active: BOOLEAN]]
  BY DEF Reserve, WalletDebitFits, TypeOK
<1>3. \A u \in Users : wallet'[u].balance = wallet[u].balance - IF u = r.user THEN r.amt ELSE 0
  BY <1>1, <1>2
<1>4. HoldRow(o).state = "free"
  BY <1>2, HoldStates DEF HoldRow
<1>5. HoldRow(o)' = [state |-> "held", owner |-> r.user, amount |-> r.amt]
  <2>1. HeldAmount(o)' = r.amt /\ SpentAmount(o)' = 0
    BY <1>1 DEF HeldAmount, SpentAmount, Held
  <2> QED
    BY <1>1, <2>1, HoldStates DEF HoldRow
<1>6. \A q \in Ops : q # o => HoldRow(q)' = HoldRow(q)
  BY <1>1, SameHolds
<1>7. HoldOf' = [HoldOf EXCEPT ![o] = [state |-> "held", owner |-> r.user, amount |-> r.amt]]
  BY <1>5, <1>6, BookColumns, BookColumnsNext
<1>8. BalanceOf' = [BalanceOf EXCEPT ![r.user] = @ - r.amt]
  BY <1>1, <1>2, <1>3, BookColumns, BookColumnsNext
<1> QED
  BY <1>1, <1>2, <1>4, <1>7, <1>8, BookColumns DEF Book!Place

(* Dispatch activity pins the hold and moves no money.                     *)
LEMMA AttemptPins ==
    ASSUME TypeOK, NEW o \in Ops, op[o].status # "NONE", NEW outcome \in Dispatched,
           NEW k \in AttemptKeys, NEW p \in ProviderIds \cup {None},
           NEW sig \in LoopScopes \cup {None}, RecordAttempt(o, outcome, k, p, sig)
    PROVE  Book!Resolve({}, {o}) \/ UNCHANGED Book!vars
<1>1. /\ op'[o].status = outcome /\ op'[o].amt = op[o].amt /\ op'[o].user = op[o].user
      /\ \A q \in Ops : q # o => op'[q] = op[q]
  BY RecordAttemptEffect DEF SameTerms
<1>2. /\ op[o].status \notin Terminal /\ wallet' = wallet
      /\ op[o].status \in Status /\ op[o].amt \in Nat
  BY RowTypes DEF RecordAttempt
<1>3. \A q \in Ops : q # o => HoldRow(q)' = HoldRow(q)
  BY <1>1, SameHolds
<1>4. HeldAmount(o) = op[o].amt /\ SpentAmount(o) = 0
  BY <1>2 DEF HeldAmount, SpentAmount, Held, Status, Terminal
<1>5. HeldAmount(o)' = op[o].amt /\ SpentAmount(o)' = 0
  BY <1>1 DEF HeldAmount, SpentAmount, Held, Dispatched
<1>6. HoldRow(o)' = [state |-> "pinned", owner |-> op[o].user, amount |-> op[o].amt]
  BY <1>1, <1>2, <1>5, HoldStates DEF HoldRow, Dispatched
<1>7. BalanceOf' = BalanceOf
  BY <1>2 DEF BalanceOf
<1>8. CASE op[o].status = "RESERVED"
  <2>1. HoldRow(o) = [state |-> "held", owner |-> op[o].user, amount |-> op[o].amt]
    BY <1>2, <1>4, <1>8, HoldStates DEF HoldRow
  <2>2. HoldOf' = [q \in 1..NumOps |->
                     IF q \in {} THEN [state |-> "released", owner |-> HoldOf[q].owner, amount |-> 0]
                     ELSE IF q \in {o}
                          THEN [state |-> "pinned", owner |-> HoldOf[q].owner, amount |-> HoldOf[q].amount]
                          ELSE HoldOf[q]]
    BY <1>3, <1>6, <2>1, BookColumns, BookColumnsNext DEF Ops
  <2>3. BalanceOf' = [u \in Users |-> BalanceOf[u] + Book!Returned({}, u)]
    <3>1. \A u \in Users : BalanceOf[u] \in Nat
      BY BookColumns DEF TypeOK
    <3>2. BalanceOf' = [u \in Users |-> BalanceOf[u]]
      BY <1>7 DEF BalanceOf
    <3>3. \A u \in Users : BalanceOf[u] + Book!Returned({}, u) = BalanceOf[u]
      BY <3>1, NothingReturned
    <3> QED
      BY <3>2, <3>3
  <2>4. HoldOf[o].state = "held"
    BY <2>1, BookColumns
  <2> QED
    BY <2>2, <2>3, <2>4 DEF Book!Resolve
<1>9. CASE op[o].status # "RESERVED"
  <2>1. HoldRow(o) = [state |-> "pinned", owner |-> op[o].user, amount |-> op[o].amt]
    BY <1>2, <1>4, <1>9, HoldStates DEF HoldRow, Status, Held, Terminal
  <2>2. \A q \in Ops : HoldRow(q)' = HoldRow(q)
    BY <1>3, <1>6, <2>1
  <2>3. HoldOf' = HoldOf
    BY <2>2 DEF HoldOf
  <2> QED
    BY <1>7, <2>3 DEF Book!vars
<1> QED
  BY <1>8, <1>9

(* A settlement replaces the hold by the cost, within the balance.         *)
LEMMA SettleIsCharge ==
    ASSUME TypeOK, RowsConsistent, TypeOK', NEW o \in Ops, op[o].status # "NONE",
           NEW p \in ProviderIds \cup {None}, NEW cost \in ActualCosts,
           NEW k \in AttemptKeys \cup {None}, FinalizeSettlement(o, cost, k, p)
    PROVE  /\ HoldOf[o].state # "free"
           /\ cost \in 0..(BalanceOf[HoldOf[o].owner] + HoldOf[o].amount)
           /\ Book!Charge(o, cost)
<1>1. /\ op'[o].status = "SETTLED" /\ op'[o].user = op[o].user /\ cost \in Nat
      /\ op[o].user \in Users /\ WalletDelta(o, cost) \in Int
      /\ \A q \in Ops : q # o => op'[q] = op[q]
  BY SettleEffect, RowTypes DEF SameTerms
<1>2. /\ SpentAmount(o) = 0 /\ HeldAmount(o)' = 0 /\ SpentAmount(o)' = cost
      /\ WalletDelta(o, cost) = HeldAmount(o) - cost
  BY SettleAmounts
<1>3. /\ op[o].status \in Status /\ op[o].status # "SETTLED" /\ HeldAmount(o) \in Nat
      /\ wallet' = [wallet EXCEPT ![op[o].user] =
                      [balance |-> @.balance + WalletDelta(o, cost),
                       active |-> @.active /\ ~DriftExceedsTolerance(cost - op[o].amt, op[o].amt)]]
      /\ wallet \in [Users -> [balance: Nat, active: BOOLEAN]]
  BY RowTypes DEF FinalizeSettlement, HeldAmount, TypeOK
<1>4. \A u \in Users :
        wallet'[u].balance = IF u = op[o].user THEN wallet[u].balance + WalletDelta(o, cost)
                             ELSE wallet[u].balance
  BY <1>1, <1>3
<1>5. /\ HoldRow(o).state \in {"held", "pinned", "released"}
      /\ HoldRow(o).owner = op[o].user /\ HoldRow(o).amount = HeldAmount(o)
  <2>1. HoldState(op[o].status) \in {"held", "pinned", "released"}
    BY <1>3, HoldStates DEF Status, Held
  <2> QED
    BY <1>2, <1>3, <2>1 DEF HoldRow
<1>6. HoldRow(o)' = [state |-> "charged", owner |-> op[o].user, amount |-> cost]
  BY <1>1, <1>2, HoldStates DEF HoldRow
<1>7. \A q \in Ops : q # o => HoldRow(q)' = HoldRow(q)
  BY <1>1, SameHolds
<1>8. HoldOf' = [HoldOf EXCEPT ![o] = [state |-> "charged", owner |-> HoldOf[o].owner, amount |-> cost]]
  BY <1>5, <1>6, <1>7, BookColumns, BookColumnsNext
<1>9. \A u \in Users :
        BalanceOf[u] \in Nat /\ wallet'[u].balance \in Nat /\ BalanceOf[u] = wallet[u].balance
  BY BookColumns DEF TypeOK
<1>10. BalanceOf' = [BalanceOf EXCEPT ![op[o].user] = @ + HeldAmount(o) - cost]
  <2>1. \A u \in Users :
          wallet'[u].balance = IF u = op[o].user THEN BalanceOf[u] + HeldAmount(o) - cost
                               ELSE BalanceOf[u]
    BY <1>1, <1>2, <1>3, <1>4, <1>9
  <2> QED
    BY <1>1, <2>1, BookColumns, BookColumnsNext
<1>11. cost <= BalanceOf[op[o].user] + HeldAmount(o)
  BY <1>1, <1>2, <1>3, <1>4, <1>9
<1>12. HoldOf[o] = HoldRow(o)
  BY BookColumns
<1>13. Book!Charge(o, cost)
  BY <1>5, <1>8, <1>10, <1>12 DEF Book!Charge
<1> QED
  BY <1>1, <1>3, <1>5, <1>9, <1>11, <1>12, <1>13

(* A sweep gives back the holds it expires; what it strands was pinned by  *)
(* the dispatch already.                                                   *)
LEMMA SweepIsResolve ==
    ASSUME TypeOK, RowsConsistent, AttemptsOwned, NEW S \in SUBSET Ops, Sweep(S)
    PROVE  Book!Resolve({o \in S : ~Strands(o)}, {})
<1> DEFINE R == {o \in S : ~Strands(o)}
<1>1. ASSUME NEW q \in S, Strands(q)
      PROVE  op[q].status \in Dispatched
  BY <1>1, SweepEffect, NoneAssumption
     DEF Strands, HasOpenAttempts, AttemptsOwned, Sweepable, Dispatched
<1>2. ASSUME NEW q \in R
      PROVE  /\ op[q].status = "RESERVED"
             /\ HoldRow(q) = [state |-> "held", owner |-> op[q].user, amount |-> op[q].amt]
  <2>1. op[q].status = "RESERVED" /\ op[q].amt \in Nat
    BY SweepEffect, RowTypes DEF Strands, Sweepable, Dispatched
  <2>2. HeldAmount(q) = op[q].amt /\ SpentAmount(q) = 0
    BY <2>1 DEF HeldAmount, SpentAmount, Held
  <2> QED
    BY <2>1, <2>2, HoldStates DEF HoldRow
<1>3. ASSUME NEW q \in R
      PROVE  HoldRow(q)' = [state |-> "released", owner |-> op[q].user, amount |-> 0]
  <2>1. op'[q].status = "EXPIRED" /\ op'[q].user = op[q].user
    BY SweepEffect DEF SameTerms
  <2>2. HeldAmount(q)' = 0 /\ SpentAmount(q)' = 0
    BY <2>1 DEF HeldAmount, SpentAmount, Held
  <2> QED
    BY <2>1, <2>2, HoldStates DEF HoldRow
<1>4. ASSUME NEW q \in Ops, q \notin R
      PROVE  HoldRow(q)' = HoldRow(q)
  <2>1. CASE q \notin S
    BY <2>1, SweepEffect, SameHolds
  <2>2. CASE q \in S
    <3>1. Strands(q) /\ op[q].status \in Dispatched
      BY <1>1, <1>4, <2>2
    <3>2. op'[q].status = "STRANDED" /\ op'[q].user = op[q].user /\ op'[q].amt = op[q].amt
      BY <2>2, <3>1, SweepEffect DEF SameTerms
    <3>3. HoldState(op[q].status) = "pinned" /\ HoldState(op'[q].status) = "pinned"
      BY <3>1, <3>2, HoldStates DEF Dispatched
    <3>4. HeldAmount(q)' = HeldAmount(q) /\ SpentAmount(q)' = SpentAmount(q)
      BY <3>1, <3>2 DEF HeldAmount, SpentAmount, Held, Dispatched
    <3> QED
      BY <3>2, <3>3, <3>4 DEF HoldRow
  <2> QED
    BY <2>1, <2>2
<1>5. ASSUME NEW u \in Users PROVE Book!Returned(R, u) = RefundsTo(S, u)
  <2> DEFINE f == [o \in 1..NumOps |-> IF o \in R /\ HoldOf[o].owner = u THEN HoldOf[o].amount ELSE 0]
  <2>1. \A o \in R : o \in Ops /\ HoldOf[o].owner = op[o].user /\ HoldOf[o].amount = op[o].amt
    BY <1>2, BookColumns
  <2>2. f = UserRefunds(S, u)
    BY <2>1 DEF UserRefunds, Ops
  <2>3. Book!Returned(R, u) = Book!SumTo(f, NumOps)
    BY DEF Book!Returned
  <2> HIDE DEF f
  <2> QED
    BY <2>2, <2>3, BookSums DEF RefundsTo
<1> HIDE DEF R
<1>6. R \subseteq Ops
  BY DEF R
<1>7. BalanceOf' = [u \in Users |-> BalanceOf[u] + Book!Returned(R, u)]
  <2>1. \A u \in Users : wallet'[u].balance = BalanceOf[u] + Book!Returned(R, u)
    BY <1>5, BookColumns DEF Sweep
  <2> QED
    BY <2>1, BookColumnsNext
<1>8. HoldOf' = [q \in 1..NumOps |->
                   IF q \in R THEN [state |-> "released", owner |-> HoldOf[q].owner, amount |-> 0]
                   ELSE IF q \in {}
                        THEN [state |-> "pinned", owner |-> HoldOf[q].owner, amount |-> HoldOf[q].amount]
                        ELSE HoldOf[q]]
  <2>1. \A q \in R : HoldOf[q].owner = op[q].user
    BY <1>2, <1>6, BookColumns
  <2> QED
    BY <1>3, <1>4, <1>6, <2>1, BookColumns, BookColumnsNext DEF Ops
<1>9. \A q \in R \cup {} : HoldOf[q].state = "held"
  BY <1>2, <1>6, BookColumns
<1> QED
  BY <1>7, <1>8, <1>9 DEF Book!Resolve, R

LEMMA BookStep ==
    ASSUME TypeOK, RowsConsistent, AttemptsOwned, TypeOK', [Next]_vars
    PROVE  [Book!Next]_(Book!vars)
<1>1. ASSUME NEW o \in Ops, NEW r \in ReserveRequest, Reserve(o, r) PROVE Book!Next
  BY <1>1, ReserveIsPlace DEF Book!Next, Ops
<1>3. ASSUME NEW o \in Ops, op[o].status # "NONE", NEW p \in ProviderIds \cup {None},
             NEW outcome \in Dispatched, NEW k \in AttemptKeys, NEW sig \in LoopScopes \cup {None},
             RecordAttempt(o, outcome, k, p, sig)
      PROVE  Book!Next \/ UNCHANGED Book!vars
  <2>1. {} \in SUBSET (1..NumOps) /\ {o} \in SUBSET (1..NumOps)
    BY DEF Ops
  <2> QED
    BY <1>3, <2>1, AttemptPins DEF Book!Next
<1>5. ASSUME NEW o \in Ops, op[o].status # "NONE", NEW p \in ProviderIds \cup {None},
             NEW cost \in ActualCosts, NEW k \in AttemptKeys \cup {None},
             FinalizeSettlement(o, cost, k, p)
      PROVE  Book!Next
  <2>1. o \in Book!Placed
    BY <1>5, SettleIsCharge DEF Book!Placed, Ops
  <2> QED
    BY <1>5, <2>1, SettleIsCharge DEF Book!Next
<1>7. ASSUME NEW S \in SUBSET Ops, Sweep(S) PROVE Book!Next
  <2>1. {} \in SUBSET (1..NumOps) /\ {o \in S : ~Strands(o)} \in SUBSET (1..NumOps)
    BY DEF Ops
  <2> QED
    BY <1>7, <2>1, SweepIsResolve DEF Book!Next
<1>8. ASSUME op' = op, wallet' = wallet PROVE UNCHANGED Book!vars
  BY <1>8, SameHolds DEF Book!vars, HoldOf, BalanceOf
<1>2. ASSUME NEW o \in Ops, NEW r \in ReserveRequest, ReserveNeedsApproval(o, r)
      PROVE  UNCHANGED Book!vars
  BY <1>2, <1>8 DEF ReserveNeedsApproval
<1>4. ASSUME NEW o \in Ops, NEW sig, LoopBlocked(o, sig) PROVE UNCHANGED Book!vars
  BY <1>4, <1>8 DEF LoopBlocked
<1>6. ASSUME NEW o \in Ops, TtlElapses(o) PROVE UNCHANGED Book!vars
  BY <1>6, <1>8 DEF TtlElapses
<1>9. CASE UNCHANGED vars
  BY <1>8, <1>9 DEF vars
<1>10. CASE ReserveStep \/ ApprovalStep
  BY <1>1, <1>2, <1>10 DEF ReserveStep, ApprovalStep
<1>11. CASE AttemptStep
  BY <1>3, <1>11, LoadedExists DEF AttemptStep
<1>12. CASE LoopStep
  BY <1>4, <1>12, LoadedExists DEF LoopStep
<1>13. CASE SettleStep
  BY <1>5, <1>13, LoadedExists DEF SettleStep
<1>14. CASE TtlStep \/ SweepStep
  BY <1>6, <1>7, <1>14 DEF TtlStep, SweepStep
<1> QED
  BY <1>9, <1>10, <1>11, <1>12, <1>13, <1>14 DEF Next

(* The escrow ledger implements the book of holds: every transaction of    *)
(* the sidecar and of the reconciler is one step of GovernedHolds or       *)
(* leaves money and holds alone.                                           *)
THEOREM LedgerImplementsHolds == Spec => ImplementsHolds
<1>1. Init => Book!Init
  <2> SUFFICES ASSUME Init PROVE Book!Init
    OBVIOUS
  <2>1. ASSUME NEW o \in Ops
        PROVE  HoldRow(o) = [state |-> "free", owner |-> None, amount |-> 0]
    <3>1. op[o].status = "NONE" /\ op[o].user = None
      BY DEF Init, NoOperation
    <3>2. HeldAmount(o) = 0 /\ SpentAmount(o) = 0
      BY <3>1 DEF HeldAmount, SpentAmount, Held
    <3> QED
      BY <3>1, <3>2, HoldStates DEF HoldRow
  <2>2. HoldOf = [o \in 1..NumOps |-> [state |-> "free", owner |-> None, amount |-> 0]]
    BY <2>1 DEF HoldOf, Ops
  <2>3. BalanceOf = InitialBalance
    BY ConstantsAssumption DEF Init, BalanceOf
  <2> QED
    BY <2>2, <2>3 DEF Book!Init
<1>2. TypeOK /\ RowsConsistent /\ AttemptsOwned /\ TypeOK' /\ [Next]_vars => [Book!Next]_(Book!vars)
  BY BookStep
<1> QED
  BY <1>1, <1>2, TypeCorrect, RowsStayConsistent, PTL DEF Spec, ImplementsHolds, Book!Spec

-----------------------------------------------------------------------------
(***************************************************************************)
(* The gateway                                                             *)
(*                                                                         *)
(* The composed system refines the ledger: every step of the gateway and   *)
(* of the sweep beside it is a step of EscrowLedger or leaves the ledger   *)
(* alone, so everything proved about Spec holds of GatewaySpec.            *)
(***************************************************************************)

(* The inductive invariant: types, and the request and the bill of a call  *)
(* that has got far enough to have them.                                   *)
CallsWellFormed ==
    \A c \in Calls :
        /\ call[c].pc # "idle" => call[c].amt \in EstimatedCosts
        /\ call[c].pc = "settle" => billed[c] \in ProviderCosts
        /\ call[c].pc = "idle" => billed[c] = None

GatewayInv == GatewayTypeOK /\ CallsWellFormed

LEMMA GatewayInitially == GatewayInit => GatewayInv
  BY DEF GatewayInit, GatewayInv, GatewayTypeOK, CallsWellFormed, Call, Phases

(* A call that moves to another phase keeps its request.                   *)
LEMMA GotoKeeps ==
    ASSUME GatewayTypeOK, NEW c \in Calls, NEW pc \in Phases, Goto(c, pc)
    PROVE  /\ call' \in [Calls -> Call]
           /\ call'[c].pc = pc
           /\ call'[c].key = call[c].key /\ call'[c].user = call[c].user
           /\ call'[c].trace = call[c].trace /\ call'[c].amt = call[c].amt
           /\ \A d \in Calls \ {c} : call'[d] = call[d]
  BY DEF Goto, GatewayTypeOK, Call

LEMMA GatewayInductive == GatewayInv /\ [GatewayNext]_gatewayVars => GatewayInv'
  <1> SUFFICES ASSUME GatewayInv, [GatewayNext]_gatewayVars PROVE GatewayInv'
    OBVIOUS
  <1>1. ASSUME UNCHANGED <<call, billed>> PROVE GatewayInv'
    BY <1>1 DEF GatewayInv, GatewayTypeOK, CallsWellFormed
  <1>2. ASSUME NEW c \in Calls, NEW key \in Ops, NEW u \in Users, NEW t \in Traces,
               NEW amt \in EstimatedCosts, Submit(c, key, u, t, amt)
        PROVE  GatewayInv'
    <2> DEFINE request == [pc |-> "reserve", key |-> key, user |-> u, trace |-> t, amt |-> amt]
    <2>1. call' = [call EXCEPT ![c] = request] /\ billed' = billed
      BY <1>2 DEF Submit
    <2>2. request \in Call
      BY ConstantsAssumption DEF Call, Phases
    <2>3. call' \in [Calls -> Call] /\ call'[c] = request /\ \A d \in Calls \ {c} : call'[d] = call[d]
      BY <2>1, <2>2 DEF GatewayInv, GatewayTypeOK
    <2> QED BY <2>1, <2>3 DEF GatewayInv, GatewayTypeOK, CallsWellFormed
  <1>3. ASSUME NEW c \in Calls, call[c].pc \in {"reserve", "dispatch", "settle"},
               NEW pc \in {"dispatch", "done", "failed"}, Goto(c, pc), billed' = billed
        PROVE  GatewayInv'
    <2>1. GatewayTypeOK /\ pc \in Phases
      BY DEF GatewayInv, Phases
    <2> QED BY <1>3, <2>1, GotoKeeps DEF GatewayInv, GatewayTypeOK, CallsWellFormed
  <1>4. ASSUME NEW c \in Calls, NEW cost \in ProviderCosts, CallProvider(c, cost)
        PROVE  GatewayInv'
    <2>1. GatewayTypeOK /\ "settle" \in Phases /\ "failed" \in Phases
      BY DEF GatewayInv, Phases
    <2>2. PICK pc \in {"settle", "failed"} : Goto(c, pc)
      BY <1>4 DEF CallProvider
    <2>3. billed' = [billed EXCEPT ![c] = cost] /\ call[c].pc = "dispatch"
      BY <1>4 DEF CallProvider
    <2>4. billed' \in [Calls -> ProviderCosts \cup {None}] /\ billed'[c] = cost
      BY <2>3 DEF GatewayInv, GatewayTypeOK
    <2>5. \A d \in Calls \ {c} : billed'[d] = billed[d]
      BY <2>3 DEF GatewayInv, GatewayTypeOK
    <2> QED BY <2>1, <2>2, <2>3, <2>4, <2>5, GotoKeeps DEF GatewayInv, GatewayTypeOK, CallsWellFormed
  <1>5. CASE GatewayStep
    <2> PICK c \in Calls :
          \/ \E key \in Ops, u \in Users, t \in Traces, amt \in EstimatedCosts :
                 Submit(c, key, u, t, amt)
          \/ CallReserve(c) \/ CallReserveReplay(c) \/ CallReserveUnapproved(c)
          \/ \E cost \in ProviderCosts : CallProvider(c, cost)
          \/ CallSettle(c) \/ CallFails(c)
      BY <1>5 DEF GatewayStep
    <2>1. CASE CallReserve(c)
      BY <1>3, <2>1 DEF CallReserve
    <2>2. CASE CallReserveReplay(c)
      BY <1>3, <2>2 DEF CallReserveReplay
    <2>3. CASE CallReserveUnapproved(c)
      BY <1>3, <2>3 DEF CallReserveUnapproved
    <2>4. CASE CallSettle(c)
      BY <1>3, <2>4 DEF CallSettle
    <2>5. CASE CallFails(c)
      BY <1>3, <2>5 DEF CallFails
    <2> QED BY <1>2, <1>4, <2>1, <2>2, <2>3, <2>4, <2>5
  <1>6. CASE LedgerStep
    BY <1>1, <1>6 DEF LedgerStep
  <1>7. CASE UNCHANGED gatewayVars
    BY <1>1, <1>7 DEF gatewayVars
  <1> QED BY <1>5, <1>6, <1>7 DEF GatewayNext

(* The composed system's own state is well typed.                          *)
THEOREM GatewayTypeCorrect == GatewaySpec => []GatewayTypeOK
  <1>1. GatewayInv => GatewayTypeOK
    BY DEF GatewayInv
  <1> QED BY GatewayInitially, GatewayInductive, <1>1, PTL DEF GatewaySpec

-----------------------------------------------------------------------------
(***************************************************************************)
(* Refinement                                                              *)
(***************************************************************************)

(* What the gateway asks of the sidecar is a request the ledger knows.     *)
LEMMA PayloadIsARequest ==
    ASSUME GatewayInv, NEW c \in Calls, call[c].pc # "idle"
    PROVE  call[c].key \in Ops /\ ReservePayload(c) \in ReserveRequest
  BY GatewayAssumption
  DEF GatewayInv, GatewayTypeOK, CallsWellFormed, ReservePayload, ReserveRequest

LEMMA ReportedCostIsACost ==
    ASSUME GatewayInv, NEW c \in Calls, call[c].pc = "settle"
    PROVE  SettleCost(c) \in ActualCosts
  BY GatewayAssumption DEF GatewayInv, CallsWellFormed, SettleCost

LEMMA GatewayStepIsLedgerStep ==
    ASSUME GatewayInv, [GatewayNext]_gatewayVars
    PROVE  [Next]_vars
  <1>1. ASSUME NEW c \in Calls, CallReserve(c) PROVE Next
    BY <1>1, PayloadIsARequest DEF CallReserve, Next, ReserveStep
  <1>2. ASSUME NEW c \in Calls, CallReserveUnapproved(c) PROVE Next
    BY <1>2, PayloadIsARequest DEF CallReserveUnapproved, Next, ApprovalStep
  <1>3. ASSUME NEW c \in Calls, CallSettle(c) PROVE Next
    <2>1. /\ call[c].pc = "settle"
          /\ call[c].key \in LoadOperation(call[c].key, c)
          /\ FinalizeSettlement(call[c].key, SettleCost(c), None, c)
      BY <1>3 DEF CallSettle
    <2>2. call[c].key \in Ops /\ SettleCost(c) \in ActualCosts /\ c \in ProviderIds
      BY <2>1, ReportedCostIsACost, PayloadIsARequest, GatewayAssumption
    <2>3. SettleStep
      BY <2>1, <2>2 DEF SettleStep
    <2> QED BY <2>3 DEF Next
  <1>4. CASE GatewayStep
    BY <1>1, <1>2, <1>3, <1>4
    DEF GatewayStep, Submit, CallReserveReplay, CallProvider, CallFails
  <1>5. CASE LedgerStep
    BY <1>5 DEF LedgerStep, Next
  <1>6. CASE UNCHANGED gatewayVars
    BY <1>6 DEF gatewayVars, vars
  <1> QED BY <1>4, <1>5, <1>6 DEF GatewayNext

(* The gateway composed with the sweep implements the ledger's             *)
(* specification: no call, lost answer or shared key makes the tables do   *)
(* what reserve, settle and sweep alone could not.                         *)
THEOREM GatewayImplementsLedger == GatewaySpec => Spec
  <1>1. GatewayInit => Init
    BY DEF GatewayInit
  <1> QED
    BY <1>1, GatewayInitially, GatewayInductive, GatewayStepIsLedgerStep, PTL
    DEF GatewaySpec, Spec

(* Hence no money is made or lost, whatever the gateway's calls do.        *)
THEOREM GatewayConservesFunds == GatewaySpec => []FundsConserved
  BY GatewayImplementsLedger, FundsAreConserved, PTL

-----------------------------------------------------------------------------
(***************************************************************************)
(* Answers and charges                                                     *)
(***************************************************************************)

(* Inductive together with the types of the ledger and the calls.          *)
ChargesInv == AnswersArePaid /\ ChargedOnlyIfServed

LEMMA ChargesInitially == GatewayInit => ChargesInv
  BY DEF GatewayInit, Init, NoOperation, ChargesInv, AnswersArePaid, ChargedOnlyIfServed

(* Rows that a step leaves alone, or only reserves or sweeps, keep the     *)
(* charges in order; what the step does to the calls is the hypothesis.    *)
LEMMA UnsettledStepKeeps ==
    ASSUME TypeOK, GatewayTypeOK, ChargesInv,
           \A q \in Ops :
               /\ op[q].status = "SETTLED" => op'[q] = op[q]
               /\ op'[q].status = "SETTLED" => op[q].status = "SETTLED",
           \A c \in Calls :
               /\ call'[c].pc = "done" =>
                     call[c].pc = "done" /\ call'[c] = call[c] /\ billed'[c] = billed[c]
               /\ billed[c] # None => billed'[c] # None /\ call'[c].key = call[c].key
    PROVE  ChargesInv'
  <1>1. AnswersArePaid'
    <2> SUFFICES ASSUME NEW c \in Calls, call'[c].pc = "done"
                 PROVE  /\ op'[call'[c].key].status = "SETTLED"
                        /\ op'[call'[c].key].prid = c
                        /\ op'[call'[c].key].actual = SettleCost(c)'
      BY DEF AnswersArePaid
    <2>1. call[c].pc = "done" /\ call'[c] = call[c] /\ billed'[c] = billed[c] /\ call[c].key \in Ops
      BY DEF GatewayTypeOK
    <2>2. /\ op[call[c].key].status = "SETTLED" /\ op[call[c].key].prid = c
          /\ op[call[c].key].actual = SettleCost(c)
      BY <2>1 DEF ChargesInv, AnswersArePaid
    <2> QED BY <2>1, <2>2 DEF SettleCost
  <1>2. ChargedOnlyIfServed'
    BY DEF ChargesInv, ChargedOnlyIfServed
  <1> QED BY <1>1, <1>2 DEF ChargesInv

(* The settlement of a call charges its own row for its own answer.        *)
LEMMA CallSettleKeeps ==
    ASSUME TypeOK, GatewayInv, ChargesInv, NEW c \in Calls, CallSettle(c)
    PROVE  ChargesInv'
  <1> DEFINE o == call[c].key
             cost == SettleCost(c)
  <1>1. /\ call[c].pc = "settle" /\ billed' = billed
        /\ FinalizeSettlement(o, cost, None, c)
        /\ o \in Ops /\ op[o].status # "NONE"
    BY LoadedExists DEF CallSettle
  <1>2. PICK pc \in {"done", "failed"} : Goto(c, pc)
    BY DEF CallSettle
  <1>3. /\ call'[c].pc \in {"done", "failed"}
        /\ call'[c].key = o /\ call'[c].amt = call[c].amt
        /\ \A d \in Calls \ {c} : call'[d] = call[d]
    BY <1>2, GotoKeeps DEF GatewayInv, Phases
  <1>4. cost \in ActualCosts /\ c \in ProviderIds /\ c # None
    BY <1>1, ReportedCostIsACost, GatewayAssumption, NoneAssumption
  <1>5. /\ op'[o].status = "SETTLED" /\ op'[o].actual = cost
        /\ \A q \in Ops : q # o => op'[q] = op[q]
    BY <1>1, <1>4, SettleEffect
  <1>6. op'[o].prid = c
    <2>1. op' = [op EXCEPT ![o].status = "SETTLED", ![o].actual = cost, ![o].prid = Coalesce(c, @)]
      BY <1>1 DEF FinalizeSettlement
    <2>2. op \in [Ops -> Operation] /\ op[o] \in Operation
      BY <1>1 DEF TypeOK
    <2> QED BY <1>1, <1>4, <2>1, <2>2 DEF Coalesce, Operation
  <1>7. op[o].status # "SETTLED"
    BY <1>1 DEF FinalizeSettlement
  <1>8. billed[c] \in ProviderCosts /\ billed[c] # None
    BY <1>1, GatewayAssumption DEF GatewayInv, CallsWellFormed
  <1>9. AnswersArePaid'
    <2> SUFFICES ASSUME NEW d \in Calls, call'[d].pc = "done"
                 PROVE  /\ op'[call'[d].key].status = "SETTLED"
                        /\ op'[call'[d].key].prid = d
                        /\ op'[call'[d].key].actual = SettleCost(d)'
      BY DEF AnswersArePaid
    <2>1. CASE d = c
      BY <1>1, <1>3, <1>5, <1>6, <2>1 DEF SettleCost
    <2>2. CASE d # c
      <3>1. call'[d] = call[d] /\ billed'[d] = billed[d] /\ call[d].pc = "done" /\ call[d].key \in Ops
        BY <1>1, <1>3, <2>2 DEF GatewayInv, GatewayTypeOK
      <3>2. /\ op[call[d].key].status = "SETTLED" /\ op[call[d].key].prid = d
            /\ op[call[d].key].actual = SettleCost(d)
        BY <3>1 DEF ChargesInv, AnswersArePaid
      <3>3. op'[call[d].key] = op[call[d].key]
        BY <1>5, <1>7, <3>1, <3>2
      <3> QED BY <3>1, <3>2, <3>3 DEF SettleCost
    <2> QED BY <2>1, <2>2
  <1>10. ChargedOnlyIfServed'
    <2> SUFFICES ASSUME NEW q \in Ops, op'[q].status = "SETTLED"
                 PROVE  \E d \in Calls : op'[q].prid = d /\ call'[d].key = q /\ billed'[d] # None
      BY DEF ChargedOnlyIfServed
    <2>1. CASE q = o
      BY <1>1, <1>3, <1>6, <1>8, <2>1
    <2>2. CASE q # o
      <3>1. op'[q] = op[q]
        BY <1>5, <2>2
      <3>2. PICK d \in Calls : op[q].prid = d /\ call[d].key = q /\ billed[d] # None
        BY <3>1 DEF ChargesInv, ChargedOnlyIfServed
      <3> QED BY <1>1, <1>3, <3>1, <3>2
    <2> QED BY <2>1, <2>2
  <1> QED BY <1>9, <1>10 DEF ChargesInv

LEMMA ChargesInductive ==
    ASSUME TypeOK, GatewayInv, ChargesInv, [GatewayNext]_gatewayVars
    PROVE  ChargesInv'
  <1> USE DEF GatewayInv
  <1>1. ASSUME NEW c \in Calls, NEW key \in Ops, NEW u \in Users, NEW t \in Traces,
               NEW amt \in EstimatedCosts, Submit(c, key, u, t, amt)
        PROVE  ChargesInv'
    <2>1. /\ call' = [call EXCEPT ![c] = [pc |-> "reserve", key |-> key, user |-> u,
                                         trace |-> t, amt |-> amt]]
          /\ call[c].pc = "idle" /\ op' = op /\ billed' = billed
      BY <1>1 DEF Submit, vars
    <2>2. call'[c].pc = "reserve" /\ billed[c] = None /\ \A d \in Calls \ {c} : call'[d] = call[d]
      BY <2>1 DEF GatewayTypeOK, CallsWellFormed
    <2> QED BY <2>1, <2>2, UnsettledStepKeeps DEF GatewayTypeOK
  <1>2. ASSUME NEW c \in Calls, CallReserve(c) PROVE ChargesInv'
    <2> DEFINE o == call[c].key
               r == ReservePayload(c)
    <2>1. call[c].pc = "reserve" /\ Reserve(o, r) /\ billed' = billed
      BY <1>2 DEF CallReserve
    <2>2. o \in Ops /\ r \in ReserveRequest /\ r.amt = call[c].amt
      BY <2>1, PayloadIsARequest DEF ReservePayload
    <2>3. /\ op'[o].status = "RESERVED" /\ op'[o].amt = call[c].amt /\ r.user \in Users
          /\ \A q \in Ops : q # o => op'[q] = op[q]
      BY <2>1, <2>2, ReserveEffect
    <2>4. op[o].status = "NONE"
      BY <2>1 DEF Reserve
    <2>5. PICK pc \in {"dispatch", "failed"} : Goto(c, pc)
      BY <1>2 DEF CallReserve
    <2>6. /\ call'[c].pc \in {"dispatch", "failed"} /\ call'[c].key = o
          /\ call'[c].amt = call[c].amt
          /\ \A d \in Calls \ {c} : call'[d] = call[d]
      BY <2>5, GotoKeeps DEF Phases
    <2> QED BY <2>1, <2>2, <2>3, <2>4, <2>6, UnsettledStepKeeps DEF GatewayTypeOK
  <1>3. ASSUME NEW c \in Calls, CallReserveReplay(c) PROVE ChargesInv'
    <2>1. /\ call[c].pc = "reserve" /\ Goto(c, "dispatch") /\ op' = op
          /\ billed' = billed /\ op[call[c].key].status # "NONE"
          /\ op[call[c].key].amt = call[c].amt
      BY <1>3 DEF CallReserveReplay, SameFingerprint, vars
    <2>2. /\ call'[c].pc = "dispatch" /\ call'[c].key = call[c].key
          /\ call'[c].amt = call[c].amt
          /\ \A d \in Calls \ {c} : call'[d] = call[d]
      BY <2>1, GotoKeeps DEF Phases
    <2> QED BY <2>1, <2>2, UnsettledStepKeeps DEF GatewayTypeOK
  <1>4. ASSUME NEW c \in Calls, Goto(c, "failed"), op' = op, billed' = billed
        PROVE  ChargesInv'
    <2>1. /\ call'[c].pc = "failed" /\ call'[c].key = call[c].key
          /\ \A d \in Calls \ {c} : call'[d] = call[d]
      BY <1>4, GotoKeeps DEF Phases
    <2> QED BY <1>4, <2>1, UnsettledStepKeeps DEF GatewayTypeOK
  <1>5. ASSUME NEW c \in Calls, NEW cost \in ProviderCosts, CallProvider(c, cost)
        PROVE  ChargesInv'
    <2>1. PICK pc \in {"settle", "failed"} : Goto(c, pc)
      BY <1>5 DEF CallProvider
    <2>2. /\ call'[c].pc \in {"settle", "failed"} /\ call'[c].key = call[c].key
          /\ call'[c].amt = call[c].amt
          /\ \A d \in Calls \ {c} : call'[d] = call[d]
      BY <2>1, GotoKeeps DEF Phases
    <2>3. /\ call[c].pc = "dispatch" /\ op' = op
          /\ billed' = [billed EXCEPT ![c] = cost]
      BY <1>5 DEF CallProvider, vars
    <2>4. billed'[c] = cost /\ cost # None /\ \A d \in Calls \ {c} : billed'[d] = billed[d]
      BY <2>3, GatewayAssumption DEF GatewayTypeOK
    <2> QED BY <2>2, <2>3, <2>4, UnsettledStepKeeps DEF GatewayTypeOK
  <1>6. CASE LedgerStep
    <2>1. call' = call /\ billed' = billed
      BY <1>6 DEF LedgerStep
    <2>2. CASE TtlStep
      <3>1. op' = op
        BY <2>2 DEF TtlStep, TtlElapses
      <3> QED BY <2>1, <3>1, UnsettledStepKeeps DEF GatewayTypeOK
    <2>3. ASSUME NEW S \in SUBSET Ops, Sweep(S) PROVE ChargesInv'
      <3>1. ASSUME NEW q \in Ops
            PROVE  /\ op[q].status = "SETTLED" => op'[q] = op[q]
                   /\ op'[q].status = "SETTLED" => op[q].status = "SETTLED"
        BY <2>3, SweepEffect DEF Sweepable
      <3> QED BY <2>1, <3>1, UnsettledStepKeeps DEF GatewayTypeOK
    <2> QED BY <1>6, <2>2, <2>3 DEF LedgerStep, SweepStep
  <1>7. CASE UNCHANGED gatewayVars
    <2>1. op' = op /\ call' = call /\ billed' = billed
      BY <1>7 DEF gatewayVars
    <2> QED BY <2>1, UnsettledStepKeeps DEF GatewayTypeOK
  <1>8. ASSUME NEW c \in Calls, CallReserveUnapproved(c) \/ CallFails(c) PROVE ChargesInv'
    BY <1>4, <1>8 DEF CallReserveUnapproved, CallFails, ReserveNeedsApproval, vars
  <1>9. CASE GatewayStep
    BY <1>1, <1>2, <1>3, <1>5, <1>8, <1>9, CallSettleKeeps DEF GatewayStep
  <1> QED BY <1>6, <1>7, <1>9 DEF GatewayNext

LEMMA ChargesHold == GatewaySpec => []ChargesInv
  <1>1. GatewaySpec => []GatewayInv
    BY GatewayInitially, GatewayInductive, PTL DEF GatewaySpec
  <1>2. GatewaySpec => []TypeOK
    BY GatewayImplementsLedger, TypeCorrect, PTL
  <1>3. TypeOK /\ GatewayInv /\ ChargesInv /\ [GatewayNext]_gatewayVars => ChargesInv'
    BY ChargesInductive
  <1> QED BY <1>1, <1>2, <1>3, ChargesInitially, PTL DEF GatewaySpec

(* Whoever gets an answer has paid for it, exactly once and at the         *)
(* reported cost, however many calls share a key.                          *)
THEOREM EveryAnswerIsPaid == GatewaySpec => []AnswersArePaid
  <1>1. ChargesInv => AnswersArePaid
    BY DEF ChargesInv
  <1> QED BY <1>1, ChargesHold, PTL

(* No key is charged for a provider call that was not made for it.         *)
THEOREM EveryChargeWasServed == GatewaySpec => []ChargedOnlyIfServed
  <1>1. ChargesInv => ChargedOnlyIfServed
    BY DEF ChargesInv
  <1> QED BY <1>1, ChargesHold, PTL
=============================================================================
