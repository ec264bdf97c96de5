------------------------ MODULE CrystalCommitProofs ------------------------
(***************************************************************************)
(* The theorems of CrystalCommit, for any number of operations, accounts,  *)
(* policies and mesh rules, any amounts and tolerances, and each governor. *)
(* Every action is first reduced to what it does to one row (or, for the   *)
(* sweep, to each row of its batch); the theorems then argue over rows.    *)
(***************************************************************************)
EXTENDS CrystalCommit, LedgerSumsProofs, FiniteSetTheorems, TLAPS

-----------------------------------------------------------------------------
(* What the type invariant says of one row.                                *)
LEMMA RowTypes ==
    ASSUME TypeOK, NEW o \in Ops
    PROVE  /\ crystal[o] \in Crystal /\ crystal[o].amt \in Nat /\ crystal[o].committed \in Nat
           /\ crystal[o].status \in Terminal \cup {"NONE", "CRYSTALLIZED"}
           /\ crystal[o].terminal \in Terminal \cup {None}
           /\ events[o] \in [EventTypes -> Nat]
           /\ crystal[o].status # "NONE" =>
                 /\ crystal[o].account \in Accounts
                 /\ account[crystal[o].account].balance \in Nat
                 /\ account[crystal[o].account].active \in BOOLEAN
  BY DEF TypeOK, Crystal

LEMMA ExistingCount ==
    Cardinality(Existing) \in Nat
<1>1. IsFiniteSet(Ops)
  BY CrystalAssumption, FS_Interval, 1 \in Int, NumOps \in Int DEF Ops
<1>2. Existing \subseteq Ops
  BY DEF Existing
<1> QED
  BY <1>1, <1>2, FS_Subset, FS_CardinalityType

(* What was agreed when an operation was crystallized.                     *)
SameTerms(x, y) ==
    /\ x.platform = y.platform /\ x.account = y.account /\ x.tier = y.tier
    /\ x.policy = y.policy /\ x.facets = y.facets /\ x.amt = y.amt

(* Counting the events of one operation.                                   *)
LEMMA EventsCounted ==
    ASSUME TypeOK, NEW o \in Ops, NEW es \in SUBSET EventTypes, AppendEvents(o, es)
    PROVE  /\ events' \in [Ops -> [EventTypes -> Nat]]
           /\ \A e \in EventTypes : events'[o][e] = events[o][e] + IF e \in es THEN 1 ELSE 0
           /\ \A q \in Ops : q # o => events'[q] = events[q]
  BY DEF TypeOK, AppendEvents

LEMMA DriftEventTypes ==
    ASSUME NEW drift, NEW reserved
    PROVE  DriftEvents(drift, reserved) \in SUBSET {"DRIFT_ENFORCED", "DRIFT_TOLERATED"}
  BY DEF DriftEvents

LEMMA RefundType ==
    ASSUME TypeOK, NEW o \in Ops, NEW c \in Commitments
    PROVE  /\ c \in Nat
           /\ CommitRefund(o, c) \in Nat
           /\ CommitRefund(o, c) = crystal[o].amt - Lesser(c, crystal[o].amt)
           /\ Lesser(c, crystal[o].amt) \in Nat
<1>1. c \in Nat /\ crystal[o].amt \in Nat
  BY RowTypes, CrystalAssumption
<1> QED
  BY <1>1 DEF CommitRefund, Lesser

-----------------------------------------------------------------------------
(***************************************************************************)
(* What the actions do to the rows                                         *)
(***************************************************************************)

LEMMA CrystallizeEffect ==
    ASSUME TypeOK, NEW o \in Ops, NEW r \in Request, NEW pol \in Policies \cup {None},
           CrystallizeUnder(o, r, pol)
    PROVE  /\ crystal[o].status = "NONE"
           /\ account' \in [Accounts -> [balance: Nat, active: BOOLEAN]]
           /\ \A a \in Accounts :
                 /\ account'[a].balance = account[a].balance - IF a = r.account THEN r.amt ELSE 0
                 /\ account'[a].active = account[a].active
           /\ crystal' \in [Ops -> Crystal]
           /\ crystal'[o].status = "CRYSTALLIZED" /\ crystal'[o].terminal = None
           /\ crystal'[o].account = r.account /\ crystal'[o].amt = r.amt
           /\ crystal'[o].platform = r.platform /\ crystal'[o].adjudicated = FALSE
           /\ r.account \in Accounts /\ r.platform \in Platforms /\ r.amt \in Nat
           /\ \A q \in Ops : q # o => crystal'[q] = crystal[q] /\ events'[q] = events[q]
           /\ events' \in [Ops -> [EventTypes -> Nat]]
           /\ \A e \in EventTypes : e # "CRYSTAL_CREATED" => events'[o][e] = events[o][e]
           /\ UNCHANGED <<governor, past>>
<1>1. /\ r.account \in Accounts /\ r.platform \in Platforms /\ r.amt \in Nat
      /\ r.tier \in HighRisk \cup {"standard"} /\ r.facets \in Facets
  BY CrystalAssumption DEF Request
<1>2. account[r.account].balance >= r.amt /\ account[r.account].balance \in Nat
  BY <1>1 DEF CrystallizeUnder, HoldFits, TypeOK
<1>3. /\ account' \in [Accounts -> [balance: Nat, active: BOOLEAN]]
      /\ \A a \in Accounts :
            /\ account'[a].balance = account[a].balance - IF a = r.account THEN r.amt ELSE 0
            /\ account'[a].active = account[a].active
  <2>1. account' = [account EXCEPT ![r.account] =
                     [balance |-> @.balance - r.amt, active |-> @.active]]
    BY DEF CrystallizeUnder
  <2>2. account \in [Accounts -> [balance: Nat, active: BOOLEAN]]
    BY DEF TypeOK
  <2> QED
    BY <1>1, <1>2, <2>1, <2>2
<1> DEFINE n == Cardinality(Existing) + 1
           row == [status |-> "CRYSTALLIZED", terminal |-> None,
                   platform |-> r.platform, account |-> r.account,
                   tier |-> r.tier, policy |-> pol, facets |-> r.facets,
                   amt |-> r.amt, committed |-> 0, born |-> n, adjudicated |-> FALSE]
<1>4. crystal' = [crystal EXCEPT ![o] = row]
  BY DEF CrystallizeUnder
<1>5. n \in Nat
  BY ExistingCount
<1> HIDE DEF n
<1>6. row \in Crystal
  BY <1>1, <1>5 DEF Crystal
<1>7. /\ crystal' \in [Ops -> Crystal] /\ crystal'[o] = row
      /\ \A q \in Ops : q # o => crystal'[q] = crystal[q]
  <2>1. crystal \in [Ops -> Crystal]
    BY DEF TypeOK
  <2> HIDE DEF row
  <2> QED
    BY <1>4, <1>6, <2>1
<1>8. AppendEvents(o, {"CRYSTAL_CREATED"}) /\ {"CRYSTAL_CREATED"} \in SUBSET EventTypes
  BY DEF CrystallizeUnder, EventTypes
<1>9. /\ events' \in [Ops -> [EventTypes -> Nat]]
      /\ \A e \in EventTypes : events'[o][e] = events[o][e] + IF e \in {"CRYSTAL_CREATED"} THEN 1 ELSE 0
      /\ \A q \in Ops : q # o => events'[q] = events[q]
  BY <1>8, EventsCounted
<1>10. \A e \in EventTypes : events[o][e] \in Nat
  BY DEF TypeOK
<1>11. \A e \in EventTypes : e # "CRYSTAL_CREATED" => events'[o][e] = events[o][e]
  BY <1>9, <1>10
<1>12. crystal[o].status = "NONE" /\ UNCHANGED <<governor, past>>
  BY DEF CrystallizeUnder
<1> QED
  BY <1>1, <1>3, <1>7, <1>9, <1>11, <1>12

(* The commits of the three governors share their effect on the row and    *)
(* the balance; only finance may deactivate the account.                   *)
LEMMA CommitEffect ==
    ASSUME TypeOK, NEW o \in Ops, NEW facets, NEW c \in Commitments, NEW late,
           FinanceCommit(o, facets, c, late) \/ CommitUnenforced(o, facets, c, late)
    PROVE  /\ crystal[o].status # "NONE" /\ crystal[o].terminal = None
           /\ account' \in [Accounts -> [balance: Nat, active: BOOLEAN]]
           /\ \A a \in Accounts :
                 /\ account'[a].balance =
                      account[a].balance + IF a = crystal[o].account THEN CommitRefund(o, c) ELSE 0
                 /\ account'[a].active => account[a].active
           /\ crystal' \in [Ops -> Crystal]
           /\ crystal'[o].status = "COMMITTED" /\ crystal'[o].terminal = "COMMITTED"
           /\ crystal'[o].committed = c /\ SameTerms(crystal'[o], crystal[o])
           /\ \A q \in Ops : q # o => crystal'[q] = crystal[q] /\ events'[q] = events[q]
           /\ events' \in [Ops -> [EventTypes -> Nat]]
           /\ events'[o]["COMMITTED_FINAL"] = events[o]["COMMITTED_FINAL"] + 1
           /\ events'[o]["HORIZON_EXPIRED"] = events[o]["HORIZON_EXPIRED"]
           /\ events'[o]["STRANDED_HOLD"] = events[o]["STRANDED_HOLD"]
           /\ UNCHANGED <<governor, past>>
<1>1. crystal[o].status # "NONE" /\ crystal[o].terminal = None
  BY DEF FinanceCommit, CommitUnenforced, MayCommit, Open
<1>2. /\ c \in Nat /\ CommitRefund(o, c) \in Nat /\ crystal[o].account \in Accounts
      /\ account \in [Accounts -> [balance: Nat, active: BOOLEAN]]
  BY <1>1, RefundType, RowTypes DEF TypeOK
<1>3. PICK ac \in BOOLEAN :
        /\ ac => account[crystal[o].account].active
        /\ account' = [account EXCEPT ![crystal[o].account] =
                        [balance |-> @.balance + CommitRefund(o, c), active |-> ac]]
  <2>1. CASE FinanceCommit(o, facets, c, late)
    <3> DEFINE b == account[crystal[o].account].active
                    /\ ~DriftExceedsTolerance(c - crystal[o].amt, crystal[o].amt)
    <3>1. account' = [account EXCEPT ![crystal[o].account] =
                        [balance |-> @.balance + CommitRefund(o, c), active |-> b]]
      BY <2>1 DEF FinanceCommit
    <3>2. b \in BOOLEAN /\ (b => account[crystal[o].account].active)
      OBVIOUS
    <3> HIDE DEF b
    <3> QED
      BY <3>1, <3>2
  <2>2. CASE CommitUnenforced(o, facets, c, late)
    <3>1. account[crystal[o].account].active \in BOOLEAN
      BY <1>2
    <3>2. account' = [account EXCEPT ![crystal[o].account] =
                        [balance |-> @.balance + CommitRefund(o, c),
                         active |-> account[crystal[o].account].active]]
      BY <2>2 DEF CommitUnenforced
    <3> QED
      BY <3>1, <3>2
  <2> QED
    BY <2>1, <2>2
<1>4. /\ account' \in [Accounts -> [balance: Nat, active: BOOLEAN]]
      /\ \A a \in Accounts :
            /\ account'[a].balance =
                 account[a].balance + IF a = crystal[o].account THEN CommitRefund(o, c) ELSE 0
            /\ account'[a].active => account[a].active
  <2> DEFINE x == crystal[o].account
             d == CommitRefund(o, c)
  <2>1. x \in Accounts /\ d \in Nat
        /\ account' = [account EXCEPT ![x] = [balance |-> @.balance + d, active |-> ac]]
    BY <1>2, <1>3
  <2>2. ac => account[x].active
    BY <1>3
  <2> HIDE DEF x, d
  <2>3. account' \in [Accounts -> [balance: Nat, active: BOOLEAN]]
    BY <1>2, <2>1
  <2>4. ASSUME NEW a \in Accounts
        PROVE  account'[a].balance = account[a].balance + IF a = x THEN d ELSE 0
    BY <1>2, <2>1
  <2>5. ASSUME NEW a \in Accounts, account'[a].active
        PROVE  account[a].active
    <3>1. CASE a = x
      BY <3>1, <2>1, <2>2, <2>5, <1>2
    <3>2. CASE a # x
      BY <3>2, <2>1, <2>5, <1>2
    <3> QED
      BY <3>1, <3>2
  <2> QED
    BY <2>3, <2>4, <2>5 DEF x, d
<1>5. crystal' = [crystal EXCEPT ![o].status = "COMMITTED", ![o].terminal = "COMMITTED",
                                 ![o].committed = c]
  BY DEF FinanceCommit, CommitUnenforced, Committed
<1>6. /\ crystal' \in [Ops -> Crystal]
      /\ crystal'[o].status = "COMMITTED" /\ crystal'[o].terminal = "COMMITTED"
      /\ crystal'[o].committed = c /\ SameTerms(crystal'[o], crystal[o])
      /\ \A q \in Ops : q # o => crystal'[q] = crystal[q]
  <2> DEFINE row == [crystal[o] EXCEPT !.status = "COMMITTED", !.terminal = "COMMITTED",
                                       !.committed = c]
  <2>0. /\ row.status = "COMMITTED" /\ row.terminal = "COMMITTED" /\ row.committed = c
        /\ SameTerms(row, crystal[o])
    BY RowTypes DEF Crystal, SameTerms
  <2>1. row \in Crystal
    BY <1>2, RowTypes DEF Crystal, Terminal
  <2>2. crystal' = [crystal EXCEPT ![o] = row] /\ crystal \in [Ops -> Crystal]
    BY <1>5 DEF TypeOK
  <2> HIDE DEF row
  <2> QED
    BY <2>0, <2>1, <2>2
<1>7. PICK es \in SUBSET {"DRIFT_ENFORCED", "DRIFT_TOLERATED"} :
          AppendEvents(o, {"COMMITTED_FINAL"} \cup es)
  <2>1. CASE FinanceCommit(o, facets, c, late)
    BY <2>1, DriftEventTypes DEF FinanceCommit
  <2>2. CASE CommitUnenforced(o, facets, c, late)
    <3>1. AppendEvents(o, {"COMMITTED_FINAL"} \cup {})
      BY <2>2 DEF CommitUnenforced
    <3> QED
      BY <3>1
  <2> QED
    BY <2>1, <2>2
<1>8. {"COMMITTED_FINAL"} \cup es \in SUBSET EventTypes
  BY <1>7 DEF EventTypes
<1>9. /\ events' \in [Ops -> [EventTypes -> Nat]]
      /\ \A e \in EventTypes : events'[o][e] =
            events[o][e] + IF e \in {"COMMITTED_FINAL"} \cup es THEN 1 ELSE 0
      /\ \A q \in Ops : q # o => events'[q] = events[q]
  <2> DEFINE all == {"COMMITTED_FINAL"} \cup es
  <2>1. all \in SUBSET EventTypes /\ AppendEvents(o, all)
    BY <1>7, <1>8
  <2> HIDE DEF all
  <2>2. /\ events' \in [Ops -> [EventTypes -> Nat]]
        /\ \A e \in EventTypes : events'[o][e] = events[o][e] + IF e \in all THEN 1 ELSE 0
        /\ \A q \in Ops : q # o => events'[q] = events[q]
    BY <2>1, EventsCounted
  <2> QED
    BY <2>2 DEF all
<1>10. /\ events'[o]["COMMITTED_FINAL"] = events[o]["COMMITTED_FINAL"] + 1
       /\ events'[o]["HORIZON_EXPIRED"] = events[o]["HORIZON_EXPIRED"]
       /\ events'[o]["STRANDED_HOLD"] = events[o]["STRANDED_HOLD"]
  BY <1>7, <1>9, RowTypes DEF EventTypes
<1>11. UNCHANGED <<governor, past>>
  BY DEF FinanceCommit, CommitUnenforced
<1> QED
  BY <1>1, <1>4, <1>5, <1>6, <1>9, <1>10, <1>11

(* What is common to a manual strand and to the other ways a row ends.     *)
LEMMA AdjudicateEffect ==
    ASSUME TypeOK, NEW o \in Ops, Adjudicate(o)
    PROVE  /\ crystal[o].status # "NONE" /\ crystal[o].terminal = None
           /\ account' \in [Accounts -> [balance: Nat, active: BOOLEAN]]
           /\ \A a \in Accounts :
                 /\ account'[a].balance =
                      account[a].balance + IF a = crystal[o].account THEN crystal[o].amt ELSE 0
                 /\ account'[a].active = account[a].active
           /\ crystal' \in [Ops -> Crystal]
           /\ crystal'[o].status = "STRANDED" /\ crystal'[o].terminal = "STRANDED"
           /\ crystal'[o].adjudicated = TRUE /\ SameTerms(crystal'[o], crystal[o])
           /\ \A q \in Ops : q # o => crystal'[q] = crystal[q] /\ events'[q] = events[q]
           /\ events' \in [Ops -> [EventTypes -> Nat]]
           /\ events'[o]["COMMITTED_FINAL"] = events[o]["COMMITTED_FINAL"]
           /\ events'[o]["HORIZON_EXPIRED"] = events[o]["HORIZON_EXPIRED"]
           /\ events'[o]["STRANDED_HOLD"] = events[o]["STRANDED_HOLD"] + 1
           /\ UNCHANGED <<governor, past>>
<1>1. crystal[o].status # "NONE" /\ crystal[o].terminal = None
  BY DEF Adjudicate, Open
<1>2. /\ crystal[o].amt \in Nat /\ crystal[o].account \in Accounts
      /\ account \in [Accounts -> [balance: Nat, active: BOOLEAN]]
  BY <1>1, RowTypes DEF TypeOK
<1>3. /\ account' \in [Accounts -> [balance: Nat, active: BOOLEAN]]
      /\ \A a \in Accounts :
            /\ account'[a].balance =
                 account[a].balance + IF a = crystal[o].account THEN crystal[o].amt ELSE 0
            /\ account'[a].active = account[a].active
  <2> DEFINE x == crystal[o].account
             d == crystal[o].amt
  <2>1. x \in Accounts /\ d \in Nat
        /\ account' = [account EXCEPT ![x] = [balance |-> @.balance + d, active |-> @.active]]
    BY <1>2 DEF Adjudicate
  <2> HIDE DEF x, d
  <2>2. account' \in [Accounts -> [balance: Nat, active: BOOLEAN]]
    BY <1>2, <2>1
  <2>3. ASSUME NEW a \in Accounts
        PROVE  account'[a].balance = account[a].balance + IF a = x THEN d ELSE 0
    BY <1>2, <2>1
  <2>4. ASSUME NEW a \in Accounts PROVE account'[a].active = account[a].active
    BY <1>2, <2>1
  <2> QED
    BY <2>2, <2>3, <2>4 DEF x, d
<1>4. crystal' = [crystal EXCEPT ![o].status = "STRANDED", ![o].terminal = "STRANDED",
                                 ![o].adjudicated = TRUE]
  BY DEF Adjudicate
<1>5. /\ crystal' \in [Ops -> Crystal]
      /\ crystal'[o].status = "STRANDED" /\ crystal'[o].terminal = "STRANDED"
      /\ crystal'[o].adjudicated = TRUE /\ SameTerms(crystal'[o], crystal[o])
      /\ \A q \in Ops : q # o => crystal'[q] = crystal[q]
  <2> DEFINE row == [crystal[o] EXCEPT !.status = "STRANDED", !.terminal = "STRANDED",
                                       !.adjudicated = TRUE]
  <2>0. /\ row.status = "STRANDED" /\ row.terminal = "STRANDED" /\ row.adjudicated = TRUE
        /\ SameTerms(row, crystal[o])
    BY RowTypes DEF Crystal, SameTerms
  <2>1. row \in Crystal
    BY RowTypes DEF Crystal, Terminal
  <2>2. crystal' = [crystal EXCEPT ![o] = row] /\ crystal \in [Ops -> Crystal]
    BY <1>4 DEF TypeOK
  <2> HIDE DEF row
  <2> QED
    BY <2>0, <2>1, <2>2
<1>6. AppendEvents(o, {"STRANDED_HOLD"}) /\ {"STRANDED_HOLD"} \in SUBSET EventTypes
  BY DEF Adjudicate, EventTypes
<1>7. /\ events' \in [Ops -> [EventTypes -> Nat]]
      /\ \A e \in EventTypes : events'[o][e] = events[o][e] + IF e \in {"STRANDED_HOLD"} THEN 1 ELSE 0
      /\ \A q \in Ops : q # o => events'[q] = events[q]
  BY <1>6, EventsCounted
<1>8. /\ events'[o]["COMMITTED_FINAL"] = events[o]["COMMITTED_FINAL"]
      /\ events'[o]["HORIZON_EXPIRED"] = events[o]["HORIZON_EXPIRED"]
      /\ events'[o]["STRANDED_HOLD"] = events[o]["STRANDED_HOLD"] + 1
  BY <1>7, RowTypes DEF EventTypes
<1> QED
  BY <1>1, <1>3, <1>4, <1>5, <1>7, <1>8 DEF Adjudicate

(* A sweep resolves the rows of its batch, each by its own risk tier, and  *)
(* touches no other.                                                       *)
LEMMA SweepEffect ==
    ASSUME TypeOK, NEW S \in SUBSET Ops, Sweep(S)
    PROVE  /\ account' \in [Accounts -> [balance: Nat, active: BOOLEAN]]
           /\ \A a \in Accounts :
                 /\ ReleasedTo(S, a) \in Nat
                 /\ account'[a].balance = account[a].balance + ReleasedTo(S, a)
                 /\ account'[a].active = account[a].active
           /\ crystal' \in [Ops -> Crystal]
           /\ events' \in [Ops -> [EventTypes -> Nat]]
           /\ \A q \in Ops :
                 /\ q \notin S => crystal'[q] = crystal[q] /\ events'[q] = events[q]
                 /\ q \in S =>
                      /\ crystal[q].status = "CRYSTALLIZED" /\ crystal[q].terminal = None
                      /\ crystal'[q].status = IF Strands(q) THEN "STRANDED" ELSE "EXPIRED"
                      /\ crystal'[q].terminal = crystal'[q].status
                      /\ crystal'[q].committed = crystal[q].committed
                      /\ crystal'[q].adjudicated = crystal[q].adjudicated
                      /\ SameTerms(crystal'[q], crystal[q])
                      /\ events'[q]["COMMITTED_FINAL"] = events[q]["COMMITTED_FINAL"]
                      /\ events'[q]["HORIZON_EXPIRED"] =
                            events[q]["HORIZON_EXPIRED"] + IF Strands(q) THEN 0 ELSE 1
                      /\ events'[q]["STRANDED_HOLD"] =
                            events[q]["STRANDED_HOLD"] + IF Strands(q) THEN 1 ELSE 0
           /\ UNCHANGED <<governor, past>>
<1>0. SweepHorizons(S)
  BY DEF Sweep, FinanceSweep, InsuranceSweep, CyberSweep
<1>1. ASSUME NEW a \in Accounts PROVE ReleasedTo(S, a) \in Nat
  <2>1. AccountReleases(S, a) \in [1..NumOps -> Nat]
    BY RowTypes DEF AccountReleases, Ops
  <2> QED
    BY <2>1, SumNonNegative, CrystalAssumption DEF ReleasedTo
<1>2. account' = [a \in Accounts |->
                    [balance |-> account[a].balance + ReleasedTo(S, a), active |-> account[a].active]]
  BY <1>0 DEF SweepHorizons
<1>3. /\ account' \in [Accounts -> [balance: Nat, active: BOOLEAN]]
      /\ \A a \in Accounts :
            /\ account'[a].balance = account[a].balance + ReleasedTo(S, a)
            /\ account'[a].active = account[a].active
  <2>1. account \in [Accounts -> [balance: Nat, active: BOOLEAN]]
    BY DEF TypeOK
  <2> QED
    BY <1>1, <1>2, <2>1
<1> DEFINE end(q) == IF Strands(q) THEN "STRANDED" ELSE "EXPIRED"
           ev(q) == IF Strands(q) THEN "STRANDED_HOLD" ELSE "HORIZON_EXPIRED"
<1>4. /\ crystal' = [q \in Ops |-> IF q \notin S THEN crystal[q]
                       ELSE [crystal[q] EXCEPT !.status = end(q), !.terminal = end(q)]]
      /\ events' = [q \in Ops |-> [e \in EventTypes |->
                       events[q][e] + IF q \in S /\ e = ev(q) THEN 1 ELSE 0]]
  BY <1>0 DEF SweepHorizons
<1>5. \A q \in Ops : end(q) \in {"STRANDED", "EXPIRED"}
  OBVIOUS
<1>6. crystal' \in [Ops -> Crystal]
  <2> HIDE DEF end
  <2>1. ASSUME NEW q \in Ops
        PROVE  [crystal[q] EXCEPT !.status = end(q), !.terminal = end(q)] \in Crystal
    BY <1>5, RowTypes DEF Crystal, Terminal
  <2>2. \A q \in Ops : crystal[q] \in Crystal
    BY RowTypes
  <2> QED
    BY <1>4, <2>1, <2>2
<1>7. events \in [Ops -> [EventTypes -> Nat]]
  BY DEF TypeOK
<1>8. events' \in [Ops -> [EventTypes -> Nat]]
  <2> DEFINE n(q, e) == events[q][e] + IF q \in S /\ e = ev(q) THEN 1 ELSE 0
  <2>1. events' = [q \in Ops |-> [e \in EventTypes |-> n(q, e)]]
    BY <1>4
  <2>2. \A q \in Ops, e \in EventTypes : n(q, e) \in Nat
    BY <1>7
  <2> HIDE DEF n
  <2> QED
    BY <2>1, <2>2
<1>9. ASSUME NEW q \in S
      PROVE  /\ crystal[q].status = "CRYSTALLIZED" /\ crystal[q].terminal = None
             /\ crystal'[q].status = end(q) /\ crystal'[q].terminal = end(q)
             /\ crystal'[q].committed = crystal[q].committed
             /\ crystal'[q].adjudicated = crystal[q].adjudicated
             /\ SameTerms(crystal'[q], crystal[q])
             /\ events'[q]["COMMITTED_FINAL"] = events[q]["COMMITTED_FINAL"]
             /\ events'[q]["HORIZON_EXPIRED"] =
                   events[q]["HORIZON_EXPIRED"] + IF Strands(q) THEN 0 ELSE 1
             /\ events'[q]["STRANDED_HOLD"] =
                   events[q]["STRANDED_HOLD"] + IF Strands(q) THEN 1 ELSE 0
  <2>1. crystal[q].status = "CRYSTALLIZED" /\ crystal[q].terminal = None
    BY <1>0 DEF SweepHorizons, Claimable, Open
  <2>2. /\ crystal'[q].status = end(q) /\ crystal'[q].terminal = end(q)
        /\ crystal'[q].committed = crystal[q].committed
        /\ crystal'[q].adjudicated = crystal[q].adjudicated
        /\ SameTerms(crystal'[q], crystal[q])
    <3> HIDE DEF end
    <3>1. crystal'[q] = [crystal[q] EXCEPT !.status = end(q), !.terminal = end(q)]
      BY <1>4
    <3> QED
      BY <3>1, RowTypes DEF Crystal, SameTerms
  <2>3. \A e \in EventTypes : events'[q][e] = events[q][e] + IF e = ev(q) THEN 1 ELSE 0
    <3> HIDE DEF ev, end
    <3> QED
      BY <1>4
  <2>4. /\ "COMMITTED_FINAL" \in EventTypes /\ "HORIZON_EXPIRED" \in EventTypes
        /\ "STRANDED_HOLD" \in EventTypes
    BY DEF EventTypes
  <2> QED
    BY <2>1, <2>2, <2>3, <2>4, <1>7
<1>10. ASSUME NEW q \in Ops, q \notin S
       PROVE  crystal'[q] = crystal[q] /\ events'[q] = events[q]
  <2>1. crystal'[q] = crystal[q]
    BY <1>4, <1>10
  <2>2. \A e \in EventTypes : events'[q][e] = events[q][e]
    <3> DEFINE n(p, e) == events[p][e] + IF p \in S /\ e = ev(p) THEN 1 ELSE 0
    <3>1. events' = [p \in Ops |-> [e \in EventTypes |-> n(p, e)]]
      BY <1>4
    <3>2. \A e \in EventTypes : n(q, e) = events[q][e]
      BY <1>7, <1>10
    <3> HIDE DEF n
    <3> QED
      BY <3>1, <3>2
  <2>3. events'[q] = events[q]
    BY <2>2, <1>7, <1>8
  <2> QED
    BY <2>1, <2>3
<1>11. UNCHANGED <<governor, past>>
  BY <1>0 DEF SweepHorizons
<1> QED
  BY <1>1, <1>3, <1>6, <1>8, <1>9, <1>10, <1>11

(* The transactions of the three governors, brought together.              *)
LEMMA StepCases ==
    ASSUME [Next]_vars
    PROVE  \/ \E o \in Ops, r \in Request, pol \in Policies \cup {None} : CrystallizeUnder(o, r, pol)
           \/ \E o \in Ops, facets \in Facets, c \in Commitments, late \in BOOLEAN :
                 FinanceCommit(o, facets, c, late)
           \/ \E o \in Ops, facets \in Facets, c \in Commitments, late \in BOOLEAN :
                 governor # "finance" /\ CommitUnenforced(o, facets, c, late)
           \/ \E o \in Ops : Adjudicate(o)
           \/ \E o \in Ops : HorizonPasses(o)
           \/ \E S \in SUBSET Ops : Sweep(S)
           \/ UNCHANGED vars
<1>1. ASSUME CrystallizeStep
      PROVE  \E o \in Ops, r \in Request, pol \in Policies \cup {None} : CrystallizeUnder(o, r, pol)
  <2>1. PICK o \in Ops, r \in Request :
            FinanceCrystallize(o, r) \/ InsuranceCrystallize(o, r) \/ CyberCrystallize(o, r)
    BY <1>1 DEF CrystallizeStep
  <2>2. /\ r.policy \in Policies \cup {None}
        /\ DefaultPolicy[r.platform] \in Policies \cup {None}
    BY CrystalAssumption DEF Request
  <2> QED
    BY <2>1, <2>2 DEF FinanceCrystallize, InsuranceCrystallize, CyberCrystallize
<1>2. ASSUME CommitStep
      PROVE  \E o \in Ops, facets \in Facets, c \in Commitments, late \in BOOLEAN :
                 \/ FinanceCommit(o, facets, c, late)
                 \/ governor # "finance" /\ CommitUnenforced(o, facets, c, late)
  BY <1>2 DEF CommitStep, InsuranceCommit, CyberCommit
<1> QED
  BY <1>1, <1>2 DEF Next

-----------------------------------------------------------------------------
(***************************************************************************)
(* Types and the agreement of the three records                            *)
(***************************************************************************)

LEMMA TypeOKStep ==
    ASSUME TypeOK, [Next]_vars
    PROVE  TypeOK'
<1>1. ASSUME NEW o \in Ops, NEW r \in Request, NEW pol \in Policies \cup {None},
             CrystallizeUnder(o, r, pol)
      PROVE  TypeOK'
  <2>1. /\ account' \in [Accounts -> [balance: Nat, active: BOOLEAN]]
        /\ crystal' \in [Ops -> Crystal] /\ events' \in [Ops -> [EventTypes -> Nat]]
        /\ UNCHANGED <<governor, past>>
    BY <1>1, CrystallizeEffect
  <2>2. /\ crystal'[o].account \in Accounts /\ crystal'[o].platform \in Platforms
        /\ \A q \in Ops : q # o => crystal'[q] = crystal[q]
    BY <1>1, CrystallizeEffect
  <2> QED
    BY <2>1, <2>2 DEF TypeOK
<1>2. ASSUME NEW o \in Ops, NEW facets \in Facets, NEW c \in Commitments, NEW late \in BOOLEAN,
             FinanceCommit(o, facets, c, late) \/ CommitUnenforced(o, facets, c, late)
      PROVE  TypeOK'
  <2>1. /\ account' \in [Accounts -> [balance: Nat, active: BOOLEAN]]
        /\ crystal' \in [Ops -> Crystal] /\ events' \in [Ops -> [EventTypes -> Nat]]
        /\ crystal[o].status # "NONE" /\ UNCHANGED <<governor, past>>
    BY <1>2, CommitEffect
  <2>2. /\ SameTerms(crystal'[o], crystal[o])
        /\ \A q \in Ops : q # o => crystal'[q] = crystal[q]
    BY <1>2, CommitEffect
  <2>3. \A q \in Ops : crystal'[q].status # "NONE" =>
           crystal'[q].account \in Accounts /\ crystal'[q].platform \in Platforms
    BY <2>1, <2>2 DEF TypeOK, SameTerms
  <2> QED
    BY <2>1, <2>3 DEF TypeOK
<1>3. ASSUME NEW o \in Ops, Adjudicate(o) PROVE TypeOK'
  <2>1. /\ account' \in [Accounts -> [balance: Nat, active: BOOLEAN]]
        /\ crystal' \in [Ops -> Crystal] /\ events' \in [Ops -> [EventTypes -> Nat]]
        /\ crystal[o].status # "NONE" /\ UNCHANGED <<governor, past>>
    BY <1>3, AdjudicateEffect
  <2>2. /\ SameTerms(crystal'[o], crystal[o])
        /\ \A q \in Ops : q # o => crystal'[q] = crystal[q]
    BY <1>3, AdjudicateEffect
  <2>3. \A q \in Ops : crystal'[q].status # "NONE" =>
           crystal'[q].account \in Accounts /\ crystal'[q].platform \in Platforms
    BY <2>1, <2>2 DEF TypeOK, SameTerms
  <2> QED
    BY <2>1, <2>3 DEF TypeOK
<1>4. ASSUME NEW S \in SUBSET Ops, Sweep(S) PROVE TypeOK'
  <2>1. /\ account' \in [Accounts -> [balance: Nat, active: BOOLEAN]]
        /\ crystal' \in [Ops -> Crystal] /\ events' \in [Ops -> [EventTypes -> Nat]]
        /\ UNCHANGED <<governor, past>>
    BY <1>4, SweepEffect
  <2>2. ASSUME NEW q \in Ops, crystal'[q].status # "NONE"
        PROVE  crystal'[q].account \in Accounts /\ crystal'[q].platform \in Platforms
    <3>1. CASE q \notin S
      BY <1>4, <2>2, <3>1, SweepEffect DEF TypeOK
    <3>2. CASE q \in S
      <4>1. /\ crystal[q].status = "CRYSTALLIZED"
            /\ crystal'[q].account = crystal[q].account
            /\ crystal'[q].platform = crystal[q].platform
        BY <1>4, <3>2, SweepEffect DEF SameTerms
      <4> QED
        BY <4>1 DEF TypeOK
    <3> QED
      BY <3>1, <3>2
  <2> QED
    BY <2>1, <2>2 DEF TypeOK
<1>5. ASSUME NEW o \in Ops, HorizonPasses(o) PROVE TypeOK'
  BY <1>5 DEF HorizonPasses, TypeOK
<1>6. CASE UNCHANGED vars
  BY <1>6 DEF vars, TypeOK
<1> QED
  BY <1>1, <1>2, <1>3, <1>4, <1>5, <1>6, StepCases

LEMMA InitTypeOK ==
    ASSUME Init
    PROVE  TypeOK
<1>1. NoCrystal \in Crystal
  BY DEF NoCrystal, Crystal, Terminal
<1>2. NoCrystal.status = "NONE"
  BY DEF NoCrystal
<1> HIDE DEF NoCrystal
<1> QED
  BY <1>1, <1>2, CrystalAssumption DEF Init, TypeOK

(* Every row keeps its type: in particular no account is ever overdrawn by *)
(* crystallize requests that race for its balance.                         *)
THEOREM CrystalTypeCorrect == Spec => []TypeOK
<1>1. Init => TypeOK
  BY InitTypeOK
<1>2. TypeOK /\ [Next]_vars => TypeOK'
  BY TypeOKStep
<1> QED
  BY <1>1, <1>2, PTL DEF Spec

(* An open row is one whose escrow status is CRYSTALLIZED.                 *)
LEMMA OpenIsCrystallized ==
    ASSUME TypeOK, CrystalsConsistent, NEW o \in Ops,
           crystal[o].status # "NONE", crystal[o].terminal = None
    PROVE  /\ crystal[o].status = "CRYSTALLIZED"
           /\ events[o]["COMMITTED_FINAL"] = 0
           /\ events[o]["HORIZON_EXPIRED"] = 0
           /\ events[o]["STRANDED_HOLD"] = 0
<1>1. RowConsistent(o)
  BY DEF CrystalsConsistent
<1>2. crystal[o].status \notin Terminal
  BY <1>1, CrystalAssumption DEF RowConsistent, Terminal
<1>3. crystal[o].status = "CRYSTALLIZED"
  BY <1>2, RowTypes
<1> QED
  BY <1>1, <1>3 DEF RowConsistent, Terminal

LEMMA ConsistentStep ==
    ASSUME TypeOK, CrystalsConsistent, [Next]_vars
    PROVE  CrystalsConsistent'
<1>0. \A q \in Ops : RowConsistent(q)
  BY DEF CrystalsConsistent
<1>k. ASSUME NEW q \in Ops, crystal'[q] = crystal[q], events'[q] = events[q]
      PROVE  RowConsistent(q)'
  BY <1>0, <1>k DEF RowConsistent
<1>1. ASSUME NEW o \in Ops, NEW r \in Request, NEW pol \in Policies \cup {None},
             CrystallizeUnder(o, r, pol)
      PROVE  CrystalsConsistent'
  <2>1. /\ crystal[o].status = "NONE"
        /\ crystal'[o].status = "CRYSTALLIZED" /\ crystal'[o].terminal = None
        /\ \A e \in EventTypes : e # "CRYSTAL_CREATED" => events'[o][e] = events[o][e]
        /\ \A q \in Ops : q # o => crystal'[q] = crystal[q] /\ events'[q] = events[q]
    BY <1>1, CrystallizeEffect
  <2>2. RowConsistent(o)'
    BY <1>0, <2>1 DEF RowConsistent, EventTypes, Terminal
  <2> QED
    BY <2>1, <2>2, <1>k DEF CrystalsConsistent
<1>2. ASSUME NEW o \in Ops, NEW facets \in Facets, NEW c \in Commitments, NEW late \in BOOLEAN,
             FinanceCommit(o, facets, c, late) \/ CommitUnenforced(o, facets, c, late)
      PROVE  CrystalsConsistent'
  <2>1. /\ crystal[o].status # "NONE" /\ crystal[o].terminal = None
        /\ crystal'[o].status = "COMMITTED" /\ crystal'[o].terminal = "COMMITTED"
        /\ \A q \in Ops : q # o => crystal'[q] = crystal[q] /\ events'[q] = events[q]
        /\ events'[o]["COMMITTED_FINAL"] = events[o]["COMMITTED_FINAL"] + 1
        /\ events'[o]["HORIZON_EXPIRED"] = events[o]["HORIZON_EXPIRED"]
        /\ events'[o]["STRANDED_HOLD"] = events[o]["STRANDED_HOLD"]
    BY <1>2, CommitEffect
  <2>2. RowConsistent(o)'
    BY <2>1, OpenIsCrystallized DEF RowConsistent, Terminal
  <2> QED
    BY <2>1, <2>2, <1>k DEF CrystalsConsistent
<1>3. ASSUME NEW o \in Ops, Adjudicate(o) PROVE CrystalsConsistent'
  <2>1. /\ crystal[o].status # "NONE" /\ crystal[o].terminal = None
        /\ crystal'[o].status = "STRANDED" /\ crystal'[o].terminal = "STRANDED"
        /\ \A q \in Ops : q # o => crystal'[q] = crystal[q] /\ events'[q] = events[q]
        /\ events'[o]["COMMITTED_FINAL"] = events[o]["COMMITTED_FINAL"]
        /\ events'[o]["HORIZON_EXPIRED"] = events[o]["HORIZON_EXPIRED"]
        /\ events'[o]["STRANDED_HOLD"] = events[o]["STRANDED_HOLD"] + 1
    BY <1>3, AdjudicateEffect
  <2>2. RowConsistent(o)'
    BY <2>1, OpenIsCrystallized DEF RowConsistent, Terminal
  <2> QED
    BY <2>1, <2>2, <1>k DEF CrystalsConsistent
<1>4. ASSUME NEW S \in SUBSET Ops, Sweep(S) PROVE CrystalsConsistent'
  <2>1. ASSUME NEW q \in Ops PROVE RowConsistent(q)'
    <3>1. CASE q \notin S
      BY <1>4, <3>1, <1>k, SweepEffect
    <3>2. CASE q \in S
      <4>1. /\ crystal[q].status = "CRYSTALLIZED" /\ crystal[q].terminal = None
            /\ crystal'[q].status = IF Strands(q) THEN "STRANDED" ELSE "EXPIRED"
            /\ crystal'[q].terminal = IF Strands(q) THEN "STRANDED" ELSE "EXPIRED"
        BY <1>4, <3>2, SweepEffect DEF SameTerms
      <4>2. /\ events'[q]["COMMITTED_FINAL"] = events[q]["COMMITTED_FINAL"]
            /\ events'[q]["HORIZON_EXPIRED"] =
                  events[q]["HORIZON_EXPIRED"] + IF Strands(q) THEN 0 ELSE 1
            /\ events'[q]["STRANDED_HOLD"] =
                  events[q]["STRANDED_HOLD"] + IF Strands(q) THEN 1 ELSE 0
        BY <1>4, <3>2, SweepEffect
      <4>3. /\ events[q]["COMMITTED_FINAL"] = 0 /\ events[q]["HORIZON_EXPIRED"] = 0
            /\ events[q]["STRANDED_HOLD"] = 0
        BY <4>1, OpenIsCrystallized
      <4> QED
        BY <4>1, <4>2, <4>3 DEF RowConsistent, Terminal
    <3> QED
      BY <3>1, <3>2
  <2> QED
    BY <2>1 DEF CrystalsConsistent
<1>5. ASSUME crystal' = crystal, events' = events PROVE CrystalsConsistent'
  BY <1>5, <1>k DEF CrystalsConsistent
<1>6. ASSUME NEW o \in Ops, HorizonPasses(o) PROVE CrystalsConsistent'
  BY <1>5, <1>6 DEF HorizonPasses
<1>7. CASE UNCHANGED vars
  BY <1>5, <1>7 DEF vars
<1> QED
  BY <1>1, <1>2, <1>3, <1>4, <1>6, <1>7, StepCases

LEMMA InitConsistent ==
    ASSUME Init
    PROVE  CrystalsConsistent
  BY DEF Init, CrystalsConsistent, RowConsistent, NoCrystal, Terminal, EventTypes

(* Escrow status, terminal state and recorded events agree for every       *)
(* operation, however commits, adjudications and sweeps interleave.        *)
THEOREM CrystalsStayConsistent == Spec => []CrystalsConsistent
<1>1. Init => CrystalsConsistent
  BY InitConsistent
<1>2. TypeOK /\ CrystalsConsistent /\ [Next]_vars => CrystalsConsistent'
  BY ConsistentStep
<1> QED
  BY <1>1, <1>2, CrystalTypeCorrect, PTL DEF Spec

-----------------------------------------------------------------------------
(***************************************************************************)
(* Exposure                                                                *)
(***************************************************************************)

LEMMA ChargeColumns ==
    ASSUME TypeOK, NEW a
    PROVE  Charges(a) \in [1..NumOps -> Int] /\ Charges(a) \in [Ops -> Int]
<1>1. ASSUME NEW o \in Ops PROVE ChargeOf(o) \in Int
  <2>1. crystal[o].amt \in Nat /\ crystal[o].committed \in Nat
    BY RowTypes
  <2> QED
    BY <2>1 DEF ChargeOf, Lesser
<1> QED
  BY <1>1 DEF Charges, Ops

(* A transaction on one operation changes the sum by that row's change.    *)
LEMMA OneChargeChanges ==
    ASSUME TypeOK, TypeOK', NEW a, NEW o \in Ops, \A q \in Ops : q # o => crystal'[q] = crystal[q]
    PROVE  SumTo(Charges(a)', NumOps) = SumTo(Charges(a), NumOps) + (Charges(a)'[o] - Charges(a)[o])
<1>1. NumOps \in Nat /\ o \in 1..NumOps
  BY CrystalAssumption DEF Ops
<1>2. Charges(a) \in [1..NumOps -> Int]
  BY ChargeColumns
<1>3. Charges(a)' \in [1..NumOps -> Int]
  <2>1. ASSUME NEW q \in Ops PROVE ChargeOf(q)' \in Int
    <3>1. crystal'[q].amt \in Nat /\ crystal'[q].committed \in Nat
      BY DEF TypeOK, Crystal
    <3> QED
      BY <3>1 DEF ChargeOf, Lesser
  <2> QED
    BY <2>1 DEF Charges, Ops
<1>4. \A q \in 1..NumOps : q # o => Charges(a)'[q] = Charges(a)[q]
  BY DEF Charges, ChargeOf, Ops
<1> QED
  BY <1>1, <1>2, <1>3, <1>4, SumChangeOne

(* An operator's strand ends a row, so an open row was never adjudicated.  *)
OpenNotAdjudicated ==
    \A o \in Ops : crystal[o].status = "CRYSTALLIZED" => ~crystal[o].adjudicated

(* What a sweep gives back to an account is what the rows of its batch no  *)
(* longer charge it.                                                       *)
LEMMA SweepCharges ==
    ASSUME TypeOK, TypeOK', NEW S \in SUBSET Ops, Sweep(S), OpenNotAdjudicated, NEW a \in Accounts
    PROVE  /\ SumTo(Charges(a), NumOps) = SumTo(Charges(a)', NumOps) + ReleasedTo(S, a)
           /\ SumTo(Charges(a)', NumOps) \in Int
<1>1. NumOps \in Nat
  BY CrystalAssumption
<1>2. Charges(a) \in [1..NumOps -> Int]
  BY ChargeColumns
<1>3. AccountReleases(S, a) \in [1..NumOps -> Int]
  BY RowTypes DEF AccountReleases, Ops
<1>4. ASSUME NEW o \in Ops
      PROVE  /\ Charges(a)'[o] \in Int
             /\ Charges(a)[o] = Charges(a)'[o] + AccountReleases(S, a)[o]
  <2>1. crystal[o].amt \in Nat /\ crystal[o].committed \in Nat
    BY RowTypes
  <2>2. CASE o \notin S
    <3>1. crystal'[o] = crystal[o]
      BY <2>2, SweepEffect
    <3>2. ChargeOf(o)' = ChargeOf(o) /\ Charges(a)'[o] = Charges(a)[o]
      BY <3>1 DEF ChargeOf, Charges
    <3>3. AccountReleases(S, a)[o] = 0 /\ Charges(a)[o] \in Int
      BY <2>2, ChargeColumns DEF AccountReleases
    <3> QED
      BY <3>2, <3>3
  <2>3. CASE o \in S
    <3>1. /\ crystal[o].status = "CRYSTALLIZED" /\ ~crystal[o].adjudicated
          /\ crystal'[o].status = IF Strands(o) THEN "STRANDED" ELSE "EXPIRED"
          /\ crystal'[o].account = crystal[o].account /\ crystal'[o].amt = crystal[o].amt
          /\ crystal'[o].adjudicated = crystal[o].adjudicated
      BY <2>3, SweepEffect DEF SameTerms, OpenNotAdjudicated
    <3>2. ChargeOf(o) = crystal[o].amt
      BY <3>1 DEF ChargeOf
    <3>3. ChargeOf(o)' = IF Strands(o) THEN crystal[o].amt ELSE 0
      BY <3>1 DEF ChargeOf
    <3>4. Charges(a)[o] = IF crystal[o].account = a THEN crystal[o].amt ELSE 0
      BY <3>2 DEF Charges
    <3>5. Charges(a)'[o] = IF crystal[o].account = a /\ Strands(o) THEN crystal[o].amt ELSE 0
      BY <3>1, <3>3 DEF Charges
    <3>6. AccountReleases(S, a)[o] = IF ~Strands(o) /\ crystal[o].account = a THEN crystal[o].amt ELSE 0
      BY <2>3 DEF AccountReleases
    <3> QED
      BY <2>1, <3>4, <3>5, <3>6
  <2> QED
    BY <2>2, <2>3
<1>5. Charges(a)' \in [1..NumOps -> Int]
  <2>1. Charges(a)' = [o \in Ops |-> Charges(a)'[o]]
    BY DEF Charges
  <2> QED
    BY <1>4, <2>1 DEF Ops
<1>6. \A i \in 1..NumOps : Charges(a)[i] = Charges(a)'[i] + AccountReleases(S, a)[i]
  BY <1>4 DEF Ops
<1> QED
  BY <1>1, <1>2, <1>3, <1>5, <1>6, SumAdd DEF ReleasedTo

LEMMA OpenNotAdjudicatedStep ==
    ASSUME TypeOK, OpenNotAdjudicated, [Next]_vars
    PROVE  OpenNotAdjudicated'
<1>1. ASSUME NEW o \in Ops, NEW r \in Request, NEW pol \in Policies \cup {None},
             CrystallizeUnder(o, r, pol)
      PROVE  OpenNotAdjudicated'
  BY <1>1, CrystallizeEffect DEF OpenNotAdjudicated
<1>2. ASSUME NEW o \in Ops, NEW facets \in Facets, NEW c \in Commitments, NEW late \in BOOLEAN,
             FinanceCommit(o, facets, c, late) \/ CommitUnenforced(o, facets, c, late)
      PROVE  OpenNotAdjudicated'
  BY <1>2, CommitEffect DEF OpenNotAdjudicated
<1>3. ASSUME NEW o \in Ops, Adjudicate(o) PROVE OpenNotAdjudicated'
  BY <1>3, AdjudicateEffect DEF OpenNotAdjudicated
<1>4. ASSUME NEW S \in SUBSET Ops, Sweep(S) PROVE OpenNotAdjudicated'
  BY <1>4, SweepEffect DEF OpenNotAdjudicated
<1>5. ASSUME NEW o \in Ops, HorizonPasses(o) PROVE OpenNotAdjudicated'
  BY <1>5 DEF HorizonPasses, OpenNotAdjudicated
<1>6. CASE UNCHANGED vars
  BY <1>6 DEF vars, OpenNotAdjudicated
<1> QED
  BY <1>1, <1>2, <1>3, <1>4, <1>5, <1>6, StepCases

LEMMA ExposureStep ==
    ASSUME TypeOK, TypeOK', CrystalsConsistent, OpenNotAdjudicated, ExposureConserved, [Next]_vars
    PROVE  ExposureConserved'
<1>a. ASSUME NEW a \in Accounts
      PROVE  /\ account[a].balance + SumTo(Charges(a), NumOps) = InitialBalance[a]
             /\ SumTo(Charges(a), NumOps) \in Int /\ account[a].balance \in Int
  <2>1. SumTo(Charges(a), NumOps) \in Int
    BY ChargeColumns, SumInt, CrystalAssumption
  <2> QED
    BY <2>1 DEF ExposureConserved, TypeOK
<1>1. ASSUME NEW o \in Ops, NEW r \in Request, NEW pol \in Policies \cup {None},
             CrystallizeUnder(o, r, pol), NEW a \in Accounts
      PROVE  account'[a].balance + SumTo(Charges(a)', NumOps) = InitialBalance[a]
  <2>1. /\ crystal[o].status = "NONE" /\ r.amt \in Nat
        /\ account'[a].balance = account[a].balance - IF a = r.account THEN r.amt ELSE 0
        /\ crystal'[o].status = "CRYSTALLIZED"
        /\ crystal'[o].account = r.account /\ crystal'[o].amt = r.amt
        /\ \A q \in Ops : q # o => crystal'[q] = crystal[q]
    BY <1>1, CrystallizeEffect
  <2>2. Charges(a)[o] = 0
    BY <2>1 DEF Charges, ChargeOf
  <2>3. Charges(a)'[o] = IF a = r.account THEN r.amt ELSE 0
    BY <2>1 DEF Charges, ChargeOf
  <2>4. SumTo(Charges(a)', NumOps) = SumTo(Charges(a), NumOps) + (Charges(a)'[o] - Charges(a)[o])
    BY <2>1, OneChargeChanges
  <2> QED
    BY <1>a, <2>1, <2>2, <2>3, <2>4
<1>2. ASSUME NEW o \in Ops, NEW facets \in Facets, NEW c \in Commitments, NEW late \in BOOLEAN,
             FinanceCommit(o, facets, c, late) \/ CommitUnenforced(o, facets, c, late),
             NEW a \in Accounts
      PROVE  account'[a].balance + SumTo(Charges(a)', NumOps) = InitialBalance[a]
  <2>1. /\ crystal[o].status # "NONE" /\ crystal[o].terminal = None
        /\ account'[a].balance =
             account[a].balance + IF a = crystal[o].account THEN CommitRefund(o, c) ELSE 0
        /\ crystal'[o].status = "COMMITTED" /\ crystal'[o].committed = c
        /\ crystal'[o].account = crystal[o].account /\ crystal'[o].amt = crystal[o].amt
        /\ \A q \in Ops : q # o => crystal'[q] = crystal[q]
    BY <1>2, CommitEffect DEF SameTerms
  <2>2. crystal[o].status = "CRYSTALLIZED"
    BY <2>1, OpenIsCrystallized
  <2>3. Charges(a)[o] = IF a = crystal[o].account THEN crystal[o].amt ELSE 0
    BY <2>2 DEF Charges, ChargeOf
  <2>4. Charges(a)'[o] = IF a = crystal[o].account THEN Lesser(c, crystal[o].amt) ELSE 0
    BY <2>1 DEF Charges, ChargeOf
  <2>5. SumTo(Charges(a)', NumOps) = SumTo(Charges(a), NumOps) + (Charges(a)'[o] - Charges(a)[o])
    BY <2>1, OneChargeChanges
  <2>6. /\ CommitRefund(o, c) = crystal[o].amt - Lesser(c, crystal[o].amt)
        /\ Lesser(c, crystal[o].amt) \in Nat /\ crystal[o].amt \in Nat
    BY RefundType, RowTypes
  <2> QED
    BY <1>a, <2>1, <2>3, <2>4, <2>5, <2>6
<1>3. ASSUME NEW o \in Ops, Adjudicate(o), NEW a \in Accounts
      PROVE  account'[a].balance + SumTo(Charges(a)', NumOps) = InitialBalance[a]
  <2>1. /\ crystal[o].status # "NONE" /\ crystal[o].terminal = None
        /\ account'[a].balance =
             account[a].balance + IF a = crystal[o].account THEN crystal[o].amt ELSE 0
        /\ crystal'[o].status = "STRANDED" /\ crystal'[o].adjudicated = TRUE
        /\ crystal'[o].account = crystal[o].account /\ crystal'[o].amt = crystal[o].amt
        /\ \A q \in Ops : q # o => crystal'[q] = crystal[q]
    BY <1>3, AdjudicateEffect DEF SameTerms
  <2>2. crystal[o].status = "CRYSTALLIZED" /\ crystal[o].amt \in Nat
    BY <2>1, OpenIsCrystallized, RowTypes
  <2>3. Charges(a)[o] = IF a = crystal[o].account THEN crystal[o].amt ELSE 0
    BY <2>2 DEF Charges, ChargeOf
  <2>4. Charges(a)'[o] = 0
    BY <2>1 DEF Charges, ChargeOf
  <2>5. SumTo(Charges(a)', NumOps) = SumTo(Charges(a), NumOps) + (Charges(a)'[o] - Charges(a)[o])
    BY <2>1, OneChargeChanges
  <2> QED
    BY <1>a, <2>1, <2>2, <2>3, <2>4, <2>5
<1>4. ASSUME NEW S \in SUBSET Ops, Sweep(S), NEW a \in Accounts
      PROVE  account'[a].balance + SumTo(Charges(a)', NumOps) = InitialBalance[a]
  <2>1. /\ SumTo(Charges(a), NumOps) = SumTo(Charges(a)', NumOps) + ReleasedTo(S, a)
        /\ SumTo(Charges(a)', NumOps) \in Int
    BY <1>4, SweepCharges
  <2>2. /\ account'[a].balance = account[a].balance + ReleasedTo(S, a)
        /\ ReleasedTo(S, a) \in Nat
    BY <1>4, SweepEffect
  <2> QED
    BY <1>a, <2>1, <2>2
<1>5. ASSUME crystal' = crystal, account' = account PROVE ExposureConserved'
  BY <1>5 DEF ExposureConserved, Charges, ChargeOf
<1>6. ASSUME NEW o \in Ops, HorizonPasses(o) PROVE ExposureConserved'
  BY <1>5, <1>6 DEF HorizonPasses
<1>7. CASE UNCHANGED vars
  BY <1>5, <1>7 DEF vars
<1> QED
  BY <1>1, <1>2, <1>3, <1>4, <1>6, <1>7, StepCases DEF ExposureConserved

(* No account gains or loses exposure: its balance, the holds of its open  *)
(* and stranded crystals and what was committed against holds always add   *)
(* up to what it was funded with.                                          *)
THEOREM ExposureIsConserved == Spec => []ExposureConserved
<1>1. Init => ExposureConserved
  <2> SUFFICES ASSUME Init, NEW a \in Accounts
               PROVE  account[a].balance + SumTo(Charges(a), NumOps) = InitialBalance[a]
    BY DEF ExposureConserved
  <2>1. TypeOK
    BY InitTypeOK
  <2>2. \A i \in 1..NumOps : Charges(a)[i] = 0
    BY DEF Init, Charges, ChargeOf, NoCrystal, Ops
  <2>3. SumTo(Charges(a), NumOps) = 0
    BY <2>1, <2>2, ChargeColumns, SumOfZeros, CrystalAssumption
  <2>4. account[a].balance = InitialBalance[a] /\ InitialBalance[a] \in Nat
    BY CrystalAssumption DEF Init
  <2> QED
    BY <2>3, <2>4
<1>2. Init => OpenNotAdjudicated
  BY DEF Init, OpenNotAdjudicated, NoCrystal
<1>3. TypeOK /\ OpenNotAdjudicated /\ [Next]_vars => OpenNotAdjudicated'
  BY OpenNotAdjudicatedStep
<1>4. /\ TypeOK /\ TypeOK' /\ CrystalsConsistent /\ OpenNotAdjudicated
      /\ ExposureConserved /\ [Next]_vars
      => ExposureConserved'
  BY ExposureStep
<1> QED
  BY <1>1, <1>2, <1>3, <1>4, CrystalTypeCorrect, CrystalsStayConsistent, PTL DEF Spec

-----------------------------------------------------------------------------
(***************************************************************************)
(* Risk tiers, drift, the audits and terminal states                       *)
(***************************************************************************)

LEMMA HighRiskStep ==
    ASSUME TypeOK, HighRiskNeverExpires, [Next]_vars
    PROVE  HighRiskNeverExpires'
<1>1. ASSUME NEW o \in Ops, NEW r \in Request, NEW pol \in Policies \cup {None},
             CrystallizeUnder(o, r, pol)
      PROVE  HighRiskNeverExpires'
  BY <1>1, CrystallizeEffect DEF HighRiskNeverExpires
<1>2. ASSUME NEW o \in Ops, NEW facets \in Facets, NEW c \in Commitments, NEW late \in BOOLEAN,
             FinanceCommit(o, facets, c, late) \/ CommitUnenforced(o, facets, c, late)
      PROVE  HighRiskNeverExpires'
  <2>1. /\ crystal'[o].status = "COMMITTED"
        /\ \A q \in Ops : q # o => crystal'[q] = crystal[q]
    BY <1>2, CommitEffect
  <2> QED
    BY <2>1 DEF HighRiskNeverExpires
<1>3. ASSUME NEW o \in Ops, Adjudicate(o) PROVE HighRiskNeverExpires'
  BY <1>3, AdjudicateEffect DEF HighRiskNeverExpires
<1>4. ASSUME NEW S \in SUBSET Ops, Sweep(S) PROVE HighRiskNeverExpires'
  <2>1. ASSUME NEW q \in S, crystal'[q].tier \in HighRisk PROVE crystal'[q].status # "EXPIRED"
    <3>1. /\ crystal'[q].tier = crystal[q].tier
          /\ crystal'[q].status = IF Strands(q) THEN "STRANDED" ELSE "EXPIRED"
      BY <1>4, SweepEffect DEF SameTerms
    <3> QED
      BY <2>1, <3>1 DEF Strands
  <2> QED
    BY <1>4, <2>1, SweepEffect DEF HighRiskNeverExpires
<1>5. ASSUME NEW o \in Ops, HorizonPasses(o) PROVE HighRiskNeverExpires'
  BY <1>5 DEF HorizonPasses, HighRiskNeverExpires
<1>6. CASE UNCHANGED vars
  BY <1>6 DEF vars, HighRiskNeverExpires
<1> QED
  BY <1>1, <1>2, <1>3, <1>4, <1>5, <1>6, StepCases

(* No sweep ever refunds a crystal of the critical or high tier.           *)
THEOREM HighRiskIsNeverExpired == Spec => []HighRiskNeverExpires
<1>1. Init => HighRiskNeverExpires
  BY DEF Init, HighRiskNeverExpires, NoCrystal
<1>2. TypeOK /\ HighRiskNeverExpires /\ [Next]_vars => HighRiskNeverExpires'
  BY HighRiskStep
<1> QED
  BY <1>1, <1>2, CrystalTypeCorrect, PTL DEF Spec

(* A step that leaves the committed rows alone and reactivates no account. *)
LEMMA DriftKept ==
    ASSUME TypeOK, UnchargedDriftIsTolerated, governor' = governor, crystal' \in [Ops -> Crystal],
           \A a \in Accounts : account'[a].active => account[a].active,
           NEW q \in Ops, governor = "finance", crystal'[q] = crystal[q],
           crystal'[q].status = "COMMITTED", account'[crystal'[q].account].active
    PROVE  ~DriftExceedsTolerance(crystal'[q].committed - crystal'[q].amt, crystal'[q].amt)
<1>1. crystal[q].account \in Accounts
  BY RowTypes
<1>2. account[crystal[q].account].active
  BY <1>1
<1> QED
  BY <1>2 DEF UnchargedDriftIsTolerated

LEMMA DriftStep ==
    ASSUME TypeOK, UnchargedDriftIsTolerated, [Next]_vars
    PROVE  UnchargedDriftIsTolerated'
<1> DEFINE Tolerated(q) ==
             crystal[q].status = "COMMITTED" /\ account[crystal[q].account].active
                => ~DriftExceedsTolerance(crystal[q].committed - crystal[q].amt, crystal[q].amt)
<1>k. ASSUME governor' = governor, governor = "finance", crystal' \in [Ops -> Crystal],
             \A a \in Accounts : account'[a].active => account[a].active,
             NEW q \in Ops, crystal'[q] = crystal[q]
      PROVE  Tolerated(q)'
  BY <1>k, DriftKept
<1>1. ASSUME NEW o \in Ops, NEW r \in Request, NEW pol \in Policies \cup {None},
             CrystallizeUnder(o, r, pol), governor = "finance", NEW q \in Ops
      PROVE  Tolerated(q)'
  <2>1. /\ governor' = governor /\ crystal' \in [Ops -> Crystal]
        /\ \A a \in Accounts : account'[a].active = account[a].active
        /\ crystal'[o].status = "CRYSTALLIZED"
        /\ \A p \in Ops : p # o => crystal'[p] = crystal[p]
    BY <1>1, CrystallizeEffect
  <2>2. CASE q = o
    BY <2>1, <2>2
  <2>3. CASE q # o
    <3> HIDE DEF Tolerated
    <3> QED
      BY <1>1, <2>1, <2>3, <1>k
  <2> QED
    BY <2>2, <2>3
<1>2. ASSUME NEW o \in Ops, NEW facets \in Facets, NEW c \in Commitments, NEW late \in BOOLEAN,
             FinanceCommit(o, facets, c, late), governor = "finance", NEW q \in Ops
      PROVE  Tolerated(q)'
  <2>1. /\ governor' = governor /\ crystal' \in [Ops -> Crystal]
        /\ \A a \in Accounts : account'[a].active => account[a].active
        /\ crystal'[o].committed = c /\ SameTerms(crystal'[o], crystal[o])
        /\ \A p \in Ops : p # o => crystal'[p] = crystal[p]
        /\ crystal[o].status # "NONE"
    BY <1>2, CommitEffect DEF SameTerms
  <2>2. CASE q = o
    <3> DEFINE x == crystal[o].account
               exceeds == DriftExceedsTolerance(c - crystal[o].amt, crystal[o].amt)
    <3>1. account' = [account EXCEPT ![x] =
                        [balance |-> @.balance + CommitRefund(o, c), active |-> @.active /\ ~exceeds]]
      BY <1>2 DEF FinanceCommit
    <3>2. x \in Accounts /\ account \in [Accounts -> [balance: Nat, active: BOOLEAN]]
      BY <2>1, RowTypes DEF TypeOK
    <3>3. account'[x].active => ~exceeds
      <4> HIDE DEF x, exceeds
      <4> QED
        BY <3>1, <3>2
    <3>4. crystal'[o].account = x /\ crystal'[o].amt = crystal[o].amt
      BY <2>1 DEF SameTerms
    <3> QED
      BY <2>1, <2>2, <3>3, <3>4
  <2>3. CASE q # o
    <3> HIDE DEF Tolerated
    <3> QED
      BY <1>2, <2>1, <2>3, <1>k
  <2> QED
    BY <2>2, <2>3
<1>3. ASSUME NEW o \in Ops, Adjudicate(o), governor = "finance", NEW q \in Ops
      PROVE  Tolerated(q)'
  <2>1. /\ governor' = governor /\ crystal' \in [Ops -> Crystal]
        /\ \A a \in Accounts : account'[a].active = account[a].active
        /\ crystal'[o].status = "STRANDED"
        /\ \A p \in Ops : p # o => crystal'[p] = crystal[p]
    BY <1>3, AdjudicateEffect
  <2>2. CASE q = o
    BY <2>1, <2>2
  <2>3. CASE q # o
    <3> HIDE DEF Tolerated
    <3> QED
      BY <1>3, <2>1, <2>3, <1>k
  <2> QED
    BY <2>2, <2>3
<1>4. ASSUME NEW S \in SUBSET Ops, Sweep(S), governor = "finance", NEW q \in Ops
      PROVE  Tolerated(q)'
  <2>1. /\ governor' = governor /\ crystal' \in [Ops -> Crystal]
        /\ \A a \in Accounts : account'[a].active = account[a].active
        /\ \A p \in S : crystal'[p].status = IF Strands(p) THEN "STRANDED" ELSE "EXPIRED"
        /\ \A p \in Ops : p \notin S => crystal'[p] = crystal[p]
    BY <1>4, SweepEffect
  <2>2. CASE q \in S
    BY <2>1, <2>2
  <2>3. CASE q \notin S
    <3> HIDE DEF Tolerated
    <3> QED
      BY <1>4, <2>1, <2>3, <1>k
  <2> QED
    BY <2>2, <2>3
<1>5. ASSUME crystal' = crystal, account' = account, governor' = governor
      PROVE  UnchargedDriftIsTolerated'
  BY <1>5 DEF UnchargedDriftIsTolerated
<1>6. ASSUME NEW o \in Ops, HorizonPasses(o) PROVE UnchargedDriftIsTolerated'
  BY <1>5, <1>6 DEF HorizonPasses
<1>7. CASE UNCHANGED vars
  BY <1>5, <1>7 DEF vars
<1>8. ASSUME NEW o \in Ops, NEW facets \in Facets, NEW c \in Commitments, NEW late \in BOOLEAN,
             CommitUnenforced(o, facets, c, late), governor # "finance"
      PROVE  UnchargedDriftIsTolerated'
  BY <1>8 DEF CommitUnenforced, UnchargedDriftIsTolerated
<1>9. ASSUME \/ \E o \in Ops, r \in Request, pol \in Policies \cup {None} : CrystallizeUnder(o, r, pol)
             \/ \E o \in Ops, facets \in Facets, c \in Commitments, late \in BOOLEAN :
                   FinanceCommit(o, facets, c, late)
             \/ \E o \in Ops : Adjudicate(o)
             \/ \E S \in SUBSET Ops : Sweep(S)
      PROVE  UnchargedDriftIsTolerated'
  <2>1. governor' = governor
    BY <1>9 DEF CrystallizeUnder, FinanceCommit, Adjudicate, Sweep, FinanceSweep, InsuranceSweep,
                CyberSweep, SweepHorizons
  <2>2. ASSUME governor = "finance", NEW q \in Ops PROVE Tolerated(q)'
    <3> HIDE DEF Tolerated
    <3> QED
      BY <1>9, <2>2, <1>1, <1>2, <1>3, <1>4
  <2> QED
    BY <2>1, <2>2 DEF UnchargedDriftIsTolerated
<1> HIDE DEF Tolerated
<1> QED
  BY <1>6, <1>7, <1>8, <1>9, StepCases

(* What finance committed beyond a hold and never debited is within the    *)
(* tolerances, or the account is locked.                                   *)
THEOREM DriftIsTolerated == Spec => []UnchargedDriftIsTolerated
<1>1. Init => UnchargedDriftIsTolerated
  BY DEF Init, UnchargedDriftIsTolerated, NoCrystal
<1>2. TypeOK /\ UnchargedDriftIsTolerated /\ [Next]_vars => UnchargedDriftIsTolerated'
  BY DriftStep
<1> QED
  BY <1>1, <1>2, CrystalTypeCorrect, PTL DEF Spec

(* The audits of the three governors report nothing but standard crystals  *)
(* under a high-risk policy: no interleaving of the protocol itself can    *)
(* send a governor into diagnostic mode.                                   *)
THEOREM AuditsReportOnlyMisclassified == Spec => []AuditReportsOnlyMisclassified
<1>1. ASSUME TypeOK, CrystalsConsistent, HighRiskNeverExpires
      PROVE  AuditReportsOnlyMisclassified
  <2>0. ASSUME NEW o \in Ops PROVE RowConsistent(o)
    BY <1>1 DEF CrystalsConsistent
  <2>1. CommittedWithoutCrystal = {}
    BY <2>0 DEF CommittedWithoutCrystal, RowConsistent, Terminal
  <2>2. Duplicated("COMMITTED_FINAL") = {}
    BY <2>0 DEF Duplicated, RowConsistent
  <2>3. Duplicated("HORIZON_EXPIRED") = {}
    BY <2>0 DEF Duplicated, RowConsistent
  <2>4. StrandedWithoutHold = {}
    BY <2>0 DEF StrandedWithoutHold, RowConsistent
  <2>5. ASSUME NEW o \in HighRiskAutoExpired
        PROVE  /\ o \in Ops /\ crystal[o].tier = "standard" /\ crystal[o].policy # None
               /\ Policy[crystal[o].policy].class \in HighRisk
    <3>1. /\ o \in Ops /\ crystal[o].terminal = "EXPIRED" /\ crystal[o].policy # None
          /\ Policy[crystal[o].policy].class \in HighRisk
      BY DEF HighRiskAutoExpired
    <3>2. crystal[o].status = "EXPIRED"
      BY <2>0, <3>1, CrystalAssumption DEF RowConsistent
    <3>3. crystal[o].tier \in HighRisk \cup {"standard"}
      BY <1>1, <3>1, RowTypes DEF Crystal
    <3> QED
      BY <1>1, <3>1, <3>2, <3>3 DEF HighRiskNeverExpires
  <2>6. AuditFindings \subseteq HighRiskAutoExpired
    <3>1. governor \in {"finance", "insurance", "cybersecurity"}
      BY <1>1, CrystalAssumption DEF TypeOK
    <3>2. /\ FinanceAudit = HighRiskAutoExpired /\ ClaimAudit = HighRiskAutoExpired
          /\ SecurityAudit = HighRiskAutoExpired
      BY <2>1, <2>2, <2>3, <2>4 DEF FinanceAudit, ClaimAudit, SecurityAudit
    <3>3. AuditFindings = HighRiskAutoExpired
      BY <3>1, <3>2 DEF AuditFindings
    <3> QED
      BY <3>3
  <2> QED
    BY <2>5, <2>6 DEF AuditReportsOnlyMisclassified
<1> QED
  BY <1>1, CrystalTypeCorrect, CrystalsStayConsistent, HighRiskIsNeverExpired, PTL

LEMMA FinalStep ==
    ASSUME TypeOK, CrystalsConsistent, [Next]_vars
    PROVE  [\A o \in Ops : crystal[o].terminal # None =>
               crystal'[o] = crystal[o] /\ events'[o] = events[o]]_vars
<1>0. SUFFICES ASSUME NEW q \in Ops, crystal[q].terminal # None
               PROVE  crystal'[q] = crystal[q] /\ events'[q] = events[q]
  OBVIOUS
<1>1. crystal[q].status # "NONE"
  BY <1>0 DEF CrystalsConsistent, RowConsistent, NoCrystal
<1>2. ASSUME NEW o \in Ops, NEW r \in Request, NEW pol \in Policies \cup {None},
             CrystallizeUnder(o, r, pol)
      PROVE  crystal'[q] = crystal[q] /\ events'[q] = events[q]
  BY <1>1, <1>2, CrystallizeEffect
<1>3. ASSUME NEW o \in Ops, NEW facets \in Facets, NEW c \in Commitments, NEW late \in BOOLEAN,
             FinanceCommit(o, facets, c, late) \/ CommitUnenforced(o, facets, c, late)
      PROVE  crystal'[q] = crystal[q] /\ events'[q] = events[q]
  <2>1. /\ crystal[o].terminal = None
        /\ \A p \in Ops : p # o => crystal'[p] = crystal[p] /\ events'[p] = events[p]
    BY <1>3, CommitEffect
  <2> QED
    BY <1>0, <2>1
<1>4. ASSUME NEW o \in Ops, Adjudicate(o)
      PROVE  crystal'[q] = crystal[q] /\ events'[q] = events[q]
  BY <1>0, <1>4, AdjudicateEffect
<1>5. ASSUME NEW S \in SUBSET Ops, Sweep(S)
      PROVE  crystal'[q] = crystal[q] /\ events'[q] = events[q]
  BY <1>0, <1>5, SweepEffect
<1>6. ASSUME NEW o \in Ops, HorizonPasses(o)
      PROVE  crystal'[q] = crystal[q] /\ events'[q] = events[q]
  BY <1>6 DEF HorizonPasses
<1>7. CASE UNCHANGED vars
  BY <1>7 DEF vars
<1> QED
  BY <1>2, <1>3, <1>4, <1>5, <1>6, <1>7, StepCases

(* An operation ends once: no commit, adjudication or sweep that comes     *)
(* later changes its row or its events.                                    *)
THEOREM TerminalStatesAreFinal == Spec => TerminalIsFinal
<1>1. TypeOK /\ CrystalsConsistent /\ [Next]_vars =>
        [\A o \in Ops : crystal[o].terminal # None =>
            crystal'[o] = crystal[o] /\ events'[o] = events[o]]_vars
  BY FinalStep
<1> QED
  BY <1>1, CrystalTypeCorrect, CrystalsStayConsistent, PTL DEF Spec, TerminalIsFinal

-----------------------------------------------------------------------------
(***************************************************************************)
(* The spine implements a book of holds                                    *)
(***************************************************************************)

(* The refinement mapping, row by row.                                     *)
LEMMA BookColumns ==
    /\ DOMAIN HoldOf = Ops /\ \A q \in Ops : HoldOf[q] = HoldRow(q)
    /\ DOMAIN BalanceOf = Accounts /\ \A a \in Accounts : BalanceOf[a] = account[a].balance
  BY DEF HoldOf, BalanceOf

LEMMA BookColumnsNext ==
    /\ HoldOf' = [q \in Ops |-> HoldRow(q)']
    /\ BalanceOf' = [a \in Accounts |-> account'[a].balance]
  BY DEF HoldOf, BalanceOf

(* The sums of the two specifications are the same sums.                   *)
LEMMA BookSums ==
    ASSUME NEW f, NEW n
    PROVE  Book!SumTo(f, n) = SumTo(f, n)
  BY DEF SumTo, Book!SumTo

(* The state of a hold, status by status.                                  *)
LEMMA HoldStates ==
    ASSUME NEW s, NEW adjudicated \in BOOLEAN
    PROVE  /\ s = "NONE" => HoldState(s, adjudicated) = "free"
           /\ s = "CRYSTALLIZED" => HoldState(s, adjudicated) = "held"
           /\ s = "COMMITTED" => HoldState(s, adjudicated) = "charged"
           /\ s = "STRANDED" /\ ~adjudicated => HoldState(s, adjudicated) = "pinned"
           /\ s = "STRANDED" /\ adjudicated => HoldState(s, adjudicated) = "released"
           /\ s = "EXPIRED" => HoldState(s, adjudicated) = "released"
  BY DEF HoldState

(* A row that does not change is a hold that does not change.              *)
LEMMA SameHolds ==
    ASSUME NEW q, crystal'[q] = crystal[q]
    PROVE  HoldRow(q)' = HoldRow(q)
  BY DEF HoldRow, ChargeOf

(* The hold of a crystal that nobody has resolved.                         *)
LEMMA OpenHold ==
    ASSUME TypeOK, NEW o \in Ops, crystal[o].status = "CRYSTALLIZED"
    PROVE  HoldRow(o) = [state |-> "held", owner |-> crystal[o].account, amount |-> crystal[o].amt]
<1>1. ChargeOf(o) = crystal[o].amt
  BY DEF ChargeOf
<1>2. crystal[o].adjudicated \in BOOLEAN
  BY RowTypes DEF Crystal
<1> QED
  BY <1>1, <1>2, HoldStates DEF HoldRow

LEMMA CrystallizeIsPlace ==
    ASSUME TypeOK, TypeOK', NEW o \in Ops, NEW r \in Request, NEW pol \in Policies \cup {None},
           CrystallizeUnder(o, r, pol)
    PROVE  /\ r.account \in Accounts /\ r.amt \in 0..BalanceOf[r.account]
           /\ Book!Place(o, r.account, r.amt)
<1>1. /\ crystal[o].status = "NONE" /\ crystal'[o].status = "CRYSTALLIZED"
      /\ crystal'[o].account = r.account /\ crystal'[o].amt = r.amt
      /\ crystal'[o].adjudicated = FALSE
      /\ r.account \in Accounts /\ r.amt \in Nat
      /\ \A q \in Ops : q # o => crystal'[q] = crystal[q]
      /\ \A a \in Accounts :
            account'[a].balance = account[a].balance - IF a = r.account THEN r.amt ELSE 0
  BY CrystallizeEffect
<1>2. \A a \in Accounts : account[a].balance \in Nat /\ account'[a].balance \in Nat
  BY DEF TypeOK
<1>3. HoldRow(o).state = "free"
  <2>1. crystal[o].adjudicated \in BOOLEAN
    BY RowTypes DEF Crystal
  <2> QED
    BY <1>1, <2>1, HoldStates DEF HoldRow
<1>4. HoldRow(o)' = [state |-> "held", owner |-> r.account, amount |-> r.amt]
  <2>1. ChargeOf(o)' = r.amt
    BY <1>1 DEF ChargeOf
  <2> QED
    BY <1>1, <2>1, HoldStates DEF HoldRow
<1>5. \A q \in Ops : q # o => HoldRow(q)' = HoldRow(q)
  BY <1>1, SameHolds
<1>6. HoldOf' = [HoldOf EXCEPT ![o] = [state |-> "held", owner |-> r.account, amount |-> r.amt]]
  BY <1>4, <1>5, BookColumns, BookColumnsNext
<1>7. BalanceOf' = [BalanceOf EXCEPT ![r.account] = @ - r.amt]
  <2>1. \A a \in Accounts :
          account'[a].balance = IF a = r.account THEN BalanceOf[a] - r.amt ELSE BalanceOf[a]
    BY <1>1, <1>2, BookColumns
  <2> QED
    BY <2>1, BookColumns, BookColumnsNext
<1>8. r.amt <= BalanceOf[r.account]
  BY <1>1, <1>2, BookColumns
<1> QED
  BY <1>1, <1>3, <1>6, <1>7, <1>8, BookColumns DEF Book!Place

(* What a commit charges is the commitment, up to the hold.                *)
LEMMA CommitIsCharge ==
    ASSUME TypeOK, TypeOK', CrystalsConsistent, NEW o \in Ops, NEW facets, NEW c \in Commitments,
           NEW late, FinanceCommit(o, facets, c, late) \/ CommitUnenforced(o, facets, c, late)
    PROVE  /\ HoldOf[o].state # "free"
           /\ Lesser(c, crystal[o].amt) \in 0..(BalanceOf[HoldOf[o].owner] + HoldOf[o].amount)
           /\ Book!Charge(o, Lesser(c, crystal[o].amt))
<1> DEFINE cost == Lesser(c, crystal[o].amt)
<1>1. /\ crystal[o].status # "NONE" /\ crystal[o].terminal = None
      /\ crystal'[o].status = "COMMITTED" /\ crystal'[o].committed = c
      /\ crystal'[o].account = crystal[o].account /\ crystal'[o].amt = crystal[o].amt
      /\ \A q \in Ops : q # o => crystal'[q] = crystal[q]
      /\ \A a \in Accounts :
            account'[a].balance =
              account[a].balance + IF a = crystal[o].account THEN CommitRefund(o, c) ELSE 0
  BY CommitEffect DEF SameTerms
<1>2. crystal[o].status = "CRYSTALLIZED"
  BY <1>1, OpenIsCrystallized
<1>3. /\ cost \in Nat /\ CommitRefund(o, c) = crystal[o].amt - cost /\ CommitRefund(o, c) \in Nat
      /\ crystal[o].amt \in Nat /\ crystal[o].account \in Accounts
  BY <1>1, RefundType, RowTypes
<1>4. \A a \in Accounts : account[a].balance \in Nat
  BY DEF TypeOK
<1>5. HoldRow(o) = [state |-> "held", owner |-> crystal[o].account, amount |-> crystal[o].amt]
  BY <1>2, OpenHold
<1>6. HoldRow(o)' = [state |-> "charged", owner |-> crystal[o].account, amount |-> cost]
  <2>1. ChargeOf(o)' = cost
    BY <1>1 DEF ChargeOf
  <2>2. crystal'[o].adjudicated \in BOOLEAN
    BY CommitEffect DEF Crystal
  <2> QED
    BY <1>1, <2>1, <2>2, HoldStates DEF HoldRow
<1> HIDE DEF cost
<1>7. \A q \in Ops : q # o => HoldRow(q)' = HoldRow(q)
  BY <1>1, SameHolds
<1>8. HoldOf' = [HoldOf EXCEPT ![o] = [state |-> "charged", owner |-> HoldOf[o].owner, amount |-> cost]]
  <2>1. HoldOf[o].owner = crystal[o].account
    BY <1>5, BookColumns
  <2> QED
    BY <1>6, <1>7, <2>1, BookColumns, BookColumnsNext
<1>9. BalanceOf' = [BalanceOf EXCEPT ![crystal[o].account] = @ + crystal[o].amt - cost]
  <2>1. \A a \in Accounts :
          account'[a].balance = IF a = crystal[o].account THEN BalanceOf[a] + crystal[o].amt - cost
                                ELSE BalanceOf[a]
    BY <1>1, <1>3, <1>4, BookColumns
  <2> QED
    BY <2>1, BookColumns, BookColumnsNext
<1>10. HoldOf[o] = HoldRow(o) /\ BalanceOf[crystal[o].account] \in Nat
  BY <1>3, <1>4, BookColumns
<1>11. Book!Charge(o, cost)
  BY <1>5, <1>8, <1>9, <1>10 DEF Book!Charge
<1>12. cost \in 0..(BalanceOf[HoldOf[o].owner] + HoldOf[o].amount)
  BY <1>3, <1>5, <1>10
<1>13. HoldOf[o].state # "free"
  BY <1>5, <1>10
<1> QED
  BY <1>11, <1>12, <1>13 DEF cost

(* Any batch that a step gives back and pins.                              *)
LEMMA BatchIsResolve ==
    ASSUME TypeOK, NEW R \in SUBSET Ops, NEW P \in SUBSET Ops, R \cap P = {},
           \A q \in R \cup P : crystal[q].status = "CRYSTALLIZED",
           \A q \in R : HoldRow(q)' = [state |-> "released", owner |-> crystal[q].account, amount |-> 0],
           \A q \in P : HoldRow(q)' = [state |-> "pinned", owner |-> crystal[q].account,
                                       amount |-> crystal[q].amt],
           \A q \in Ops : q \notin R \cup P => HoldRow(q)' = HoldRow(q),
           \A a \in Accounts :
              account'[a].balance = account[a].balance
                 + SumTo([o \in Ops |-> IF o \in R /\ crystal[o].account = a
                                        THEN crystal[o].amt ELSE 0], NumOps)
    PROVE  Book!Resolve(R, P)
<1>1. ASSUME NEW q \in R \cup P
      PROVE  /\ HoldOf[q].state = "held" /\ HoldOf[q].owner = crystal[q].account
             /\ HoldOf[q].amount = crystal[q].amt
  BY OpenHold, BookColumns
<1>2. ASSUME NEW a \in Accounts
      PROVE  account'[a].balance = BalanceOf[a] + Book!Returned(R, a)
  <2> DEFINE f == [o \in 1..NumOps |-> IF o \in R /\ HoldOf[o].owner = a THEN HoldOf[o].amount ELSE 0]
             g == [o \in Ops |-> IF o \in R /\ crystal[o].account = a THEN crystal[o].amt ELSE 0]
  <2>1. f = g
    <3>1. \A o \in R : HoldOf[o].owner = crystal[o].account /\ HoldOf[o].amount = crystal[o].amt
      BY <1>1
    <3> QED
      BY <3>1 DEF Ops
  <2>2. Book!Returned(R, a) = Book!SumTo(f, NumOps)
    BY DEF Book!Returned
  <2>3. account'[a].balance = account[a].balance + SumTo(g, NumOps)
    OBVIOUS
  <2> HIDE DEF f, g
  <2> QED
    BY <2>1, <2>2, <2>3, BookSums, BookColumns
<1>3. BalanceOf' = [a \in Accounts |-> BalanceOf[a] + Book!Returned(R, a)]
  BY <1>2, BookColumnsNext
<1>4. HoldOf' = [q \in 1..NumOps |->
                   IF q \in R THEN [state |-> "released", owner |-> HoldOf[q].owner, amount |-> 0]
                   ELSE IF q \in P
                        THEN [state |-> "pinned", owner |-> HoldOf[q].owner, amount |-> HoldOf[q].amount]
                        ELSE HoldOf[q]]
  <2>1. \A q \in R :
          HoldRow(q)' = [state |-> "released", owner |-> HoldOf[q].owner, amount |-> 0]
    BY <1>1
  <2>2. \A q \in P :
          HoldRow(q)' = [state |-> "pinned", owner |-> HoldOf[q].owner, amount |-> HoldOf[q].amount]
    BY <1>1
  <2>3. \A q \in Ops : q \notin R \cup P => HoldRow(q)' = HoldOf[q]
    BY BookColumns
  <2> QED
    BY <2>1, <2>2, <2>3, BookColumnsNext DEF Ops
<1> QED
  BY <1>1, <1>3, <1>4 DEF Book!Resolve

(* adjudicate("strand") gives the hold back, whatever its name says.       *)
LEMMA AdjudicateIsResolve ==
    ASSUME TypeOK, CrystalsConsistent, NEW o \in Ops, Adjudicate(o)
    PROVE  Book!Resolve({o}, {})
<1>1. /\ crystal[o].status # "NONE" /\ crystal[o].terminal = None
      /\ crystal'[o].status = "STRANDED" /\ crystal'[o].adjudicated = TRUE
      /\ crystal'[o].account = crystal[o].account
      /\ \A q \in Ops : q # o => crystal'[q] = crystal[q]
      /\ \A a \in Accounts :
            account'[a].balance =
              account[a].balance + IF a = crystal[o].account THEN crystal[o].amt ELSE 0
  BY AdjudicateEffect DEF SameTerms
<1>2. crystal[o].status = "CRYSTALLIZED"
  BY <1>1, OpenIsCrystallized
<1>3. HoldRow(o)' = [state |-> "released", owner |-> crystal[o].account, amount |-> 0]
  <2>1. ChargeOf(o)' = 0
    BY <1>1 DEF ChargeOf
  <2> QED
    BY <1>1, <2>1, HoldStates DEF HoldRow
<1>4. \A q \in Ops : q # o => HoldRow(q)' = HoldRow(q)
  BY <1>1, SameHolds
<1>5. ASSUME NEW a \in Accounts
      PROVE  SumTo([q \in Ops |-> IF q \in {o} /\ crystal[q].account = a
                                  THEN crystal[q].amt ELSE 0], NumOps)
               = IF a = crystal[o].account THEN crystal[o].amt ELSE 0
  <2> DEFINE f == [q \in Ops |-> IF q \in {o} /\ crystal[q].account = a THEN crystal[q].amt ELSE 0]
             z == [q \in Ops |-> 0]
  <2>1. NumOps \in Nat /\ o \in 1..NumOps /\ crystal[o].amt \in Nat
    BY CrystalAssumption, RowTypes DEF Ops
  <2>2. z \in [1..NumOps -> Int] /\ \A i \in 1..NumOps : z[i] = 0
    BY DEF Ops
  <2>3. f \in [1..NumOps -> Int] /\ \A i \in 1..NumOps : i # o => f[i] = z[i]
    BY <2>1 DEF Ops
  <2>4. f[o] = IF a = crystal[o].account THEN crystal[o].amt ELSE 0
    OBVIOUS
  <2> HIDE DEF f, z
  <2>5. SumTo(z, NumOps) = 0
    BY <2>1, <2>2, SumOfZeros
  <2>6. SumTo(f, NumOps) = SumTo(z, NumOps) + (f[o] - z[o])
    BY <2>1, <2>2, <2>3, SumChangeOne
  <2>7. SumTo(f, NumOps) = IF a = crystal[o].account THEN crystal[o].amt ELSE 0
    BY <2>1, <2>2, <2>4, <2>5, <2>6
  <2> QED
    BY <2>7 DEF f
<1> DEFINE R == {o}
           P == {}
<1>6. ASSUME NEW a \in Accounts
      PROVE  account'[a].balance = account[a].balance
               + SumTo([q \in Ops |-> IF q \in R /\ crystal[q].account = a
                                      THEN crystal[q].amt ELSE 0], NumOps)
  BY <1>1, <1>5
<1>7. /\ R \in SUBSET Ops /\ P \in SUBSET Ops /\ R \cap P = {}
      /\ \A q \in R \cup P : crystal[q].status = "CRYSTALLIZED"
      /\ \A q \in R : HoldRow(q)' = [state |-> "released", owner |-> crystal[q].account, amount |-> 0]
      /\ \A q \in Ops : q \notin R \cup P => HoldRow(q)' = HoldRow(q)
      /\ \A q \in P : FALSE
  BY <1>2, <1>3, <1>4
<1> HIDE DEF R, P
<1>8. Book!Resolve(R, P)
  BY <1>6, <1>7, BatchIsResolve
<1> QED
  BY <1>8 DEF R, P

(* A sweep gives back what it expires and pins what it strands.            *)
LEMMA SweepIsResolve ==
    ASSUME TypeOK, OpenNotAdjudicated, NEW S \in SUBSET Ops, Sweep(S)
    PROVE  Book!Resolve({o \in S : ~Strands(o)}, {o \in S : Strands(o)})
<1> DEFINE R == {o \in S : ~Strands(o)}
           P == {o \in S : Strands(o)}
<1>1. ASSUME NEW q \in Ops
      PROVE  /\ q \notin S => crystal'[q] = crystal[q]
             /\ q \in S =>
                  /\ crystal[q].status = "CRYSTALLIZED"
                  /\ crystal'[q].status = IF Strands(q) THEN "STRANDED" ELSE "EXPIRED"
                  /\ crystal'[q].adjudicated = FALSE
                  /\ crystal'[q].account = crystal[q].account /\ crystal'[q].amt = crystal[q].amt
  <2>1. q \in S => crystal[q].status = "CRYSTALLIZED" /\ crystal'[q].adjudicated = crystal[q].adjudicated
    BY SweepEffect
  <2>2. q \in S => crystal[q].adjudicated = FALSE
    <3>1. crystal[q].adjudicated \in BOOLEAN
      BY RowTypes DEF Crystal
    <3> QED
      BY <2>1, <3>1 DEF OpenNotAdjudicated
  <2> QED
    BY <2>1, <2>2, SweepEffect DEF SameTerms
<1>2. ASSUME NEW q \in R
      PROVE  HoldRow(q)' = [state |-> "released", owner |-> crystal[q].account, amount |-> 0]
  <2>1. ChargeOf(q)' = 0
    BY <1>1 DEF ChargeOf
  <2> QED
    BY <1>1, <2>1, HoldStates DEF HoldRow
<1>3. ASSUME NEW q \in P
      PROVE  HoldRow(q)' = [state |-> "pinned", owner |-> crystal[q].account, amount |-> crystal[q].amt]
  <2>1. ChargeOf(q)' = crystal[q].amt
    BY <1>1 DEF ChargeOf
  <2> QED
    BY <1>1, <2>1, HoldStates DEF HoldRow
<1>4. \A q \in Ops : q \notin R \cup P => HoldRow(q)' = HoldRow(q)
  BY <1>1, SameHolds
<1>5. ASSUME NEW a \in Accounts
      PROVE  account'[a].balance = account[a].balance
               + SumTo([o \in Ops |-> IF o \in R /\ crystal[o].account = a
                                      THEN crystal[o].amt ELSE 0], NumOps)
  <2>1. AccountReleases(S, a) = [o \in Ops |-> IF o \in R /\ crystal[o].account = a
                                               THEN crystal[o].amt ELSE 0]
    BY DEF AccountReleases
  <2> QED
    BY <2>1, SweepEffect DEF ReleasedTo
<1>6. R \in SUBSET Ops /\ P \in SUBSET Ops /\ R \cap P = {}
  OBVIOUS
<1>7. \A q \in R \cup P : crystal[q].status = "CRYSTALLIZED"
  BY <1>1
<1> HIDE DEF R, P
<1>8. Book!Resolve(R, P)
  BY <1>2, <1>3, <1>4, <1>5, <1>6, <1>7, BatchIsResolve
<1> QED
  BY <1>8 DEF R, P

LEMMA BookStep ==
    ASSUME TypeOK, TypeOK', CrystalsConsistent, OpenNotAdjudicated, [Next]_vars
    PROVE  [Book!Next]_(Book!vars)
<1>1. ASSUME NEW o \in Ops, NEW r \in Request, NEW pol \in Policies \cup {None},
             CrystallizeUnder(o, r, pol)
      PROVE  Book!Next
  BY <1>1, CrystallizeIsPlace DEF Book!Next, Ops
<1>2. ASSUME NEW o \in Ops, NEW facets \in Facets, NEW c \in Commitments, NEW late \in BOOLEAN,
             FinanceCommit(o, facets, c, late) \/ CommitUnenforced(o, facets, c, late)
      PROVE  Book!Next
  <2>1. o \in Book!Placed
    BY <1>2, CommitIsCharge DEF Book!Placed, Ops
  <2> QED
    BY <1>2, <2>1, CommitIsCharge DEF Book!Next
<1>3. ASSUME NEW o \in Ops, Adjudicate(o) PROVE Book!Next
  <2>1. {} \in SUBSET (1..NumOps) /\ {o} \in SUBSET (1..NumOps)
    BY DEF Ops
  <2> QED
    BY <1>3, <2>1, AdjudicateIsResolve DEF Book!Next
<1>4. ASSUME NEW S \in SUBSET Ops, Sweep(S) PROVE Book!Next
  <2>1. /\ {o \in S : ~Strands(o)} \in SUBSET (1..NumOps)
        /\ {o \in S : Strands(o)} \in SUBSET (1..NumOps)
    BY DEF Ops
  <2> QED
    BY <1>4, <2>1, SweepIsResolve DEF Book!Next
<1>5. ASSUME crystal' = crystal, account' = account PROVE UNCHANGED Book!vars
  BY <1>5, SameHolds DEF Book!vars, HoldOf, BalanceOf
<1>6. ASSUME NEW o \in Ops, HorizonPasses(o) PROVE UNCHANGED Book!vars
  BY <1>5, <1>6 DEF HorizonPasses
<1>7. CASE UNCHANGED vars
  BY <1>5, <1>7 DEF vars
<1> QED
  BY <1>1, <1>2, <1>3, <1>4, <1>6, <1>7, StepCases

(* The finance, insurance and cybersecurity spines implement the book of   *)
(* holds: every crystallize, commit, adjudication and horizon sweep is one *)
(* step of GovernedHolds or leaves exposure and holds alone.               *)
THEOREM SpineImplementsHolds == Spec => ImplementsHolds
<1>1. Init => Book!Init
  <2> SUFFICES ASSUME Init PROVE Book!Init
    OBVIOUS
  <2>1. ASSUME NEW o \in Ops
        PROVE  HoldRow(o) = [state |-> "free", owner |-> None, amount |-> 0]
    <3>1. crystal[o].status = "NONE" /\ crystal[o].account = None /\ crystal[o].adjudicated = FALSE
      BY DEF Init, NoCrystal
    <3>2. ChargeOf(o) = 0
      BY <3>1 DEF ChargeOf
    <3> QED
      BY <3>1, <3>2, HoldStates DEF HoldRow
  <2>2. HoldOf = [o \in 1..NumOps |-> [state |-> "free", owner |-> None, amount |-> 0]]
    BY <2>1 DEF HoldOf, Ops
  <2>3. BalanceOf = InitialBalance
    BY CrystalAssumption DEF Init, BalanceOf
  <2> QED
    BY <2>2, <2>3 DEF Book!Init
<1>2. Init => OpenNotAdjudicated
  BY DEF Init, OpenNotAdjudicated, NoCrystal
<1>3. TypeOK /\ OpenNotAdjudicated /\ [Next]_vars => OpenNotAdjudicated'
  BY OpenNotAdjudicatedStep
<1>4. TypeOK /\ TypeOK' /\ CrystalsConsistent /\ OpenNotAdjudicated /\ [Next]_vars
        => [Book!Next]_(Book!vars)
  BY BookStep
<1> QED
  BY <1>1, <1>2, <1>3, <1>4, CrystalTypeCorrect, CrystalsStayConsistent, PTL
     DEF Spec, ImplementsHolds, Book!Spec
=============================================================================
