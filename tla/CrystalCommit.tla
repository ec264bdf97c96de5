---------------------------- MODULE CrystalCommit ----------------------------
(***************************************************************************)
(* The Crystal Commit Protocol of the three sibling governors: a platform  *)
(* crystallizes an operation (which may hold exposure of an account),      *)
(* acts, and commits; what is never committed is resolved when its commit  *)
(* horizon has passed.  spine/sidecar/app/commit_ledger.py and             *)
(* spine/reconciler/app/horizon_sweeper.py of each governor.               *)
(*                                                                         *)
(* One action is one committed transaction; a refused or replayed request  *)
(* changes nothing.  The governors share the protocol and differ in what   *)
(* surrounds it: finance enforces drift, adjudicates and fills in the      *)
(* platform's default policy; each has an audit of its own.  The incident  *)
(* row that accompanies DRIFT_ENFORCED is left out.                        *)
(*                                                                         *)
(* Unused definitions directly before another are faulty variants of it.   *)
(***************************************************************************)
EXTENDS Integers, FiniteSets, LedgerSums

CONSTANTS
    NumOps,          \* operation ids are the numbers 1..NumOps
    Governors,       \* the governors of the instance
    Platforms,       \* the registered and enabled platforms
    Accounts,        \* account ids with an exposure (reserve, budget) row
    Tiers,           \* risk tiers of crystallize requests
    Facets,          \* facet documents
    Policies,        \* policy ids
    Policy,          \* the policy registry
    DefaultPolicy,   \* platform_registry.default_policy_id
    MeshRules,       \* the enabled rows of crystal_mesh_rules
    InitialBalance,  \* the seeded balances
    Reservations,    \* reserved amounts of crystallize requests
    Commitments,     \* committed amounts of commit requests
    DriftAbsolute,   \* drift_absolute_tolerance
    DriftRatio,      \* drift_ratio_tolerance, <<numerator, denominator>>
    BatchSize,       \* the sweep's LIMIT
    None             \* SQL NULL

Ops == 1..NumOps

HighRisk == {"critical", "high"}

ASSUME CrystalAssumption ==
    /\ NumOps \in Nat
    /\ Governors \subseteq {"finance", "insurance", "cybersecurity"}
    /\ Tiers \subseteq HighRisk \cup {"standard"}
    /\ Policy \in [Policies -> [max: Nat, class: HighRisk \cup {"standard"},
                                autoExpire: BOOLEAN, enabled: BOOLEAN]]
    /\ DefaultPolicy \in [Platforms -> Policies \cup {None}]
    /\ MeshRules \subseteq [parent: Platforms, facets: SUBSET Facets, child: Platforms]
    /\ InitialBalance \in [Accounts -> Nat]
    /\ Reservations \subseteq Nat
    /\ Commitments \subseteq Nat
    /\ DriftAbsolute \in Nat
    /\ DriftRatio \in Nat \X (Nat \ {0})
    /\ BatchSize \in Nat \ {0}
    /\ None \notin Policies \cup Platforms \cup Accounts \cup Facets
    /\ None \notin {"COMMITTED", "EXPIRED", "STRANDED"}

VARIABLES
    governor,  \* whose database this is
    account,   \* account_ledgers, reserve_ledgers, security_budget_ledgers
    crystal,   \* governance_crystals joined with the escrow ledger
    events,    \* decision, claim, security events: rows per operation and type
    past       \* operations with horizon_expires_at <= CURRENT_TIMESTAMP

vars == <<governor, account, crystal, events, past>>

-----------------------------------------------------------------------------
(***************************************************************************)
(* Rows                                                                    *)
(***************************************************************************)

Terminal == {"COMMITTED", "EXPIRED", "STRANDED"}

(* "status" is the escrow row's, "terminal" the crystal's terminal_state;  *)
(* "born" orders the crystals by crystallized_at.                          *)
Crystal ==
    [status: Terminal \cup {"NONE", "CRYSTALLIZED"}, terminal: Terminal \cup {None},
     platform: Platforms \cup {None}, account: Accounts \cup {None},
     tier: HighRisk \cup {"standard"}, policy: Policies \cup {None},
     facets: Facets \cup {None}, amt: Nat, committed: Nat, born: Nat,
     adjudicated: BOOLEAN]

NoCrystal ==
    [status |-> "NONE", terminal |-> None, platform |-> None, account |-> None,
     tier |-> "standard", policy |-> None, facets |-> None, amt |-> 0,
     committed |-> 0, born |-> 0, adjudicated |-> FALSE]

EventTypes ==
    {"CRYSTAL_CREATED", "COMMITTED_FINAL", "HORIZON_EXPIRED", "STRANDED_HOLD",
     "DRIFT_ENFORCED", "DRIFT_TOLERATED"}

Request ==
    [platform: Platforms, account: Accounts, tier: Tiers, facets: Facets,
     policy: Policies \cup {None}, amt: Reservations]

Init ==
    /\ governor \in Governors
    /\ account = [a \in Accounts |-> [balance |-> InitialBalance[a], active |-> TRUE]]
    /\ crystal = [o \in Ops |-> NoCrystal]
    /\ events = [o \in Ops |-> [e \in EventTypes |-> 0]]
    /\ past = {}

AppendEvents(o, es) ==
    events' = [events EXCEPT ![o] =
                 [e \in EventTypes |-> @[e] + IF e \in es THEN 1 ELSE 0]]

Existing == {o \in Ops : crystal[o].status # "NONE"}

Open(o) == crystal[o].status # "NONE" /\ crystal[o].terminal = None

-----------------------------------------------------------------------------
(***************************************************************************)
(* Crystallize                                                             *)
(***************************************************************************)

PolicyAdmits(pol, amt) ==
    pol # None => Policy[pol].enabled /\ amt <= Policy[pol].max

(* An account is only looked at when there is something to hold.           *)
HoldUnchecked(a, amt) == amt > 0 => account[a].active
HoldFits(a, amt) == amt > 0 => account[a].active /\ account[a].balance >= amt

(* The crystal and its escrow row.  An operation id that already has a     *)
(* crystal is a replay on its own platform and a duplicate key on another. *)
CrystallizeUnder(o, r, pol) ==
    /\ crystal[o].status = "NONE"
    /\ PolicyAdmits(pol, r.amt)
    /\ HoldFits(r.account, r.amt)
    /\ account' = [account EXCEPT ![r.account] =
                     [balance |-> @.balance - r.amt, active |-> @.active]]
    /\ crystal' = [crystal EXCEPT ![o] =
                     [status |-> "CRYSTALLIZED", terminal |-> None,
                      platform |-> r.platform, account |-> r.account,
                      tier |-> r.tier, policy |-> pol, facets |-> r.facets,
                      amt |-> r.amt, committed |-> 0,
                      born |-> Cardinality(Existing) + 1, adjudicated |-> FALSE]]
    /\ AppendEvents(o, {"CRYSTAL_CREATED"})
    /\ UNCHANGED <<governor, past>>

(* Finance takes the policy of the platform when the request names none.   *)
FinanceCrystallize(o, r) ==
    /\ governor = "finance"
    /\ CrystallizeUnder(o, r, IF r.policy = None THEN DefaultPolicy[r.platform] ELSE r.policy)

InsuranceCrystallize(o, r) ==
    /\ governor = "insurance"
    /\ CrystallizeUnder(o, r, r.policy)

CyberCrystallize(o, r) ==
    /\ governor = "cybersecurity"
    /\ CrystallizeUnder(o, r, r.policy)

-----------------------------------------------------------------------------
(***************************************************************************)
(* Commit                                                                  *)
(***************************************************************************)

(* mesh_block_reason: the newest open crystal of a parent platform carries *)
(* the facet value that blocks this platform.                              *)
Newest(S) == {o \in S : \A q \in S : crystal[q].born <= crystal[o].born}

MeshBlocked(platform) ==
    \E rule \in MeshRules :
        /\ rule.child = platform
        /\ \E o \in Newest({q \in Ops : Open(q) /\ crystal[q].platform = rule.parent}) :
               crystal[o].facets \in rule.facets

MayCommitAnyFacets(o, facets, late) ==
    /\ Open(o)
    /\ o \in past => late
    /\ ~MeshBlocked(crystal[o].platform)
MayCommit(o, facets, late) ==
    /\ Open(o)
    /\ facets = crystal[o].facets
    /\ o \in past => late
    /\ ~MeshBlocked(crystal[o].platform)

(* What goes back to the account: the part of the hold that was not        *)
(* committed.  More than the hold is committed without a further debit.    *)
Lesser(a, b) == IF a <= b THEN a ELSE b
CommitRefundSigned(o, c) == crystal[o].amt - c
CommitRefund(o, c) == crystal[o].amt - Lesser(c, crystal[o].amt)

Committed(o, c) ==
    crystal' = [crystal EXCEPT ![o].status = "COMMITTED", ![o].terminal = "COMMITTED",
                               ![o].committed = c]

DriftExceedsTolerance(drift, reserved) ==
    /\ drift > DriftAbsolute
    /\ reserved > 0 => drift * DriftRatio[2] > DriftRatio[1] * reserved

DriftEvents(drift, reserved) ==
    IF drift <= 0 THEN {}
    ELSE {IF DriftExceedsTolerance(drift, reserved) THEN "DRIFT_ENFORCED" ELSE "DRIFT_TOLERATED"}

(* Finance locks the account when the commitment exceeds the hold by more  *)
(* than the tolerances.                                                    *)
FinanceCommitNoLock(o, facets, c, late) ==
    /\ governor = "finance"
    /\ MayCommit(o, facets, late)
    /\ account' = [account EXCEPT ![crystal[o].account].balance = @ + CommitRefund(o, c)]
    /\ Committed(o, c)
    /\ AppendEvents(o, {"COMMITTED_FINAL"} \cup DriftEvents(c - crystal[o].amt, crystal[o].amt))
    /\ UNCHANGED <<governor, past>>
FinanceCommit(o, facets, c, late) ==
    /\ governor = "finance"
    /\ MayCommit(o, facets, late)
    /\ account' = [account EXCEPT ![crystal[o].account] =
                     [balance |-> @.balance + CommitRefund(o, c),
                      active |-> @.active
                                 /\ ~DriftExceedsTolerance(c - crystal[o].amt, crystal[o].amt)]]
    /\ Committed(o, c)
    /\ AppendEvents(o, {"COMMITTED_FINAL"} \cup DriftEvents(c - crystal[o].amt, crystal[o].amt))
    /\ UNCHANGED <<governor, past>>

CommitUnenforced(o, facets, c, late) ==
    /\ MayCommit(o, facets, late)
    /\ account' = [account EXCEPT ![crystal[o].account] =
                     [balance |-> @.balance + CommitRefund(o, c), active |-> @.active]]
    /\ Committed(o, c)
    /\ AppendEvents(o, {"COMMITTED_FINAL"})
    /\ UNCHANGED <<governor, past>>

InsuranceCommit(o, facets, c, late) ==
    governor = "insurance" /\ CommitUnenforced(o, facets, c, late)

CyberCommit(o, facets, c, late) ==
    governor = "cybersecurity" /\ CommitUnenforced(o, facets, c, late)

(* adjudicate_operation with the only action there is, "strand": the hold  *)
(* goes back to the account.                                               *)
AdjudicateUnchecked(o) ==
    /\ governor = "finance"
    /\ crystal[o].status # "NONE"
    /\ account' = [account EXCEPT ![crystal[o].account].balance = @ + crystal[o].amt]
    /\ crystal' = [crystal EXCEPT ![o].status = "STRANDED", ![o].terminal = "STRANDED",
                                  ![o].adjudicated = TRUE]
    /\ AppendEvents(o, {"STRANDED_HOLD"})
    /\ UNCHANGED <<governor, past>>
Adjudicate(o) ==
    /\ governor = "finance"
    /\ Open(o)
    /\ account' = [account EXCEPT ![crystal[o].account] =
                     [balance |-> @.balance + crystal[o].amt, active |-> @.active]]
    /\ crystal' = [crystal EXCEPT ![o].status = "STRANDED", ![o].terminal = "STRANDED",
                                  ![o].adjudicated = TRUE]
    /\ AppendEvents(o, {"STRANDED_HOLD"})
    /\ UNCHANGED <<governor, past>>

-----------------------------------------------------------------------------
(***************************************************************************)
(* Horizon sweep                                                           *)
(***************************************************************************)

(* The clock passes horizon_expires_at.                                    *)
HorizonPasses(o) ==
    /\ crystal[o].status # "NONE"
    /\ o \notin past
    /\ past' = past \cup {o}
    /\ UNCHANGED <<governor, account, crystal, events>>

StrandsCriticalOnly(o) == crystal[o].tier = "critical"
Strands(o) == crystal[o].tier \in HighRisk \/ crystal[o].status # "CRYSTALLIZED"

ClaimableToRefund == {o \in past : Open(o) /\ ~Strands(o)}
Claimable == {o \in past : Open(o) /\ crystal[o].status = "CRYSTALLIZED"}

AccountReleases(S, a) ==
    [o \in Ops |-> IF o \in S /\ ~Strands(o) /\ crystal[o].account = a THEN crystal[o].amt ELSE 0]
ReleasedTo(S, a) == SumTo(AccountReleases(S, a), NumOps)

(* Any batch of rows that nobody else has locked, resolved in one          *)
(* transaction: high risk keeps its hold as STRANDED, the rest is refunded.*)
SweepHorizons(S) ==
    /\ S # {} /\ S \subseteq Claimable /\ Cardinality(S) <= BatchSize
    /\ account' = [a \in Accounts |->
                     [balance |-> account[a].balance + ReleasedTo(S, a),
                      active |-> account[a].active]]
    /\ crystal' = [o \in Ops |->
                     IF o \notin S THEN crystal[o]
                     ELSE [crystal[o] EXCEPT
                             !.status = IF Strands(o) THEN "STRANDED" ELSE "EXPIRED",
                             !.terminal = IF Strands(o) THEN "STRANDED" ELSE "EXPIRED"]]
    /\ events' = [o \in Ops |-> [e \in EventTypes |->
                    events[o][e] +
                      IF o \in S /\ e = (IF Strands(o) THEN "STRANDED_HOLD" ELSE "HORIZON_EXPIRED")
                      THEN 1 ELSE 0]]
    /\ UNCHANGED <<governor, past>>

FinanceSweep(S) == governor = "finance" /\ SweepHorizons(S)
InsuranceSweep(S) == governor = "insurance" /\ SweepHorizons(S)
CyberSweep(S) == governor = "cybersecurity" /\ SweepHorizons(S)

Sweep(S) == FinanceSweep(S) \/ InsuranceSweep(S) \/ CyberSweep(S)

-----------------------------------------------------------------------------
(***************************************************************************)
(* The audit that follows a sweep, as the rows it reports.  The probes for *)
(* negative balances (TypeOK) and for caps that nothing updates are left   *)
(* out.                                                                    *)
(***************************************************************************)

CommittedWithoutCrystal ==
    {o \in Ops : crystal[o].status = "COMMITTED" /\ crystal[o].terminal # "COMMITTED"}

HighRiskAutoExpired ==
    {o \in Ops : /\ crystal[o].terminal = "EXPIRED"
                 /\ crystal[o].policy # None
                 /\ Policy[crystal[o].policy].class \in HighRisk
                 /\ ~Policy[crystal[o].policy].autoExpire}

Duplicated(e) == {o \in Ops : events[o][e] > 1}

StrandedWithoutHold ==
    {o \in Ops : crystal[o].status = "STRANDED" /\ events[o]["STRANDED_HOLD"] = 0}

FinanceAudit ==
    CommittedWithoutCrystal \cup HighRiskAutoExpired \cup Duplicated("COMMITTED_FINAL")

ClaimAudit ==
    FinanceAudit \cup Duplicated("HORIZON_EXPIRED") \cup StrandedWithoutHold

SecurityAudit ==
    FinanceAudit \cup Duplicated("HORIZON_EXPIRED") \cup StrandedWithoutHold

AuditFindings ==
    CASE governor = "finance" -> FinanceAudit
      [] governor = "insurance" -> ClaimAudit
      [] governor = "cybersecurity" -> SecurityAudit

-----------------------------------------------------------------------------
CrystallizeStep ==
    \E o \in Ops, r \in Request :
        FinanceCrystallize(o, r) \/ InsuranceCrystallize(o, r) \/ CyberCrystallize(o, r)

CommitStep ==
    \E o \in Ops, facets \in Facets, c \in Commitments, late \in BOOLEAN :
        \/ FinanceCommit(o, facets, c, late)
        \/ InsuranceCommit(o, facets, c, late)
        \/ CyberCommit(o, facets, c, late)

Next ==
    \/ CrystallizeStep
    \/ CommitStep
    \/ \E o \in Ops : Adjudicate(o)
    \/ \E o \in Ops : HorizonPasses(o)
    \/ \E S \in SUBSET Ops : Sweep(S)

Spec == Init /\ [][Next]_vars

(* The reconciler keeps sweeping, and its batch takes every row that is    *)
(* due (see the fairness of EscrowLedger), but only while its audits are   *)
(* clean: a reported row puts the spine in diagnostic mode, where the loop *)
(* skips the sweep, and does so again after an operator has cleared it.  A *)
(* sweep may still happen then, so Sweep itself has no such guard.         *)
SweepAll == AuditFindings = {} /\ Sweep(Claimable)

FairSpec == Spec /\ WF_vars(SweepAll)

-----------------------------------------------------------------------------
(***************************************************************************)
(* Properties                                                              *)
(***************************************************************************)

TypeOK ==
    /\ governor \in Governors
    /\ account \in [Accounts -> [balance: Nat, active: BOOLEAN]]
    /\ crystal \in [Ops -> Crystal]
    /\ events \in [Ops -> [EventTypes -> Nat]]
    /\ past \subseteq Ops
    /\ \A o \in Ops : crystal[o].status # "NONE" =>
           crystal[o].account \in Accounts /\ crystal[o].platform \in Platforms

(* The crystal's terminal state, the status of the escrow row and the      *)
(* events on record tell one story: every operation ends once, in one way. *)
RowConsistent(o) ==
    /\ crystal[o].terminal =
         IF crystal[o].status \in Terminal THEN crystal[o].status ELSE None
    /\ crystal[o].status = "NONE" => crystal[o] = NoCrystal
    /\ events[o]["COMMITTED_FINAL"] = IF crystal[o].status = "COMMITTED" THEN 1 ELSE 0
    /\ events[o]["HORIZON_EXPIRED"] = IF crystal[o].status = "EXPIRED" THEN 1 ELSE 0
    /\ events[o]["STRANDED_HOLD"] = IF crystal[o].status = "STRANDED" THEN 1 ELSE 0
CrystalsConsistent == \A o \in Ops : RowConsistent(o)

(* What an operation takes out of its account: the hold of an open crystal *)
(* or of one that the sweep has stranded, and of a committed one what was  *)
(* committed, up to the hold.                                              *)
ChargeOf(o) ==
    CASE crystal[o].status = "CRYSTALLIZED" -> crystal[o].amt
      [] crystal[o].status = "COMMITTED" -> Lesser(crystal[o].committed, crystal[o].amt)
      [] crystal[o].status = "STRANDED" /\ ~crystal[o].adjudicated -> crystal[o].amt
      [] OTHER -> 0

Charges(a) == [o \in Ops |-> IF crystal[o].account = a THEN ChargeOf(o) ELSE 0]

(* No exposure is made or lost by commits, adjudications and sweeps that   *)
(* race for the same crystals.                                             *)
ExposureConserved ==
    \A a \in Accounts : account[a].balance + SumTo(Charges(a), NumOps) = InitialBalance[a]

(* A critical or high-risk crystal is never resolved by guessing: it is    *)
(* never expired with a refund, whatever its policy says.                  *)
HighRiskNeverExpires == \A o \in Ops : crystal[o].tier \in HighRisk => crystal[o].status # "EXPIRED"

(* What finance commits beyond a hold is never debited.  On an account     *)
(* that is still active, every such excess is within the tolerances.       *)
UnchargedDriftIsTolerated ==
    governor = "finance" =>
        \A o \in Ops :
            crystal[o].status = "COMMITTED" /\ account[crystal[o].account].active
               => ~DriftExceedsTolerance(crystal[o].committed - crystal[o].amt, crystal[o].amt)

(* The only rows an audit of any of the governors can report, and so the   *)
(* only ones that can halt its writes, are crystals of a standard tier     *)
(* under a policy of high risk.                                            *)
AuditReportsOnlyMisclassified ==
    AuditFindings \subseteq
        {o \in Ops : /\ crystal[o].tier = "standard"
                     /\ crystal[o].policy # None
                     /\ Policy[crystal[o].policy].class \in HighRisk}

(* A terminal state is final: a commit, an adjudication or a sweep that    *)
(* comes second changes nothing.                                           *)
TerminalIsFinal ==
    [][\A o \in Ops : crystal[o].terminal # None =>
           crystal'[o] = crystal[o] /\ events'[o] = events[o]]_vars

(* The spine as GovernedHolds sees it: the sweep pins what it strands, and *)
(* only an adjudication gives back a hold that is called STRANDED.         *)
HoldState(status, adjudicated) ==
    CASE status = "NONE" -> "free"
      [] status = "CRYSTALLIZED" -> "held"
      [] status = "COMMITTED" -> "charged"
      [] status = "STRANDED" /\ ~adjudicated -> "pinned"
      [] OTHER -> "released"

HoldRow(o) ==
    [state |-> HoldState(crystal[o].status, crystal[o].adjudicated),
     owner |-> crystal[o].account, amount |-> ChargeOf(o)]

HoldOf == [o \in Ops |-> HoldRow(o)]

BalanceOf == [a \in Accounts |-> account[a].balance]

Book == INSTANCE GovernedHolds
          WITH balance <- BalanceOf, hold <- HoldOf, Owners <- Accounts, Funds <- InitialBalance

(* Crystallize, commit, adjudicate and horizon sweep of all three spines   *)
(* move exposure only as a book of holds does: what a crystal holds goes   *)
(* back once or is committed once, whichever of the racing requests and    *)
(* sweeps comes second.                                                    *)
ImplementsHolds == Book!Spec

(* Every crystal whose horizon has passed is resolved, by whatever commit, *)
(* adjudication or sweep comes first, unless the sweep has expired a       *)
(* crystal that the audit then reports: from there on diagnostic mode may  *)
(* keep the others open for ever.                                          *)
HorizonsAreResolved ==
    \A o \in Ops : o \in past ~> crystal[o].terminal # None \/ AuditFindings # {}

(* What the docs say and the code does not do.                             *)

(* "STRANDED_HOLD: ambiguous outcome, hold retained"                       *)
(* (docs/finance-governor/domain-model.md:214): open and stranded crystals *)
(* hold their exposure, committed ones what was committed.                 *)
HeldByDoc(o) ==
    CASE crystal[o].status \in {"CRYSTALLIZED", "STRANDED"} -> crystal[o].amt
      [] crystal[o].status = "COMMITTED" -> Lesser(crystal[o].committed, crystal[o].amt)
      [] OTHER -> 0
StrandedHoldsAreKept ==
    \A a \in Accounts :
        account[a].balance
          + SumTo([o \in Ops |-> IF crystal[o].account = a THEN HeldByDoc(o) ELSE 0], NumOps)
        = InitialBalance[a]
=============================================================================
