------------------------------ MODULE AdminAudit ------------------------------
(***************************************************************************)
(* Privileged operator actions and the log that proves them: the routes    *)
(* /diagnostic/clear and anchor-head, record_admin_action and the hash     *)
(* chain of admin_audit_log, and diagnostic mode itself, a flag of each    *)
(* process and one in Redis.  The four governors have copies that differ   *)
(* in the order of their statements.                                       *)
(*                                                                         *)
(* The hash of an audit row stands for what it covers: the row and         *)
(* everything its prev_hash chain reaches.  Transactions run at READ       *)
(* COMMITTED and take no lock on the log.                                  *)
(***************************************************************************)
EXTENDS Naturals, FiniteSets

CONSTANTS Governors,   \* a subset of the four governors
          Admins,      \* sidecar processes, each serving one operator request
          Reconciler,  \* the process that enters diagnostic mode
          MaxRows,     \* bound: audit rows ever inserted
          MaxFaults    \* bound: processes that die and sessions that fail

ASSUME AdminAssumption ==
    /\ Governors \subseteq {"ledger", "finance", "insurance", "cybersecurity"}
    /\ Reconciler \notin Admins /\ IsFiniteSet(Admins)
    /\ MaxRows \in Nat /\ MaxFaults \in Nat

VARIABLES governor,   \* whose log this is; it never changes
          log,        \* admin_audit_log
          nextId,     \* the sequence of audit_id
          req,        \* [Admins -> where an operator request stands]
          local,      \* [processes -> BOOLEAN]: _local["active"]
          published,  \* the Redis hash *:diagnostic_mode
          clears,     \* how often diagnostic mode was cleared by a request
          faults      \* how many processes have died and sessions failed

vars == <<governor, log, nextId, req, local, published, clears, faults>>

Ids == 1 .. MaxRows
Processes == Admins \cup {Reconciler}

\* A row as its transaction leaves it.  "before" are the rows that were
\* committed when its record_admin_action began.
NoRow == [st |-> "none", what |-> "clear", covers |-> {}, before |-> {}]

Idle == [pc |-> "idle", what |-> "clear", id |-> 0, prev |-> 0, before |-> {}]

Committed == {i \in Ids : log[i].st = "committed"}

AuditFirst == governor \in {"ledger", "finance"}

Places == {"idle", "insert", "read", "seal", "commit", "anchor", "local", "redis"}

Goto(a, pc) == req' = [req EXCEPT ![a].pc = pc]

(***************************************************************************)
(* record_admin_action                                                     *)
(***************************************************************************)
\* What it starts with: finance reads the last hash before it inserts.
StartOfRecord == IF governor = "finance" THEN "read" ELSE "insert"

INSERT(a) ==
    /\ req[a].pc = "insert" /\ nextId \in Ids
    /\ log' = [log EXCEPT ![nextId] = [st |-> "pending", what |-> req[a].what,
                                       covers |-> {}, before |-> req[a].before]]
    /\ nextId' = nextId + 1
    /\ req' = [req EXCEPT ![a].id = nextId,
                          ![a].pc = IF governor = "finance" THEN "seal" ELSE "read"]
    /\ UNCHANGED <<governor, local, published, clears, faults>>

FirstHash(a) ==
    IF Committed = {} THEN 0 ELSE CHOOSE i \in Committed : \A j \in Committed : i <= j

\* SELECT row_hash ... ORDER BY audit_id DESC LIMIT 1: the last committed row,
\* which need not be the one committed last.  The own row has no hash yet.
LastHash(a) ==
    IF Committed = {} THEN 0 ELSE CHOOSE i \in Committed : \A j \in Committed : i >= j

ReadLastHash(a) ==
    /\ req[a].pc = "read"
    /\ req' = [req EXCEPT ![a].prev = LastHash(a),
                          ![a].pc = IF governor = "finance" THEN "insert" ELSE "seal"]
    /\ UNCHANGED <<governor, log, nextId, local, published, clears, faults>>

\* compute_row_hash over the row and prev_hash, then the UPDATE.
_seal_admin_audit_row(a) ==
    /\ req[a].pc = "seal"
    /\ log' = [log EXCEPT ![req[a].id].covers =
                  IF req[a].prev = 0 THEN {} ELSE {req[a].prev} \cup log[req[a].prev].covers]
    /\ Goto(a, IF governor = "ledger" /\ req[a].what = "anchor" THEN "anchor" ELSE "commit")
    /\ UNCHANGED <<governor, nextId, local, published, clears, faults>>

CommitRow(a) == log' = [log EXCEPT ![req[a].id].st = "committed"]

\* The session is rolled back; the number is not used again.
DropRow(a) == log' = IF req[a].id = 0 THEN log ELSE [log EXCEPT ![req[a].id] = NoRow]

\* The commit: of the route (ledger, finance) or of record_admin_action.
CommitAudit(a) ==
    /\ req[a].pc = "commit"
    /\ CommitRow(a)
    /\ req' = [req EXCEPT ![a] = IF AuditFirst /\ req[a].what = "clear"
                                 THEN [Idle EXCEPT !.pc = "local"] ELSE Idle]
    /\ UNCHANGED <<governor, nextId, local, published, clears, faults>>

\* A statement or the commit raises: the session is rolled back and the request
\* ends with an error.  What it did before the session began stays done.
SessionFails(a) ==
    /\ req[a].pc \in {"insert", "read", "seal", "commit"}
    /\ faults < MaxFaults
    /\ faults' = faults + 1
    /\ DropRow(a)
    /\ req' = [req EXCEPT ![a] = Idle]
    /\ UNCHANGED <<governor, nextId, local, published, clears>>

record_admin_action(a) ==
    \/ INSERT(a) \/ ReadLastHash(a) \/ _seal_admin_audit_row(a) \/ CommitAudit(a)
    \/ SessionFails(a)

finance_record_admin_action(a) == record_admin_action(a)

insurance_record_admin_action(a) == record_admin_action(a)

cybersecurity_record_admin_action(a) == record_admin_action(a)

(***************************************************************************)
(* Diagnostic mode                                                         *)
(***************************************************************************)
\* The flag of the process, then the hash in Redis if Redis answers.
enter_diagnostic_mode ==
    /\ ~local[Reconciler]
    /\ local' = [local EXCEPT ![Reconciler] = TRUE]
    /\ published' \in {published, TRUE}
    /\ UNCHANGED <<governor, log, nextId, req, clears, faults>>

ClearLocal(a) ==
    /\ req[a].pc = "local"
    /\ local' = [local EXCEPT ![a] = FALSE]
    /\ Goto(a, "redis")
    /\ UNCHANGED <<governor, log, nextId, published, clears, faults>>

\* DEL, if Redis answers.  The siblings write their audit row now.
ClearPublished(a) ==
    /\ req[a].pc = "redis"
    /\ published' \in {published, FALSE}
    /\ clears' = clears + 1
    /\ req' = [req EXCEPT ![a] = IF AuditFirst THEN Idle
                                 ELSE [Idle EXCEPT !.pc = StartOfRecord, !.before = Committed]]
    /\ UNCHANGED <<governor, log, nextId, local, faults>>

clear_diagnostic_mode(a) == ClearLocal(a) \/ ClearPublished(a)

finance_clear_diagnostic_mode(a) == clear_diagnostic_mode(a)

insurance_clear_diagnostic_mode(a) == clear_diagnostic_mode(a)

cybersecurity_clear_diagnostic_mode(a) == clear_diagnostic_mode(a)

(***************************************************************************)
(* Routes                                                                  *)
(***************************************************************************)
Begin(a, what, pc) ==
    /\ req[a].pc = "idle"
    /\ req' = [req EXCEPT ![a] = [Idle EXCEPT !.what = what, !.pc = pc, !.before = Committed]]
    /\ UNCHANGED <<governor, log, nextId, local, published, clears, faults>>

ClearWithoutAudit(a) == Begin(a, "clear", "local")

\* The ledger and finance commit the audit row before they clear.
audited_clear(a) == Begin(a, "clear", StartOfRecord)

\* Insurance and cybersecurity clear first and record afterwards.
clear_then_audit(a) == Begin(a, "clear", "local")

\* anchor-head: the ledger records the action in the transaction that stores
\* the anchor, the siblings after it is committed.  There is none in finance.
anchor_head(a) ==
    /\ governor # "finance"
    /\ Begin(a, "anchor", IF governor = "ledger" THEN "insert" ELSE "anchor")

\* The chain verifies and the anchor is stored, or the request ends with 422:
\* the ledger's audit row is rolled back with it.
AnchorOutcome(a) ==
    /\ req[a].pc = "anchor"
    /\ \/ /\ UNCHANGED log
          /\ req' = [req EXCEPT ![a] = IF governor = "ledger" THEN [@ EXCEPT !.pc = "commit"]
                                       ELSE [@ EXCEPT !.pc = "insert", !.before = Committed]]
       \/ /\ DropRow(a)
          /\ req' = [req EXCEPT ![a] = Idle]
    /\ UNCHANGED <<governor, nextId, local, published, clears, faults>>

\* A process dies, and with it its flag and its open transaction.
Crash(p) ==
    /\ faults < MaxFaults
    /\ faults' = faults + 1
    /\ local' = [local EXCEPT ![p] = FALSE]
    /\ IF p \in Admins
       THEN /\ DropRow(p)
            /\ req' = [req EXCEPT ![p] = Idle]
       ELSE UNCHANGED <<log, req>>
    /\ UNCHANGED <<governor, nextId, published, clears>>
-----------------------------------------------------------------------------
Init ==
    /\ governor \in Governors
    /\ log = [i \in Ids |-> NoRow]
    /\ nextId = 1
    /\ req = [a \in Admins |-> Idle]
    /\ local = [p \in Processes |-> FALSE]
    /\ published = FALSE
    /\ clears = 0
    /\ faults = 0

LedgerRoutes(a) ==
    audited_clear(a) \/ anchor_head(a) \/ AnchorOutcome(a) \/ record_admin_action(a)
    \/ clear_diagnostic_mode(a)

FinanceRoutes(a) ==
    audited_clear(a) \/ finance_record_admin_action(a) \/ finance_clear_diagnostic_mode(a)

InsuranceRoutes(a) ==
    clear_then_audit(a) \/ anchor_head(a) \/ AnchorOutcome(a)
    \/ insurance_record_admin_action(a) \/ insurance_clear_diagnostic_mode(a)

CybersecurityRoutes(a) ==
    clear_then_audit(a) \/ anchor_head(a) \/ AnchorOutcome(a)
    \/ cybersecurity_record_admin_action(a) \/ cybersecurity_clear_diagnostic_mode(a)

Next ==
    \/ governor = "ledger" /\ \E a \in Admins : LedgerRoutes(a)
    \/ governor = "finance" /\ \E a \in Admins : FinanceRoutes(a)
    \/ governor = "insurance" /\ \E a \in Admins : InsuranceRoutes(a)
    \/ governor = "cybersecurity" /\ \E a \in Admins : CybersecurityRoutes(a)
    \/ enter_diagnostic_mode
    \/ \E p \in Processes : Crash(p)

Spec == Init /\ [][Next]_vars

(***************************************************************************)
(* Properties                                                              *)
(***************************************************************************)
\* Rows being recorded now.
Recording == {a \in Admins : req[a].pc \in {"insert", "read", "seal", "commit"}}

\* No other action was being recorded while row i was: every other row was
\* committed before i began, or began after i was committed.
Quiet(i) == \A j \in Ids : log[j].st # "none" /\ j # i =>
                j \in log[i].before \/ i \in log[j].before

\* The audit chain (_seal_admin_audit_row, which takes no lock): an action
\* recorded while no other was stays provable: every action begun after it is
\* chained to it, directly or not.  Overlapping actions may fork the chain, and
\* the loser of the fork may never be covered by a later hash.
QuietActionsStayOnChain ==
    \A i, k \in Committed : Quiet(i) /\ i \in log[k].before => i \in log[k].covers

\* No privileged clear without its audit row: in the ledger and in finance the
\* row is committed before diagnostic mode is cleared, whatever dies or fails in
\* between.  In insurance and cybersecurity, which clear first, a clear can only
\* lack its row while the request is still recording it, or because the process
\* died or the database refused the row afterwards: one clear at most per fault.
ClearsAreAudited ==
    clears <= Cardinality({i \in Committed : log[i].what = "clear"})
              + IF AuditFirst THEN 0
                ELSE faults + Cardinality({a \in Recording : req[a].what = "clear"})
=============================================================================
