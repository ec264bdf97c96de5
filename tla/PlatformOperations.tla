------------------------- MODULE PlatformOperations -------------------------
(***************************************************************************)
(* The platforms of the sibling governors at work: a handler evaluates its *)
(* gate, crystallizes the operation at the spine, commits it when the      *)
(* decision calls for it, and answers; claim_gate then pays.  Composes the *)
(* gates (PlatformGates) and the spine (CrystalCommit) with the HTTP calls *)
(* between them, which may be refused, lost or late, and with the payment  *)
(* rail and its idempotency store.                                         *)
(*                                                                         *)
(* One call is one request to one handler.  Facets are what the            *)
(* fingerprint tells apart: the decision, the amount where the platform    *)
(* puts it into its facets, and a nonce where they hold a fresh random id. *)
(* Platforms run with the spine enabled; the standalone mode keeps its     *)
(* crystals in the process and never meets the ledger.                     *)
(***************************************************************************)
EXTENDS CrystalCommit, PlatformGates, TLC

CONSTANTS
    NumCalls,       \* requests in the instance
    Keys,           \* payment idempotency keys
    Scenarios,      \* governors and the platforms that are in use together
    Versions,       \* model and deployment versions
    Attempts,       \* of _request_with_retry
    RailThreshold   \* FG_CREDIT_RAIL_CIRCUIT_THRESHOLD

Calls == 1..NumCalls

VARIABLES
    scenario,  \* the governor and its platforms
    call,      \* the requests
    late,      \* messages whose sender no longer waits: they may still arrive
    store,     \* payment_idempotency
    paid,      \* what the bank has paid: external
    local,     \* what the platform processes remember
    suspect    \* history: keys of payments that overlapped or went unrecorded

platformVars == <<scenario, call, late, store, paid, local, suspect>>
allVars == <<vars, platformVars>>

(* The decisions that call for a commit.  The manifests of the insurance   *)
(* and the cybersecurity platforms list them,                              *)
insurance_commit_decisions ==
    [claim_gate |-> {"APPROVED"}, bind_authority |-> {"BOUND"},
     parametric_oracle |-> {"TRIGGERED"}, zk_claim_audit |-> {"SEALED", "VERIFIED"},
     spatial_twin |-> {"APPROVED"}, battery_liability |-> {"APPROVED"},
     subrogation_graph |-> {"RECOVERY_APPROVED"}, indemnity_pay_gate |-> {"APPROVED"},
     model_risk_freeze |-> {"ACTIVE"}, underwriting_govern |-> {"COMPLIANT"},
     reserve_reconcile |-> {"MATCHED"}]

cybersecurity_commit_decisions ==
    [egress_govern |-> {"ALLOWED"}, identity_govern |-> {"VERIFIED"},
     threat_proxy |-> {"CLEARED"}, incident_response_gate |-> {"AUTHORIZED"},
     posture_reconcile |-> {"MATCHED"}, compliance_logger |-> {"LOGGED"},
     witness_bridge |-> {"WITNESSED"}, lineage_ingest |-> {"CRITICAL"},
     content_guard |-> {"ALLOWED", "REDACTED"}]

(* the finance platforms have no such list: these are the decisions under  *)
(* which their handlers commit an exposure.  What wire_match holds it      *)
(* commits as well, with an exposure of 0 (HeldWire).                      *)
finance_commit_decisions ==
    [wire_match |-> {"APPROVED"}, algofreeze |-> {"ACTIVE"}, credit_govern |-> {"APPROVE"},
     subledger_sync |-> {"MATCHED"}, asset_ledger |-> {"CHARGED"}]

commit_decisions ==
    [p \in DOMAIN insurance_commit_decisions \cup DOMAIN cybersecurity_commit_decisions
             \cup DOMAIN finance_commit_decisions |->
       CASE p \in DOMAIN insurance_commit_decisions -> insurance_commit_decisions[p]
         [] p \in DOMAIN cybersecurity_commit_decisions -> cybersecurity_commit_decisions[p]
         [] OTHER -> finance_commit_decisions[p]]

default_risk_tier ==
    [p \in DOMAIN commit_decisions |->
       CASE p = "witness_bridge" -> "standard"
         [] p \in {"parametric_oracle", "zk_claim_audit", "battery_liability",
                   "indemnity_pay_gate", "model_risk_freeze", "egress_govern", "threat_proxy",
                   "incident_response_gate", "lineage_ingest", "wire_match", "algofreeze"} ->
                "critical"
         [] OTHER -> "high"]

ASSUME PlatformAssumption ==
    None \notin DOMAIN commit_decisions \cup {"BLOCKED", "SUBMITTED", "COMPLETED", "FAILED"}

NoCall ==
    [pc |-> "idle", platform |-> None, op |-> 0, decision |-> None, facets |-> None,
     reserve |-> 0, commits |-> FALSE, commitFacets |-> None, committed |-> 0, key |-> None,
     governed |-> FALSE, tries |-> 0, seen |-> None]

(* The request is answered, or its process is gone.                        *)
Finished == [NoCall EXCEPT !.pc = "done"]

(* What the processes remember: the freeze controller (state, approved     *)
(* version, health of the feed), the credit rail's failures in a row and   *)
(* the number of lineage edges.                                            *)
StartOfProcess ==
    [freeze |-> "ACTIVE", approved |-> CHOOSE v \in Versions : TRUE, degraded |-> FALSE,
     failures |-> 0, edges |-> 0]

(* What their stores keep: the latest commitment to a claim's facts, the   *)
(* intercompany transactions, and an asset with its charges.               *)
EmptyStores ==
    [sealed |-> [o \in Ops |-> 0], txn |-> [o \in Ops |-> "NONE"], book |-> None, charged |-> {}]

PlatformInit ==
    /\ Init
    /\ scenario \in Scenarios /\ scenario.governor = governor
    /\ call = [c \in Calls |-> NoCall]
    /\ late = {}
    /\ store = [k \in Keys |-> None]
    /\ paid = {}
    /\ local = StartOfProcess @@ EmptyStores
    /\ suspect = {}

-----------------------------------------------------------------------------
(***************************************************************************)
(* A handler has decided and hands the operation to the SDK: govern_       *)
(* operation of the insurance and cybersecurity platforms reserves and     *)
(* commits what the decision calls for, the finance helpers what their     *)
(* caller says.                                                            *)
(***************************************************************************)

FacetsOf(g, amount, nonce) == [decision |-> g.decision, amount |-> amount, nonce |-> nonce]

Idle(c, p) ==
    /\ p \in scenario.platforms
    /\ call[c].pc = "idle" /\ \A d \in 1..(c - 1) : call[d].pc # "idle"

(* A new request: the fields that are given, and NoCall's.                 *)
Begin(c, fields) ==
    call' = [call EXCEPT ![c] =
               [x \in DOMAIN NoCall |-> IF x \in DOMAIN fields THEN fields[x] ELSE NoCall[x]]]

govern_operation(c, o, p, g, facets, key) ==
    LET should_commit == g.decision \in commit_decisions[p]
        reserve       == IF should_commit THEN g.amount ELSE 0
    IN  Begin(c, [pc |-> "crystallize", platform |-> p, op |-> o, decision |-> g.decision,
                  facets |-> facets, reserve |-> reserve, commits |-> should_commit,
                  commitFacets |-> facets, committed |-> reserve, key |-> key])

crystallize_and_commit(c, o, p, g, facets, committed) ==
    Begin(c, [pc |-> "crystallize", platform |-> p, op |-> o, decision |-> g.decision,
              facets |-> facets, commits |-> TRUE, commitFacets |-> facets,
              committed |-> committed])

crystallize_only(c, o, p, g, facets) ==
    Begin(c, [pc |-> "crystallize", platform |-> p, op |-> o, decision |-> g.decision,
              facets |-> facets])

(* A request that is answered without an operation.                        *)
AnswerOnly(c) == call' = [call EXCEPT ![c] = Finished]

HandlerFrame == UNCHANGED <<vars, scenario, late, store, paid, suspect>>
StatelessFrame == HandlerFrame /\ UNCHANGED local

-----------------------------------------------------------------------------
(***************************************************************************)
(* Insurance handlers.  Operation ids are the ids of the request: claims,  *)
(* applications, events and payments draw them from the same table.        *)
(***************************************************************************)

(* The facets of a payout hold the id of the siu referral, which is drawn  *)
(* anew for every evaluation.                                              *)
_run_evaluation(c, o, key) ==
    /\ Idle(c, "claim_gate")
    /\ \E g \in Grants.claim_gate :
           govern_operation(c, o, "claim_gate", g, FacetsOf(g, 0, c), key)
    /\ StatelessFrame

evaluate(c, o) == \E key \in Keys \cup {None} : _run_evaluation(c, o, key)

(* The webhook of a claims vendor: one key per vendor and claim.           *)
fnol_webhook(c, o) == \E key \in Keys : _run_evaluation(c, o, key)

bind_evaluate(c, o) ==
    /\ Idle(c, "bind_authority")
    /\ \E g \in Grants.bind_authority :
           govern_operation(c, o, "bind_authority", g, FacetsOf(g, g.amount, 0), None)
    /\ StatelessFrame

trigger_evaluate(c, o) ==
    /\ Idle(c, "parametric_oracle")
    /\ \E g \in Grants.parametric_oracle :
           govern_operation(c, o, "parametric_oracle", g, FacetsOf(g, 0, 0), None)
    /\ StatelessFrame

spatial_evaluate(c, o) ==
    /\ Idle(c, "spatial_twin")
    /\ \E g \in Grants.spatial_twin :
           govern_operation(c, o, "spatial_twin", g, FacetsOf(g, g.amount, 0), None)
    /\ StatelessFrame

subrogation_evaluate(c, o) ==
    /\ Idle(c, "subrogation_graph")
    /\ \E g \in Grants.subrogation_graph :
           govern_operation(c, o, "subrogation_graph", g, FacetsOf(g, g.amount, 0), None)
    /\ StatelessFrame

indemnity_evaluate(c, o) ==
    /\ Idle(c, "indemnity_pay_gate")
    /\ \E g \in Grants.indemnity_pay_gate :
           govern_operation(c, o, "indemnity_pay_gate", g, FacetsOf(g, 0, 0), None)
    /\ StatelessFrame

underwrite_evaluate(c, o) ==
    /\ Idle(c, "underwriting_govern")
    /\ \E g \in Grants.underwriting_govern :
           govern_operation(c, o, "underwriting_govern", g, FacetsOf(g, 0, 0), None)
    /\ StatelessFrame

reserve_match(c, o) ==
    /\ Idle(c, "reserve_reconcile")
    /\ \E g \in Grants.reserve_reconcile :
           govern_operation(c, o, "reserve_reconcile", g, FacetsOf(g, 0, 0), None)
    /\ StatelessFrame

battery_evaluate(c, o) ==
    /\ Idle(c, "battery_liability")
    /\ \E g \in Grants.battery_liability :
           govern_operation(c, o, "battery_liability", g, FacetsOf(g, g.amount, 0), None)
    /\ StatelessFrame

(* zk_claim_audit: a seal overwrites the commitment the store has for the  *)
(* claim; the salt makes every commitment a new one.  The proof goes under *)
(* an operation id of its own.                                             *)
save_commitment(o, commitment) == local' = [local EXCEPT !.sealed[o] = commitment]

get_commitment(o) == local.sealed[o]

audit_seal(c, o) ==
    /\ Idle(c, "zk_claim_audit")
    /\ save_commitment(o, c)
    /\ govern_operation(c, o, "zk_claim_audit", Grant("SEALED", 0),
                        FacetsOf(Grant("SEALED", 0), 0, c), None)
    /\ HandlerFrame

AuditOp(o) == o + 1

audit_prove(c, o) ==
    /\ Idle(c, "zk_claim_audit")
    /\ get_commitment(o) # 0 /\ AuditOp(o) \in Ops
    /\ govern_operation(c, AuditOp(o), "zk_claim_audit", Grant("VERIFIED", 0),
                        FacetsOf(Grant("VERIFIED", 0), 0, get_commitment(o)), None)
    /\ StatelessFrame

(* model_risk_freeze: a version other than the approved one freezes the    *)
(* controller; its crystal is left open so that the mesh blocks payouts.   *)
evaluate_inference(version) ==
    IF version # local.approved \/ local.freeze = "FROZEN" THEN "FROZEN" ELSE "ACTIVE"

inference_evaluate(c, o) ==
    /\ Idle(c, "model_risk_freeze")
    /\ \E version \in Versions :
           LET g == Grant(evaluate_inference(version), 0)
           IN  /\ local' = [local EXCEPT !.freeze = g.decision]
               /\ govern_operation(c, o, "model_risk_freeze", g,
                                   FacetsOf(g, version, local.approved), None)
    /\ HandlerFrame

set_approved_version ==
    /\ "model_risk_freeze" \in scenario.platforms
    /\ \E version \in Versions \ {local.approved} :
           local' = [local EXCEPT !.approved = version, !.freeze = "ACTIVE"]
    /\ HandlerFrame /\ UNCHANGED call

-----------------------------------------------------------------------------
(***************************************************************************)
(* Cybersecurity handlers                                                  *)
(***************************************************************************)

(* The cybersecurity copy of the SDK.                                      *)
secure_operation(c, o, p, g, facets) == govern_operation(c, o, p, g, facets, None)

Simple(c, o, p) ==
    /\ Idle(c, p)
    /\ \E g \in Grants[p] : secure_operation(c, o, p, g, FacetsOf(g, 0, 0))
    /\ StatelessFrame

identity_verify(c, o) == Simple(c, o, "identity_govern")
threat_score(c, o) == Simple(c, o, "threat_proxy")
posture_ingest(c, o) == Simple(c, o, "posture_reconcile")
incident_authorize(c, o) == Simple(c, o, "incident_response_gate")
egress_evaluate(c, o) == Simple(c, o, "egress_govern")

(* A session that does not bind is answered STRANDED and crystallized as a *)
(* violation of the identity platform.                                     *)
session_arm(c, o) ==
    /\ Idle(c, "identity_govern")
    /\ \E s \in Grants.session_arm :
           LET g == Grant(IF s.decision = "AUTHORIZED" THEN "VERIFIED" ELSE "VIOLATION", 0)
           IN  secure_operation(c, o, "identity_govern", g, FacetsOf(g, 1, 0))
    /\ StatelessFrame

compliance_log(c, o) ==
    /\ Idle(c, "compliance_logger")
    /\ LET g == Grant("LOGGED", 0)
       IN  secure_operation(c, o, "compliance_logger", g, FacetsOf(g, 0, 0))
    /\ StatelessFrame

(* What is blocked is answered without an operation.                       *)
content_evaluate(c, o) ==
    /\ Idle(c, "content_guard")
    /\ \E g \in Grants.content_guard :
           IF g.decision = "BLOCKED" THEN AnswerOnly(c)
           ELSE secure_operation(c, o, "content_guard", g, FacetsOf(g, 0, 0))
    /\ StatelessFrame

(* Critical events and erasures are sealed, the others only counted.       *)
witness_ingest(c, o) ==
    /\ Idle(c, "witness_bridge")
    /\ \E i \in WitnessInputs :
           LET g == Grant("WITNESSED", 0)
           IN  IF witnessed(i)
               THEN secure_operation(c, o, "witness_bridge", g, FacetsOf(g, 0, 0))
               ELSE AnswerOnly(c)
    /\ StatelessFrame

(* Edges are numbered in the process, and the number is the operation id.  *)
lineage_ingest(c) ==
    /\ Idle(c, "lineage_ingest")
    /\ local.edges + 1 \in Ops
    /\ local' = [local EXCEPT !.edges = @ + 1]
    /\ \E i \in LineageInputs :
           LET g == Grant("CRITICAL", 0)
           IN  IF is_critical_edge(normalize_lineage(i))
               THEN secure_operation(c, local.edges + 1, "lineage_ingest", g, FacetsOf(g, 0, c))
               ELSE AnswerOnly(c)
    /\ HandlerFrame

-----------------------------------------------------------------------------
(***************************************************************************)
(* Finance handlers                                                        *)
(***************************************************************************)

(* Nothing is held for a wire; what is approved is committed in full.      *)
wire_evaluate(c, o) ==
    /\ Idle(c, "wire_match")
    /\ \E i \in WireInputs :
           LET g == evaluate_wire(i)
           IN  crystallize_and_commit(c, o, "wire_match", g, FacetsOf(g, i.amount, 0), g.amount)
    /\ StatelessFrame

(* algofreeze: a wrong version freezes the desk, a silent feed degrades it;*)
(* both leave an open crystal behind.                                      *)
submit_order(c, o) ==
    /\ Idle(c, "algofreeze")
    /\ \E version \in Versions :
           LET Refuse(d) == crystallize_only(c, o, "algofreeze", Grant(d, 0),
                                             FacetsOf(Grant(d, 0), version, local.approved))
               wrong     == version # local.approved
           IN  \/ /\ wrong
                  /\ local' = [local EXCEPT !.freeze = "FROZEN"]
                  /\ Refuse("FROZEN")
               \/ /\ ~wrong /\ local.degraded
                  /\ local' = [local EXCEPT !.freeze = IF @ = "FROZEN" THEN @ ELSE "DEGRADED"]
                  /\ Refuse("DEGRADED")
               \/ /\ ~wrong /\ ~local.degraded /\ local.freeze # "ACTIVE"
                  /\ AnswerOnly(c)
                  /\ UNCHANGED local
               \/ /\ ~wrong /\ ~local.degraded /\ local.freeze = "ACTIVE"
                  /\ crystallize_and_commit(c, o, "algofreeze", Grant("ACTIVE", 100),
                                            FacetsOf(Grant("ACTIVE", 100), 100, version), 100)
                  /\ UNCHANGED local
    /\ HandlerFrame

(* Unlike the insurance freeze, a new approved version does not unfreeze.  *)
approve_deployment ==
    /\ "algofreeze" \in scenario.platforms
    /\ \E version \in Versions \ {local.approved} : local' = [local EXCEPT !.approved = version]
    /\ HandlerFrame /\ UNCHANGED call

feed_packet ==
    /\ "algofreeze" \in scenario.platforms
    /\ local.degraded \/ local.freeze = "DEGRADED"
    /\ local' = [local EXCEPT !.degraded = FALSE,
                              !.freeze = IF @ = "DEGRADED" THEN "ACTIVE" ELSE @]
    /\ HandlerFrame /\ UNCHANGED call

FeedFallsSilent ==
    /\ "algofreeze" \in scenario.platforms /\ ~local.degraded
    /\ local' = [local EXCEPT !.degraded = TRUE]
    /\ HandlerFrame /\ UNCHANGED call

(* credit_govern holds the exposure first, asks the rail for a score, and  *)
(* commits with the score added to the facets.                             *)
credit_evaluate(c, o) ==
    /\ Idle(c, "credit_govern")
    /\ \/ AnswerOnly(c)
       \/ Begin(c, [pc |-> "crystallize", platform |-> "credit_govern", op |-> o,
                    facets |-> FacetsOf(Grant("UNSCORED", 0), 100, 0), reserve |-> 100,
                    committed |-> 100])
    /\ StatelessFrame

Scored(c, d) ==
    call' = [call EXCEPT ![c] =
               [@ EXCEPT !.pc = "commit", !.decision = d,
                         !.commitFacets = FacetsOf(Grant(d, 0), 100, 0),
                         !.committed = IF d = "APPROVE" THEN call[c].committed ELSE 0]]

circuit_open == local.failures >= RailThreshold

(* In auto mode the mock stands in for a rail that fails.                  *)
MockScored(c) == \E d \in {"APPROVE", "REFER"} : Scored(c, d)

(* The live rail answers with a decision of its own.                       *)
_http_score(c) == \E d \in {"APPROVE", "REFER", "DECLINE"} : Scored(c, d)

score(c) ==
    \/ /\ ~circuit_open
       /\ _http_score(c)
       /\ local' = [local EXCEPT !.failures = 0]
    \/ /\ ~circuit_open
       /\ local' = [local EXCEPT !.failures = @ + 1]
       /\ IF scenario.rail = "auto" THEN MockScored(c)
          ELSE call' = [call EXCEPT ![c].pc = "strand"]
    \/ /\ circuit_open
       /\ IF scenario.rail = "auto" THEN MockScored(c) ELSE AnswerOnly(c)
       /\ UNCHANGED local

_score_with_rail(c) == call[c].pc = "score" /\ score(c) /\ HandlerFrame

RailCircuitResets ==
    /\ circuit_open
    /\ local' = [local EXCEPT !.failures = 0]
    /\ HandlerFrame /\ UNCHANGED call

(* subledger_sync: transactions 1..NumOps, each the mirror of any other    *)
(* that find_mirror accepts.  Pending ones are read in one transaction and *)
(* marked in another; the facets hold the hash of a fresh fx snapshot.     *)
store_ingest(o) == local.txn[o] = "NONE" /\ local' = [local EXCEPT !.txn[o] = "PENDING"]

ingest(o) ==
    /\ "subledger_sync" \in scenario.platforms
    /\ store_ingest(o)
    /\ HandlerFrame /\ UNCHANGED call

run_match(c, o) ==
    /\ Idle(c, "subledger_sync")
    /\ LET g == Grant("MATCHED", 0)
       IN  \/ \E i \in MirrorInputs, q \in {p \in Ops \ {o} : local.txn[p] = "PENDING"} :
                 /\ find_mirror(i)
                 /\ Begin(c, [pc |-> "mark", platform |-> "subledger_sync", op |-> o,
                              decision |-> g.decision, facets |-> FacetsOf(g, q, c),
                              commits |-> TRUE, commitFacets |-> FacetsOf(g, q, c), seen |-> q])
          \/ AnswerOnly(c)
    /\ StatelessFrame

mark_matched(c) ==
    /\ call[c].pc = "mark"
    /\ local' = [local EXCEPT !.txn = [o \in Ops |->
                    IF o \in {call[c].op, call[c].seen} /\ @[o] # "NONE"
                    THEN "MATCHED" ELSE @[o]]]
    /\ call' = [call EXCEPT ![c].pc = "crystallize"]
    /\ HandlerFrame

(* asset_ledger: one asset, one operation per period.  The charge is       *)
(* computed from a book value read in the same transaction, which does not *)
(* lock it, and is on the books before it is crystallized.                 *)
register_asset(book) == local.book = None /\ local' = [local EXCEPT !.book = book]

create_asset ==
    /\ "asset_ledger" \in scenario.platforms
    /\ register_asset(150)
    /\ HandlerFrame /\ UNCHANGED call

run_depreciation(c, o) ==
    /\ Idle(c, "asset_ledger") /\ local.book # None
    /\ LET charge == Min({100, local.book})
           g      == Grant("CHARGED", charge)
       IN  /\ charge > 0
           /\ Begin(c, [pc |-> "charge", platform |-> "asset_ledger", op |-> o,
                        decision |-> g.decision, facets |-> FacetsOf(g, charge, 0),
                        commits |-> TRUE, commitFacets |-> FacetsOf(g, charge, 0),
                        committed |-> charge, seen |-> local.book])
    /\ StatelessFrame

apply_charge(c) ==
    /\ call[c].pc = "charge"
    /\ IF call[c].op \in local.charged
       THEN AnswerOnly(c) /\ UNCHANGED local
       ELSE /\ local' = [local EXCEPT !.charged = @ \cup {call[c].op},
                                      !.book = call[c].seen - call[c].committed]
            /\ call' = [call EXCEPT ![c].pc = "crystallize"]
    /\ HandlerFrame

-----------------------------------------------------------------------------
(***************************************************************************)
(* Calls of the spine.  A call is answered, refused (a conflict, or a      *)
(* guardrail of the sidecar) or its answer is lost: the message then may   *)
(* still arrive.  Only finance retries.  A failed call ends the            *)
(* operation without a crystal id.                                         *)
(***************************************************************************)

InCall(c) == call[c].pc \in {"crystallize", "commit", "strand"}

DefaultAccount == CHOOSE a \in Accounts : TRUE

Message(c) ==
    LET k == call[c]
    IN  [kind |-> k.pc, platform |-> k.platform, op |-> k.op,
         facets |-> IF k.pc = "commit" THEN k.commitFacets ELSE k.facets,
         amount |-> IF k.pc = "commit" THEN k.committed ELSE k.reserve]

CrystallizeRequest(m) ==
    [platform |-> m.platform, account |-> DefaultAccount, tier |-> default_risk_tier[m.platform],
     facets |-> m.facets, policy |-> None, amt |-> m.amount]

finance_http_crystallize(m) ==
    m.kind = "crystallize" /\ FinanceCrystallize(m.op, CrystallizeRequest(m))
finance_http_commit(m) == m.kind = "commit" /\ FinanceCommit(m.op, m.facets, m.amount, FALSE)
finance_http_strand(m) == m.kind = "strand" /\ Adjudicate(m.op)

insurance_http_crystallize(m) ==
    m.kind = "crystallize" /\ InsuranceCrystallize(m.op, CrystallizeRequest(m))
insurance_http_commit(m) == m.kind = "commit" /\ InsuranceCommit(m.op, m.facets, m.amount, FALSE)

cyber_http_crystallize(m) ==
    m.kind = "crystallize" /\ CyberCrystallize(m.op, CrystallizeRequest(m))
cyber_http_commit(m) == m.kind = "commit" /\ CyberCommit(m.op, m.facets, m.amount, FALSE)

Performs(m) ==
    \/ finance_http_crystallize(m) \/ finance_http_commit(m) \/ finance_http_strand(m)
    \/ insurance_http_crystallize(m) \/ insurance_http_commit(m)
    \/ cyber_http_crystallize(m) \/ cyber_http_commit(m)

(* What the spine answers as a REPLAY.  Finance compares the fingerprints  *)
(* of a repeated crystallize, the others take any facets for the same.     *)
Replays(m) ==
    /\ IF m.kind = "crystallize"
       THEN /\ crystal[m.op].platform = m.platform
            /\ governor = "finance" => crystal[m.op].facets = m.facets
       ELSE crystal[m.op].terminal # None
    /\ UNCHANGED vars

Continue(c, ok) ==
    LET k == call[c]
        crystallized == ok /\ k.pc = "crystallize"
        next == IF crystallized /\ k.platform = "credit_govern" THEN "score"
                ELSE IF crystallized /\ k.commits THEN "commit"
                ELSE IF k.key # None THEN "pay" ELSE "done"
    IN  call' = [call EXCEPT ![c] =
                   IF next = "done" THEN Finished
                   ELSE [@ EXCEPT !.pc = next, !.governed = ok, !.tries = 0]]

CallFrame == UNCHANGED <<scenario, store, paid, local, suspect>>

SpineAnswers(c) ==
    /\ InCall(c)
    /\ Performs(Message(c)) \/ Replays(Message(c))
    /\ Continue(c, TRUE)
    /\ UNCHANGED late /\ CallFrame

SpineRefuses(c) ==
    /\ InCall(c)
    /\ Continue(c, FALSE)
    /\ UNCHANGED <<vars, late>> /\ CallFrame

_request_with_retry(c) ==
    /\ InCall(c)
    /\ late' = late \cup {Message(c)}
    /\ IF governor = "finance" /\ call[c].tries < Attempts - 1
       THEN call' = [call EXCEPT ![c].tries = @ + 1]
       ELSE Continue(c, FALSE)
    /\ UNCHANGED vars /\ CallFrame

LateArrival(m) ==
    /\ m \in late
    /\ Performs(m)
    /\ late' = late \ {m}
    /\ UNCHANGED call /\ CallFrame

-----------------------------------------------------------------------------
(***************************************************************************)
(* Payment.  The idempotency row is read before and written after the      *)
(* dispatch; the bank may have paid although it answered with an error.    *)
(* Either call of the store may raise, and the request then ends with a    *)
(* 500: the write that fails leaves a payment without a record.            *)
(***************************************************************************)

Paying(key) == {d \in Calls : call[d].key = key /\ call[d].pc \in {"dispatch", "save"}}

(* Those of the requests C that may have paid and have not recorded it.    *)
Unrecorded(C) == {c \in C : call[c].pc = "save" /\ call[c].seen # "BLOCKED"}

NextPayment(c, next, status) == call' = [call EXCEPT ![c].pc = next, ![c].seen = status]

PaymentFrame == UNCHANGED <<vars, scenario, late, local>>

ExistingPayment(c) == store[call[c].key]

StoreFails(c) == AnswerOnly(c)

SubmitUngoverned(c) ==
    /\ call[c].pc = "pay"
    /\ CASE ExistingPayment(c) # None -> AnswerOnly(c)
         [] ExistingPayment(c) = None /\ call[c].decision # "APPROVED" ->
               NextPayment(c, "save", "BLOCKED")
         [] OTHER -> NextPayment(c, "dispatch", None)
    /\ suspect' = suspect \cup {call[d].key : d \in Paying(call[c].key)}
    /\ UNCHANGED <<store, paid>> /\ PaymentFrame
submit_payment(c) ==
    /\ call[c].pc = "pay"
    /\ \/ CASE ExistingPayment(c) # None -> AnswerOnly(c)
            [] ExistingPayment(c) = None
                 /\ (call[c].decision # "APPROVED" \/ ~call[c].governed) ->
                  NextPayment(c, "save", "BLOCKED")
            [] OTHER -> NextPayment(c, "dispatch", None)
       \/ StoreFails(c)
    /\ suspect' = suspect \cup {call[d].key : d \in Paying(call[c].key)}
    /\ UNCHANGED <<store, paid>> /\ PaymentFrame

BankAnswers(c, statuses) ==
    \/ /\ paid' = paid \cup {[call |-> c, key |-> call[c].key, op |-> call[c].op,
                              amount |-> call[c].reserve]}
       /\ \E status \in statuses \cup {"FAILED"} : NextPayment(c, "save", status)
    \/ UNCHANGED paid /\ NextPayment(c, "save", "FAILED")

_dispatch_fednow(c) == BankAnswers(c, {"SUBMITTED", "COMPLETED"})
_dispatch_clearinghouse(c) == BankAnswers(c, {"COMPLETED"})

dispatch_payment(c) ==
    /\ call[c].pc = "dispatch"
    /\ _dispatch_fednow(c) \/ _dispatch_clearinghouse(c)
    /\ UNCHANGED <<store, suspect>> /\ PaymentFrame

SaveCompleted(c) ==
    /\ call[c].pc = "save"
    /\ store' = IF call[c].seen = "FAILED" THEN store
                ELSE [store EXCEPT ![call[c].key] = call[c].seen]
    /\ AnswerOnly(c)
    /\ UNCHANGED <<paid, suspect>> /\ PaymentFrame
save(c) ==
    /\ call[c].pc = "save"
    /\ \/ store' = [store EXCEPT ![call[c].key] = call[c].seen] /\ UNCHANGED suspect
       \/ UNCHANGED store /\ suspect' = suspect \cup {call[d].key : d \in Unrecorded({c})}
    /\ AnswerOnly(c)
    /\ UNCHANGED paid /\ PaymentFrame

(* A platform process dies, and its requests end where they are.           *)
Remembers == {"model_risk_freeze", "algofreeze", "credit_govern", "lineage_ingest"}

(* What it kept in memory starts anew, what its stores keep stays.         *)
Forgotten == StartOfProcess @@ local

Crash(p) ==
    LET lost == {c \in Calls : call[c].platform = p}
    IN  /\ lost # {} \/ (p \in Remembers /\ local # Forgotten)
        /\ call' = [c \in Calls |-> IF c \in lost THEN Finished ELSE call[c]]
        /\ late' = late \cup {Message(c) : c \in {d \in lost : InCall(d)}}
        /\ suspect' = suspect \cup {call[c].key : c \in Unrecorded(lost)}
        /\ local' = IF p \in Remembers THEN Forgotten ELSE local
        /\ UNCHANGED <<vars, scenario, store, paid>>

-----------------------------------------------------------------------------
InsuranceHandlers(c, o) ==
    \/ evaluate(c, o) \/ fnol_webhook(c, o) \/ bind_evaluate(c, o) \/ trigger_evaluate(c, o)
    \/ spatial_evaluate(c, o) \/ subrogation_evaluate(c, o) \/ indemnity_evaluate(c, o)
    \/ underwrite_evaluate(c, o) \/ reserve_match(c, o) \/ battery_evaluate(c, o)
    \/ audit_seal(c, o) \/ audit_prove(c, o) \/ inference_evaluate(c, o)

CyberHandlers(c, o) ==
    \/ identity_verify(c, o) \/ session_arm(c, o) \/ threat_score(c, o) \/ posture_ingest(c, o)
    \/ incident_authorize(c, o) \/ egress_evaluate(c, o) \/ compliance_log(c, o)
    \/ content_evaluate(c, o) \/ witness_ingest(c, o)

FinanceHandlers(c, o) ==
    \/ wire_evaluate(c, o) \/ submit_order(c, o) \/ credit_evaluate(c, o) \/ run_match(c, o)
    \/ run_depreciation(c, o)

(* Bound: only a new request reads the controllers; once all requests of   *)
(* the instance have begun, changes to them are not explored.              *)
RequestsLeft == \E c \in Calls : call[c].pc = "idle"

Administration ==
    \/ RequestsLeft /\ set_approved_version
    \/ RequestsLeft /\ approve_deployment
    \/ RequestsLeft /\ feed_packet
    \/ RequestsLeft /\ FeedFallsSilent
    \/ RailCircuitResets \/ create_asset \/ \E o \in Ops : ingest(o)

CallStep(c) ==
    \/ \E o \in Ops : InsuranceHandlers(c, o) \/ CyberHandlers(c, o) \/ FinanceHandlers(c, o)
    \/ lineage_ingest(c)
    \/ _score_with_rail(c) \/ mark_matched(c) \/ apply_charge(c)
    \/ SpineAnswers(c) \/ SpineRefuses(c) \/ _request_with_retry(c)
    \/ submit_payment(c) \/ dispatch_payment(c) \/ save(c)

PlatformNext ==
    \/ \E c \in Calls : CallStep(c)
    \/ Administration
    \/ \E m \in late : LateArrival(m)
    \/ \E p \in scenario.platforms : Crash(p)
    \/ (\E o \in Ops : HorizonPasses(o)) /\ UNCHANGED platformVars
    \/ (\E S \in SUBSET Ops : Sweep(S)) /\ UNCHANGED platformVars

PlatformSpec == PlatformInit /\ [][PlatformNext]_allVars

-----------------------------------------------------------------------------
(***************************************************************************)
(* Properties                                                              *)
(***************************************************************************)

(* What wire_match commits without having approved it.                     *)
HeldWire(platform, decision, committed) ==
    platform = "wire_match" /\ decision = "HELD" /\ committed = 0

(* An operation is only ever committed under a decision of its platform    *)
(* that calls for it, whatever evaluations of the same id were retried,    *)
(* raced or arrived late; a wire that was held is committed too, and never *)
(* with an exposure (wire_match/main.py:80-87).                            *)
CommittedWasApproved ==
    \A o \in Ops : crystal[o].status = "COMMITTED" =>
        \/ crystal[o].facets.decision \in commit_decisions[crystal[o].platform]
        \/ HeldWire(crystal[o].platform, crystal[o].facets.decision, crystal[o].committed)

(* Money leaves only for a claim whose crystal the spine has resolved.     *)
PaidIsResolved ==
    \A p \in paid : crystal[p.op].platform = "claim_gate" /\ crystal[p.op].terminal # None

(* Two payments under one idempotency key take two requests that overlap   *)
(* between reading and writing the row, or a request that paid and did not *)
(* get to record it: its process died, or the write of the row failed.     *)
PaidOncePerKey ==
    \A p, q \in paid : p.key = q.key /\ p # q => p.key \in suspect

(* What the docs say and the code does not do.                             *)

(* "Reserve-before-payout (crystallize + reserve)"                         *)
(* (docs/insurance-governor/capability-matrix.md:26): what is paid out on  *)
(* a claim is covered by what its crystal takes out of the reserve.        *)
ReserveBeforePayout ==
    \A o \in Ops :
        MapThenSumSet(LAMBDA p : p.amount, {p \in paid : p.op = o}) <= ChargeOf(o)

(* "`HELD` -> `STRANDED` until compliance adjudication"                    *)
(* (programs/wire_match/README.md:41): the crystal of a wire that was held *)
(* is not committed by the platform that held it (main.py:80-87).          *)
HeldWiresAreStranded ==
    \A o \in Ops : crystal[o].platform = "wire_match" /\ crystal[o].status = "COMMITTED" =>
        crystal[o].facets.decision # "HELD"
=============================================================================
