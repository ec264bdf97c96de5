---------------------------- MODULE PlatformProofs ----------------------------
(***************************************************************************)
(* What the platforms promise for every number of requests, operations and *)
(* payment keys: what is committed was decided (CommittedWasApproved),     *)
(* what is paid was resolved (PaidIsResolved), and a key is paid once      *)
(* unless requests overlap, crash or fail to record what they paid         *)
(* (PaidOncePerKey).                                                       *)
(*                                                                         *)
(* Where a request stands says what the spine knows of its operation, and  *)
(* a message that was lost says the same for as long as it may arrive:     *)
(* crystals keep their platform and their facets.                          *)
(***************************************************************************)
EXTENDS PlatformOperations, TLAPS

CallFields == DOMAIN NoCall
CrystalFields == DOMAIN NoCrystal

IsRecord(r, fields) == DOMAIN r = fields /\ r = [x \in fields |-> r[x]]

Governed == DOMAIN commit_decisions
PaymentStatus == {"BLOCKED", "SUBMITTED", "COMPLETED", "FAILED"}

-----------------------------------------------------------------------------
(***************************************************************************)
(* The inductive invariant                                                 *)
(***************************************************************************)

(* This much is committed under this decision: what calls for a commit, or *)
(* nothing for a wire that is held.                                        *)
CommitsUnder(p, d, amount) == d \in commit_decisions[p] \/ HeldWire(p, d, amount)

(* Under this decision a platform asks for a commit.  What credit_govern   *)
(* crystallizes has no score yet, what it commits has one.                 *)
CallsForCommit(p, d, amount) ==
    IF p = "credit_govern" THEN d # "UNSCORED" ELSE CommitsUnder(p, d, amount)

CrystalOK(row) ==
    /\ IsRecord(row, CrystalFields)
    /\ row.status = "NONE" => row.platform = None
    /\ row.platform = "credit_govern" => row.facets.decision = "UNSCORED"
    /\ row.status = "COMMITTED" =>
           CommitsUnder(row.platform, row.facets.decision, row.committed)

SpineOK(crystals) ==
    /\ crystals = [o \in Ops |-> crystals[o]]
    /\ \A o \in Ops : CrystalOK(crystals[o])

Resolved(row) == row.platform = "claim_gate" /\ row.terminal # None

(* A request from its handler to its answer.                               *)
Underway(k) == k.pc \in {"mark", "charge", "crystallize", "score", "commit", "strand",
                         "pay", "dispatch", "save"}

(* Not yet crystallized.                                                   *)
Starting(k) == k.pc \in {"mark", "charge", "crystallize"}

StartOK(k) ==
    /\ k.platform = "credit_govern" => ~k.commits /\ k.facets.decision = "UNSCORED"
    /\ k.platform # "credit_govern" /\ k.commits =>
           CallsForCommit(k.platform, k.commitFacets.decision, k.committed)
    /\ k.key # None /\ k.decision = "APPROVED" => k.commits

CallOK(k, crystals) ==
    /\ IsRecord(k, CallFields)
    /\ k.pc \in {"idle", "done"} \/ Underway(k)
    /\ k.key \in Keys \cup {None}
    /\ k.key # None => k.platform = "claim_gate"
    /\ Underway(k) => k.op \in Ops /\ k.platform \in Governed
    /\ Starting(k) => StartOK(k)
    /\ k.pc \in {"score", "commit"} => crystals[k.op].platform = k.platform
    /\ k.pc \in {"score", "strand"} => k.platform = "credit_govern"
    /\ k.pc = "commit" => CallsForCommit(k.platform, k.commitFacets.decision, k.committed)
    /\ k.pc \in {"pay", "dispatch", "save"} => k.key # None
    /\ k.pc = "pay" /\ k.governed /\ k.decision = "APPROVED" => Resolved(crystals[k.op])
    /\ k.pc = "dispatch" => Resolved(crystals[k.op])
    /\ k.pc = "save" => k.seen \in PaymentStatus

CallsOK(calls, crystals) ==
    /\ calls = [c \in Calls |-> calls[c]]
    /\ \A c \in Calls : CallOK(calls[c], crystals)

(* A message that is on its way.                                           *)
MessageOK(m, crystals) ==
    /\ m.op \in Ops /\ m.platform \in Governed
    /\ m.kind = "crystallize" /\ m.platform = "credit_govern" => m.facets.decision = "UNSCORED"
    /\ m.kind = "commit" => /\ crystals[m.op].platform = m.platform
                            /\ CallsForCommit(m.platform, m.facets.decision, m.amount)

MessagesOK(messages, crystals) == \A m \in messages : MessageOK(m, crystals)

PaidOK(payments, crystals) ==
    \A p \in payments : p.op \in Ops /\ p.key \in Keys /\ Resolved(crystals[p.op])

GovernedInv ==
    /\ SpineOK(crystal)
    /\ CallsOK(call, crystal)
    /\ MessagesOK(late, crystal)
    /\ PaidOK(paid, crystal)

(* Between the read and the write of a row one request pays at a time, or  *)
(* the key is suspect; before it has paid nobody has; and what was paid is *)
(* on record, or about to be, or its key is suspect.                       *)
InWindow(k, key) == k.key = key /\ k.pc \in {"dispatch", "save"}

OneInWindow(calls, suspects) ==
    \A d, e \in Calls :
        InWindow(calls[d], calls[d].key) /\ InWindow(calls[e], calls[d].key)
          /\ calls[d].key \notin suspects => d = e

NotPaidBefore(calls, suspects, payments) ==
    \A d \in Calls, p \in payments :
        calls[d].pc = "dispatch" /\ calls[d].key \notin suspects => p.key # calls[d].key

Recording(k) == k.pc = "save" /\ k.seen # "BLOCKED"

PaidIsRecorded(calls, suspects, payments, rows) ==
    \A p \in payments :
        \/ rows[p.key] # None
        \/ p.key \in suspects
        \/ \E d \in Calls : Recording(calls[d]) /\ calls[d].key = p.key

PaymentInv ==
    /\ store = [k \in Keys |-> store[k]]
    /\ OneInWindow(call, suspect)
    /\ NotPaidBefore(call, suspect, paid)
    /\ PaidIsRecorded(call, suspect, paid, store)
    /\ PaidOncePerKey

PlatformInv == GovernedInv /\ PaymentInv
-----------------------------------------------------------------------------
(***************************************************************************)
(* Rows and requests                                                       *)
(***************************************************************************)

LEMMA PlatformNames ==
    /\ Governed = {"claim_gate", "bind_authority", "parametric_oracle", "zk_claim_audit",
                   "spatial_twin", "battery_liability", "subrogation_graph", "indemnity_pay_gate",
                   "model_risk_freeze", "underwriting_govern", "reserve_reconcile", "egress_govern",
                   "identity_govern", "threat_proxy", "incident_response_gate", "posture_reconcile",
                   "compliance_logger", "witness_bridge", "lineage_ingest", "content_guard",
                   "wire_match", "algofreeze", "credit_govern", "subledger_sync", "asset_ledger"}
  BY DEF Governed, commit_decisions, insurance_commit_decisions,
         cybersecurity_commit_decisions, finance_commit_decisions

(* The decisions the proofs below ask for.                                 *)
LEMMA Decisions ==
    /\ "APPROVED" \in commit_decisions["claim_gate"]
    /\ "APPROVED" \in commit_decisions["wire_match"]
    /\ "ACTIVE" \in commit_decisions["algofreeze"]
    /\ "MATCHED" \in commit_decisions["subledger_sync"]
    /\ "CHARGED" \in commit_decisions["asset_ledger"]
<1>1. \A p \in Governed : p \notin DOMAIN cybersecurity_commit_decisions =>
          commit_decisions[p] = IF p \in DOMAIN insurance_commit_decisions
                                THEN insurance_commit_decisions[p] ELSE finance_commit_decisions[p]
  BY DEF Governed, commit_decisions
<1>2. /\ "claim_gate" \in DOMAIN insurance_commit_decisions
      /\ insurance_commit_decisions["claim_gate"] = {"APPROVED"}
      /\ {"wire_match", "algofreeze", "subledger_sync", "asset_ledger"}
            \cap DOMAIN insurance_commit_decisions = {}
  BY DEF insurance_commit_decisions
<1>3. {"claim_gate", "wire_match", "algofreeze", "subledger_sync", "asset_ledger"}
        \cap DOMAIN cybersecurity_commit_decisions = {}
  BY DEF cybersecurity_commit_decisions
<1>4. /\ finance_commit_decisions["wire_match"] = {"APPROVED"}
      /\ finance_commit_decisions["algofreeze"] = {"ACTIVE"}
      /\ finance_commit_decisions["subledger_sync"] = {"MATCHED"}
      /\ finance_commit_decisions["asset_ledger"] = {"CHARGED"}
  BY DEF finance_commit_decisions
<1> QED
  BY <1>1, <1>2, <1>3, <1>4, PlatformNames

(* NULL is no platform and no status of a payment.                         *)
LEMMA NoneIsApart == None \notin Governed /\ None \notin PaymentStatus
  BY PlatformAssumption DEF Governed, PaymentStatus

(* An answered request.                                                    *)
LEMMA FinishedCall ==
    ASSUME NEW crystals
    PROVE  CallOK(Finished, crystals) /\ Finished.pc = "done" /\ Finished.key = None
<1>1. IsRecord(Finished, CallFields) /\ Finished.pc = "done" /\ Finished.key = None
  <2>1. PICK k : k = NoCall
    OBVIOUS
  <2>2. IsRecord(k, CallFields) /\ k.key = None
    BY <2>1 DEF NoCall, IsRecord, CallFields
  <2>3. PICK f : f = [k EXCEPT !.pc = "done"]
    OBVIOUS
  <2>4. IsRecord(f, CallFields) /\ f.pc = "done" /\ f.key = None
    BY <2>2, <2>3 DEF IsRecord, CallFields, NoCall
  <2> QED
    BY <2>1, <2>3, <2>4 DEF Finished
<1> QED
  BY <1>1 DEF CallOK, Underway, Starting

LEMMA IdleCall ==
    ASSUME NEW crystals
    PROVE  CallOK(NoCall, crystals) /\ NoCall.pc = "idle" /\ NoCall.key = None
<1>1. IsRecord(NoCall, CallFields) /\ NoCall.pc = "idle" /\ NoCall.key = None
  BY DEF NoCall, IsRecord, CallFields
<1> QED
  BY <1>1 DEF CallOK, Underway, Starting

(* What a handler leaves behind: a request that is to be crystallized, or  *)
(* one that is answered.                                                   *)
FreshCall(k) ==
    /\ IsRecord(k, CallFields)
    /\ Starting(k) /\ StartOK(k)
    /\ k.key \in Keys \cup {None}
    /\ k.key # None => k.platform = "claim_gate"
    /\ k.op \in Ops /\ k.platform \in Governed

Handled(c) == \E k : (FreshCall(k) \/ k = Finished) /\ call' = [call EXCEPT ![c] = k]

LEMMA AnswerIsHandled ==
    ASSUME NEW c, AnswerOnly(c)
    PROVE  Handled(c)
  BY DEF AnswerOnly, Handled

(* A new request has the fields it was given, and NoCall's.                *)
LEMMA BeginFields ==
    ASSUME NEW c, NEW fields, Begin(c, fields)
    PROVE  \E k : /\ IsRecord(k, CallFields)
                  /\ \A x \in CallFields : k[x] = IF x \in DOMAIN fields THEN fields[x] ELSE NoCall[x]
                  /\ call' = [call EXCEPT ![c] = k]
<1>1. PICK k : k = [x \in CallFields |-> IF x \in DOMAIN fields THEN fields[x] ELSE NoCall[x]]
  OBVIOUS
<1>2. call' = [call EXCEPT ![c] = k]
  BY <1>1 DEF Begin, CallFields
<1>3. IsRecord(k, CallFields)
  BY <1>1 DEF IsRecord
<1> QED
  BY <1>1, <1>2, <1>3

(* The SDK commits what the decision calls for.                            *)
LEMMA GovernIsHandled ==
    ASSUME NEW c, NEW o \in Ops, NEW p \in Governed, NEW g, NEW facets, NEW key \in Keys \cup {None},
           p # "credit_govern", key # None => p = "claim_gate",
           facets.decision = g.decision,
           govern_operation(c, o, p, g, facets, key)
    PROVE  Handled(c)
<1>1. PICK commits : commits = (g.decision \in commit_decisions[p])
  OBVIOUS
<1>2. PICK amount : amount = IF commits THEN g.amount ELSE 0
  OBVIOUS
<1>3. PICK fields :
          fields = [pc |-> "crystallize", platform |-> p, op |-> o, decision |-> g.decision,
                    facets |-> facets, reserve |-> amount, commits |-> commits,
                    commitFacets |-> facets, committed |-> amount, key |-> key]
  OBVIOUS
<1>4. Begin(c, fields)
  BY <1>1, <1>2, <1>3 DEF govern_operation
<1>5. PICK k : /\ IsRecord(k, CallFields)
               /\ \A x \in CallFields : k[x] = IF x \in DOMAIN fields THEN fields[x] ELSE NoCall[x]
               /\ call' = [call EXCEPT ![c] = k]
  BY <1>4, BeginFields
<1>6. /\ k.pc = "crystallize" /\ k.platform = p /\ k.op = o
      /\ k.decision = g.decision /\ k.facets = facets /\ k.commits = commits
      /\ k.commitFacets = facets /\ k.key = key
  BY <1>3, <1>5 DEF CallFields, NoCall
<1>7. k.key # None /\ k.decision = "APPROVED" => k.commits
  BY <1>1, <1>6, Decisions
<1>8. FreshCall(k)
  BY <1>1, <1>5, <1>6, <1>7 DEF FreshCall, Starting, StartOK, CallsForCommit, CommitsUnder
<1> QED
  BY <1>5, <1>8 DEF Handled

(* The finance helper commits: its callers decide.                         *)
LEMMA CommitIsHandled ==
    ASSUME NEW c, NEW o \in Ops, NEW p \in Governed, NEW g, NEW facets, NEW committed,
           p # "credit_govern", facets.decision = g.decision,
           CommitsUnder(p, g.decision, committed),
           crystallize_and_commit(c, o, p, g, facets, committed)
    PROVE  Handled(c)
<1>1. PICK fields :
          fields = [pc |-> "crystallize", platform |-> p, op |-> o, decision |-> g.decision,
                    facets |-> facets, commits |-> TRUE, commitFacets |-> facets,
                    committed |-> committed]
  OBVIOUS
<1>2. PICK k : /\ IsRecord(k, CallFields)
               /\ \A x \in CallFields : k[x] = IF x \in DOMAIN fields THEN fields[x] ELSE NoCall[x]
               /\ call' = [call EXCEPT ![c] = k]
  BY <1>1, BeginFields DEF crystallize_and_commit
<1>3. /\ k.pc = "crystallize" /\ k.platform = p /\ k.op = o /\ k.commits
      /\ k.commitFacets = facets /\ k.committed = committed /\ k.key = None
  BY <1>1, <1>2 DEF CallFields, NoCall
<1>4. FreshCall(k)
  BY <1>2, <1>3 DEF FreshCall, Starting, StartOK, CallsForCommit
<1> QED
  BY <1>2, <1>4 DEF Handled

(* What is only crystallized is never committed.                           *)
LEMMA CrystallizeIsHandled ==
    ASSUME NEW c, NEW o \in Ops, NEW p \in Governed, NEW g, NEW facets,
           p # "credit_govern",
           crystallize_only(c, o, p, g, facets)
    PROVE  Handled(c)
<1>1. PICK fields :
          fields = [pc |-> "crystallize", platform |-> p, op |-> o, decision |-> g.decision,
                    facets |-> facets]
  OBVIOUS
<1>2. PICK k : /\ IsRecord(k, CallFields)
               /\ \A x \in CallFields : k[x] = IF x \in DOMAIN fields THEN fields[x] ELSE NoCall[x]
               /\ call' = [call EXCEPT ![c] = k]
  BY <1>1, BeginFields DEF crystallize_only
<1>3. /\ k.pc = "crystallize" /\ k.platform = p /\ k.op = o /\ k.commits = FALSE /\ k.key = None
  BY <1>1, <1>2 DEF CallFields, NoCall
<1>4. FreshCall(k)
  BY <1>2, <1>3 DEF FreshCall, Starting, StartOK, CallsForCommit
<1> QED
  BY <1>2, <1>4 DEF Handled

-----------------------------------------------------------------------------
(***************************************************************************)
(* Handlers                                                                *)
(***************************************************************************)

LEMMA FacetsDecision ==
    ASSUME NEW g, NEW amount, NEW nonce
    PROVE  FacetsOf(g, amount, nonce).decision = g.decision
  BY DEF FacetsOf

LEMMA GrantDecision ==
    ASSUME NEW d, NEW amount
    PROVE  Grant(d, amount).decision = d
  BY DEF Grant

(* Every handler of the insurance platforms ends in the SDK.               *)
LEMMA InsuranceIsHandled ==
    ASSUME NEW c, NEW o \in Ops, InsuranceHandlers(c, o)
    PROVE  Handled(c) /\ HandlerFrame
<1>1. ASSUME NEW key \in Keys \cup {None}, _run_evaluation(c, o, key) PROVE Handled(c) /\ HandlerFrame
  <2>1. PICK g : govern_operation(c, o, "claim_gate", g, FacetsOf(g, 0, c), key)
    BY <1>1 DEF _run_evaluation
  <2>2. Handled(c)
    BY <2>1, GovernIsHandled, FacetsDecision, PlatformNames
  <2> QED
    BY <1>1, <2>2 DEF _run_evaluation, StatelessFrame
<1>2. ASSUME NEW p \in Governed \ {"credit_govern"}, NEW g, NEW amount, NEW nonce, NEW q \in Ops,
             govern_operation(c, q, p, g, FacetsOf(g, amount, nonce), None)
      PROVE  Handled(c)
  <2>1. FacetsOf(g, amount, nonce).decision = g.decision
    BY FacetsDecision
  <2> QED
    BY <1>2, <2>1, GovernIsHandled
<1>3. CASE evaluate(c, o) \/ fnol_webhook(c, o)
  BY <1>1, <1>3 DEF evaluate, fnol_webhook
<1>4. CASE bind_evaluate(c, o)
  BY <1>2, <1>4, PlatformNames DEF bind_evaluate, StatelessFrame
<1>5. CASE trigger_evaluate(c, o)
  BY <1>2, <1>5, PlatformNames DEF trigger_evaluate, StatelessFrame
<1>6. CASE spatial_evaluate(c, o)
  BY <1>2, <1>6, PlatformNames DEF spatial_evaluate, StatelessFrame
<1>7. CASE subrogation_evaluate(c, o)
  BY <1>2, <1>7, PlatformNames DEF subrogation_evaluate, StatelessFrame
<1>8. CASE indemnity_evaluate(c, o)
  BY <1>2, <1>8, PlatformNames DEF indemnity_evaluate, StatelessFrame
<1>9. CASE underwrite_evaluate(c, o)
  BY <1>2, <1>9, PlatformNames DEF underwrite_evaluate, StatelessFrame
<1>10. CASE reserve_match(c, o)
  BY <1>2, <1>10, PlatformNames DEF reserve_match, StatelessFrame
<1>11. CASE battery_evaluate(c, o)
  BY <1>2, <1>11, PlatformNames DEF battery_evaluate, StatelessFrame
<1>12. CASE audit_seal(c, o)
  BY <1>2, <1>12, PlatformNames DEF audit_seal
<1>13. CASE audit_prove(c, o)
  BY <1>2, <1>13, PlatformNames DEF audit_prove, StatelessFrame
<1>14. CASE inference_evaluate(c, o)
  BY <1>2, <1>14, PlatformNames DEF inference_evaluate
<1> QED
  BY <1>3, <1>4, <1>5, <1>6, <1>7, <1>8, <1>9, <1>10, <1>11, <1>12, <1>13, <1>14
     DEF InsuranceHandlers

(* So do those of the cybersecurity platforms, or they answer.             *)
LEMMA CyberIsHandled ==
    ASSUME NEW c, NEW o \in Ops, CyberHandlers(c, o)
    PROVE  Handled(c) /\ HandlerFrame
<1>1. ASSUME NEW p \in Governed \ {"credit_govern"}, NEW g, NEW amount, NEW nonce,
             secure_operation(c, o, p, g, FacetsOf(g, amount, nonce))
      PROVE  Handled(c)
  <2>1. FacetsOf(g, amount, nonce).decision = g.decision
    BY FacetsDecision
  <2> QED
    BY <1>1, <2>1, GovernIsHandled DEF secure_operation
<1>2. ASSUME NEW p \in Governed \ {"credit_govern"}, Simple(c, o, p) PROVE Handled(c) /\ HandlerFrame
  BY <1>1, <1>2 DEF Simple, StatelessFrame
<1>3. CASE \/ identity_verify(c, o) \/ threat_score(c, o) \/ posture_ingest(c, o)
           \/ incident_authorize(c, o) \/ egress_evaluate(c, o)
  BY <1>2, <1>3, PlatformNames
     DEF identity_verify, threat_score, posture_ingest, incident_authorize, egress_evaluate
<1>4. CASE session_arm(c, o)
  BY <1>1, <1>4, PlatformNames DEF session_arm, StatelessFrame
<1>5. CASE compliance_log(c, o)
  BY <1>1, <1>5, PlatformNames DEF compliance_log, StatelessFrame
<1>6. CASE content_evaluate(c, o)
  BY <1>1, <1>6, AnswerIsHandled, PlatformNames DEF content_evaluate, StatelessFrame
<1>7. CASE witness_ingest(c, o)
  BY <1>1, <1>7, AnswerIsHandled, PlatformNames DEF witness_ingest, StatelessFrame
<1> QED
  BY <1>3, <1>4, <1>5, <1>6, <1>7 DEF CyberHandlers

LEMMA LineageIsHandled ==
    ASSUME NEW c, lineage_ingest(c)
    PROVE  Handled(c) /\ HandlerFrame
<1>1. HandlerFrame /\ local.edges + 1 \in Ops
  BY DEF lineage_ingest
<1>2. PICK g : g = Grant("CRITICAL", 0)
  OBVIOUS
<1>3. AnswerOnly(c) \/ secure_operation(c, local.edges + 1, "lineage_ingest", g, FacetsOf(g, 0, c))
  BY <1>2 DEF lineage_ingest
<1>4. FacetsOf(g, 0, c).decision = g.decision
  BY FacetsDecision
<1>5. Handled(c)
  BY <1>1, <1>3, <1>4, AnswerIsHandled, GovernIsHandled, PlatformNames DEF secure_operation
<1> QED
  BY <1>1, <1>5

(* A wire is approved or held, and committed as one or, with nothing, as   *)
(* the other.                                                              *)
LEMMA WireIsHandled ==
    ASSUME NEW c, NEW o \in Ops, wire_evaluate(c, o)
    PROVE  Handled(c) /\ HandlerFrame
<1>1. PICK i, g : /\ g = evaluate_wire(i)
                  /\ crystallize_and_commit(c, o, "wire_match", g, FacetsOf(g, i.amount, 0), g.amount)
  BY DEF wire_evaluate
<1>2. g.decision = "APPROVED" \/ (g.decision = "HELD" /\ g.amount = 0)
  BY <1>1 DEF evaluate_wire, Grant
<1>3. CommitsUnder("wire_match", g.decision, g.amount)
  BY <1>2, Decisions DEF CommitsUnder, HeldWire
<1>4. FacetsOf(g, i.amount, 0).decision = g.decision
  BY FacetsDecision
<1>5. Handled(c)
  BY <1>1, <1>3, <1>4, CommitIsHandled, PlatformNames
<1> QED
  BY <1>5 DEF wire_evaluate, StatelessFrame

(* Only an active desk commits an order.                                   *)
LEMMA OrderIsHandled ==
    ASSUME NEW c, NEW o \in Ops, submit_order(c, o)
    PROVE  Handled(c) /\ HandlerFrame
<1>1. \/ AnswerOnly(c)
      \/ \E d, version : crystallize_only(c, o, "algofreeze", Grant(d, 0),
                                          FacetsOf(Grant(d, 0), version, local.approved))
      \/ \E version : crystallize_and_commit(c, o, "algofreeze", Grant("ACTIVE", 100),
                                             FacetsOf(Grant("ACTIVE", 100), 100, version), 100)
  BY DEF submit_order
<1>2. ASSUME NEW version, NEW g, g = Grant("ACTIVE", 100),
             crystallize_and_commit(c, o, "algofreeze", g, FacetsOf(g, 100, version), 100)
      PROVE  Handled(c)
  <2>1. g.decision = "ACTIVE" /\ FacetsOf(g, 100, version).decision = g.decision
    BY <1>2, FacetsDecision, GrantDecision
  <2>2. CommitsUnder("algofreeze", g.decision, 100)
    BY <2>1, Decisions DEF CommitsUnder
  <2> QED
    BY <1>2, <2>1, <2>2, CommitIsHandled, PlatformNames
<1>3. Handled(c)
  BY <1>1, <1>2, AnswerIsHandled, CrystallizeIsHandled, PlatformNames
<1> QED
  BY <1>3 DEF submit_order

(* A credit application is crystallized before it has a score.             *)
LEMMA CreditIsHandled ==
    ASSUME NEW c, NEW o \in Ops, credit_evaluate(c, o)
    PROVE  Handled(c) /\ HandlerFrame
<1>1. PICK facets : facets = FacetsOf(Grant("UNSCORED", 0), 100, 0)
  OBVIOUS
<1>2. facets.decision = "UNSCORED"
  BY <1>1, FacetsDecision, GrantDecision
<1>3. PICK fields :
          fields = [pc |-> "crystallize", platform |-> "credit_govern", op |-> o,
                    facets |-> facets, reserve |-> 100, committed |-> 100]
  OBVIOUS
<1>4. AnswerOnly(c) \/ Begin(c, fields)
  BY <1>1, <1>3 DEF credit_evaluate
<1>5. CASE Begin(c, fields)
  <2>1. PICK k : /\ IsRecord(k, CallFields)
                 /\ \A x \in CallFields : k[x] = IF x \in DOMAIN fields THEN fields[x] ELSE NoCall[x]
                 /\ call' = [call EXCEPT ![c] = k]
    BY <1>5, BeginFields
  <2>2. /\ k.pc = "crystallize" /\ k.platform = "credit_govern" /\ k.op = o /\ k.facets = facets
        /\ k.commits = FALSE /\ k.key = None
    BY <1>3, <2>1 DEF CallFields, NoCall
  <2>3. FreshCall(k)
    BY <1>2, <2>1, <2>2, PlatformNames DEF FreshCall, Starting, StartOK
  <2> QED
    BY <2>1, <2>3 DEF Handled, credit_evaluate, StatelessFrame
<1> QED
  BY <1>4, <1>5, AnswerIsHandled DEF credit_evaluate, StatelessFrame

(* A match and a charge are decided, and recorded before they are          *)
(* crystallized.                                                           *)
LEMMA RecordIsHandled ==
    ASSUME NEW c, NEW o \in Ops, NEW p \in Governed, NEW facets, NEW fields, p # "credit_govern",
           DOMAIN fields \subseteq CallFields \ {"key"},
           {"pc", "platform", "op", "commits", "commitFacets"} \subseteq DOMAIN fields,
           fields.pc \in {"mark", "charge"}, fields.platform = p, fields.op = o, fields.commits = TRUE,
           fields.commitFacets = facets, facets.decision \in commit_decisions[p],
           Begin(c, fields)
    PROVE  Handled(c)
<1>1. PICK k : /\ IsRecord(k, CallFields)
               /\ \A x \in CallFields : k[x] = IF x \in DOMAIN fields THEN fields[x] ELSE NoCall[x]
               /\ call' = [call EXCEPT ![c] = k]
  BY BeginFields
<1>2. "key" \in CallFields \ DOMAIN fields /\ NoCall.key = None
  BY DEF CallFields, NoCall
<1>3. /\ k.pc \in {"mark", "charge"} /\ k.platform = p /\ k.op = o /\ k.commits
      /\ k.commitFacets = facets /\ k.key = None
  BY <1>1, <1>2
<1>4. FreshCall(k)
  BY <1>1, <1>3 DEF FreshCall, Starting, StartOK, CallsForCommit, CommitsUnder
<1> QED
  BY <1>1, <1>4 DEF Handled

LEMMA MatchIsHandled ==
    ASSUME NEW c, NEW o \in Ops, run_match(c, o)
    PROVE  Handled(c) /\ HandlerFrame
<1>1. PICK g : g = Grant("MATCHED", 0)
  OBVIOUS
<1>2. \/ AnswerOnly(c)
      \/ \E q : Begin(c, [pc |-> "mark", platform |-> "subledger_sync", op |-> o,
                          decision |-> g.decision, facets |-> FacetsOf(g, q, c),
                          commits |-> TRUE, commitFacets |-> FacetsOf(g, q, c), seen |-> q])
  BY <1>1 DEF run_match
<1>3. ASSUME NEW q, NEW fields,
             fields = [pc |-> "mark", platform |-> "subledger_sync", op |-> o,
                       decision |-> g.decision, facets |-> FacetsOf(g, q, c),
                       commits |-> TRUE, commitFacets |-> FacetsOf(g, q, c), seen |-> q],
             Begin(c, fields)
      PROVE  Handled(c)
  <2>1. PICK facets : facets = FacetsOf(g, q, c)
    OBVIOUS
  <2>2. facets.decision \in commit_decisions["subledger_sync"]
    BY <1>1, <2>1, FacetsDecision, GrantDecision, Decisions
  <2>3. /\ fields.pc = "mark" /\ fields.platform = "subledger_sync" /\ fields.op = o
        /\ fields.commits = TRUE /\ fields.commitFacets = facets
        /\ DOMAIN fields \subseteq CallFields \ {"key"}
        /\ {"pc", "platform", "op", "commits", "commitFacets"} \subseteq DOMAIN fields
    BY <1>3, <2>1 DEF CallFields, NoCall
  <2> QED
    BY <1>3, <2>2, <2>3, RecordIsHandled, PlatformNames
<1> QED
  BY <1>2, <1>3, AnswerIsHandled DEF run_match, StatelessFrame

LEMMA DepreciationIsHandled ==
    ASSUME NEW c, NEW o \in Ops, run_depreciation(c, o)
    PROVE  Handled(c) /\ HandlerFrame
<1>1. PICK charge : charge = Min({100, local.book})
  OBVIOUS
<1>2. PICK g : g = Grant("CHARGED", charge)
  OBVIOUS
<1>3. PICK facets : facets = FacetsOf(g, charge, 0)
  OBVIOUS
<1>4. PICK fields :
          fields = [pc |-> "charge", platform |-> "asset_ledger", op |-> o,
                    decision |-> g.decision, facets |-> facets,
                    commits |-> TRUE, commitFacets |-> facets,
                    committed |-> charge, seen |-> local.book]
  OBVIOUS
<1>5. Begin(c, fields) /\ HandlerFrame
  BY <1>1, <1>2, <1>3, <1>4 DEF run_depreciation, StatelessFrame
<1>6. facets.decision \in commit_decisions["asset_ledger"]
  BY <1>2, <1>3, FacetsDecision, GrantDecision, Decisions
<1>7. /\ fields.pc = "charge" /\ fields.platform = "asset_ledger" /\ fields.op = o
      /\ fields.commits = TRUE /\ fields.commitFacets = facets
      /\ DOMAIN fields \subseteq CallFields \ {"key"}
      /\ {"pc", "platform", "op", "commits", "commitFacets"} \subseteq DOMAIN fields
  BY <1>4 DEF CallFields, NoCall
<1> QED
  BY <1>5, <1>6, <1>7, RecordIsHandled, PlatformNames

LEMMA FinanceIsHandled ==
    ASSUME NEW c, NEW o \in Ops, FinanceHandlers(c, o)
    PROVE  Handled(c) /\ HandlerFrame
  BY WireIsHandled, OrderIsHandled, CreditIsHandled, MatchIsHandled, DepreciationIsHandled
     DEF FinanceHandlers

-----------------------------------------------------------------------------
(***************************************************************************)
(* The spine                                                               *)
(***************************************************************************)

(* A crystal stays with its platform, and a resolved one stays resolved.   *)
CrystalsKeep(before, after) ==
    \A o \in Ops : before[o].platform # None =>
        /\ after[o].platform = before[o].platform
        /\ before[o].terminal # None => after[o].terminal # None

LEMMA RowReplaced ==
    ASSUME SpineOK(crystal), NEW o \in Ops, NEW row, crystal' = [crystal EXCEPT ![o] = row],
           CrystalOK(row),
           crystal[o].platform # None => /\ row.platform = crystal[o].platform
                                         /\ crystal[o].terminal # None => row.terminal # None
    PROVE  SpineOK(crystal') /\ CrystalsKeep(crystal, crystal') /\ crystal'[o] = row
<1>1. DOMAIN crystal = Ops
  BY DEF SpineOK
<1>2. crystal'[o] = row /\ \A q \in Ops \ {o} : crystal'[q] = crystal[q]
  BY <1>1
<1>3. crystal' = [q \in Ops |-> crystal'[q]]
  BY <1>1
<1>4. SpineOK(crystal')
  BY <1>2, <1>3 DEF SpineOK
<1> QED
  BY <1>2, <1>4 DEF CrystalsKeep

LEMMA SpineCrystallizes ==
    ASSUME SpineOK(crystal), NEW m, MessageOK(m, crystal), m.kind = "crystallize",
           NEW pol, CrystallizeUnder(m.op, CrystallizeRequest(m), pol)
    PROVE  SpineOK(crystal') /\ CrystalsKeep(crystal, crystal') /\ crystal'[m.op].platform = m.platform
<1>1. PICK r : r = CrystallizeRequest(m)
  OBVIOUS
<1>2. r.platform = m.platform /\ r.facets = m.facets
  BY <1>1 DEF CrystallizeRequest
<1>3. PICK row :
          row = [status |-> "CRYSTALLIZED", terminal |-> None,
                 platform |-> r.platform, account |-> r.account,
                 tier |-> r.tier, policy |-> pol, facets |-> r.facets,
                 amt |-> r.amt, committed |-> 0,
                 born |-> Cardinality(Existing) + 1, adjudicated |-> FALSE]
  OBVIOUS
<1>4. crystal' = [crystal EXCEPT ![m.op] = row] /\ crystal[m.op].status = "NONE"
  BY <1>1, <1>3 DEF CrystallizeUnder
<1>5. IsRecord(row, CrystalFields)
  BY <1>3 DEF IsRecord, CrystalFields, NoCrystal
<1>6. row.status = "CRYSTALLIZED" /\ row.platform = m.platform /\ row.facets = m.facets
  BY <1>2, <1>3
<1>7. CrystalOK(row)
  BY <1>5, <1>6 DEF CrystalOK, MessageOK
<1>8. m.op \in Ops /\ crystal[m.op].platform = None
  BY <1>4 DEF SpineOK, CrystalOK, MessageOK
<1>9. SpineOK(crystal') /\ CrystalsKeep(crystal, crystal') /\ crystal'[m.op] = row
  BY <1>4, <1>7, <1>8, RowReplaced
<1> QED
  BY <1>6, <1>9

(* The facets of a commit are those of the crystal: what has been          *)
(* crystallized without a score never matches what is committed with one.  *)
LEMMA SpineCommits ==
    ASSUME SpineOK(crystal), NEW m, MessageOK(m, crystal), m.kind = "commit",
           MayCommit(m.op, m.facets, FALSE), Committed(m.op, m.amount)
    PROVE  SpineOK(crystal') /\ CrystalsKeep(crystal, crystal') /\ crystal'[m.op].terminal # None
<1>1. PICK old : old = crystal[m.op]
  OBVIOUS
<1>2. PICK row : row = [old EXCEPT !.status = "COMMITTED", !.terminal = "COMMITTED",
                                   !.committed = m.amount]
  OBVIOUS
<1>3. m.op \in Ops /\ CrystalOK(old) /\ old.platform = m.platform /\ old.facets = m.facets
  BY <1>1 DEF SpineOK, MessageOK, MayCommit
<1>4. crystal' = [crystal EXCEPT ![m.op] = row]
  BY <1>1, <1>2, <1>3 DEF Committed, SpineOK
<1>5. /\ IsRecord(row, CrystalFields) /\ row.status = "COMMITTED" /\ row.terminal = "COMMITTED"
      /\ row.platform = old.platform /\ row.facets = old.facets /\ row.committed = m.amount
  BY <1>2, <1>3 DEF CrystalOK, IsRecord, CrystalFields, NoCrystal
<1>6. CallsForCommit(m.platform, m.facets.decision, m.amount)
  BY DEF MessageOK
<1>7. old.platform # "credit_govern"
  BY <1>3, <1>6 DEF CrystalOK, CallsForCommit
<1>8. CrystalOK(row)
  BY <1>3, <1>5, <1>6, <1>7 DEF CrystalOK, CallsForCommit
<1>9. "COMMITTED" # None
  BY CrystalAssumption
<1>10. SpineOK(crystal') /\ CrystalsKeep(crystal, crystal') /\ crystal'[m.op] = row
  BY <1>1, <1>3, <1>4, <1>5, <1>8, <1>9, RowReplaced
<1> QED
  BY <1>5, <1>9, <1>10

LEMMA SpineStrands ==
    ASSUME SpineOK(crystal), NEW o \in Ops, Adjudicate(o)
    PROVE  SpineOK(crystal') /\ CrystalsKeep(crystal, crystal') /\ crystal'[o].terminal # None
<1>1. PICK old : old = crystal[o]
  OBVIOUS
<1>2. PICK row : row = [old EXCEPT !.status = "STRANDED", !.terminal = "STRANDED", !.adjudicated = TRUE]
  OBVIOUS
<1>3. CrystalOK(old)
  BY <1>1 DEF SpineOK
<1>4. crystal' = [crystal EXCEPT ![o] = row]
  BY <1>1, <1>2, <1>3 DEF Adjudicate, SpineOK
<1>5. /\ IsRecord(row, CrystalFields) /\ row.status = "STRANDED" /\ row.terminal = "STRANDED"
      /\ row.platform = old.platform /\ row.facets = old.facets
  BY <1>2, <1>3 DEF CrystalOK, IsRecord, CrystalFields, NoCrystal
<1>6. CrystalOK(row)
  BY <1>3, <1>5 DEF CrystalOK
<1>7. "STRANDED" # None
  BY CrystalAssumption
<1>8. SpineOK(crystal') /\ CrystalsKeep(crystal, crystal') /\ crystal'[o] = row
  BY <1>1, <1>4, <1>5, <1>6, <1>7, RowReplaced
<1> QED
  BY <1>5, <1>7, <1>8

(* What the spine does with a message that reaches it.                     *)
LEMMA SpinePerforms ==
    ASSUME SpineOK(crystal), NEW m, MessageOK(m, crystal), Performs(m)
    PROVE  /\ SpineOK(crystal') /\ CrystalsKeep(crystal, crystal')
           /\ m.kind \in {"crystallize", "commit", "strand"}
           /\ m.kind = "crystallize" => crystal'[m.op].platform = m.platform
           /\ m.kind \in {"commit", "strand"} => crystal'[m.op].terminal # None
<1>1. CASE finance_http_crystallize(m) \/ insurance_http_crystallize(m) \/ cyber_http_crystallize(m)
  <2>1. m.kind = "crystallize" /\ \E pol : CrystallizeUnder(m.op, CrystallizeRequest(m), pol)
    BY <1>1 DEF finance_http_crystallize, insurance_http_crystallize, cyber_http_crystallize,
                FinanceCrystallize, InsuranceCrystallize, CyberCrystallize
  <2> QED
    BY <2>1, SpineCrystallizes
<1>2. CASE finance_http_commit(m) \/ insurance_http_commit(m) \/ cyber_http_commit(m)
  <2>1. m.kind = "commit" /\ MayCommit(m.op, m.facets, FALSE) /\ Committed(m.op, m.amount)
    BY <1>2 DEF finance_http_commit, insurance_http_commit, cyber_http_commit,
                FinanceCommit, InsuranceCommit, CyberCommit, CommitUnenforced
  <2> QED
    BY <2>1, SpineCommits
<1>3. CASE finance_http_strand(m)
  BY <1>3, SpineStrands DEF finance_http_strand, MessageOK
<1> QED
  BY <1>1, <1>2, <1>3 DEF Performs

(* The sweep resolves crystals and leaves them with their platforms.       *)
LEMMA SpineSweeps ==
    ASSUME SpineOK(crystal), NEW S \in SUBSET Ops, Sweep(S)
    PROVE  SpineOK(crystal') /\ CrystalsKeep(crystal, crystal')
<1>1. crystal' = [o \in Ops |->
                     IF o \notin S THEN crystal[o]
                     ELSE [crystal[o] EXCEPT
                             !.status = IF Strands(o) THEN "STRANDED" ELSE "EXPIRED",
                             !.terminal = IF Strands(o) THEN "STRANDED" ELSE "EXPIRED"]]
  BY DEF Sweep, FinanceSweep, InsuranceSweep, CyberSweep, SweepHorizons
<1>2. ASSUME NEW o \in Ops
      PROVE  /\ CrystalOK(crystal'[o]) /\ crystal'[o].platform = crystal[o].platform
             /\ crystal[o].terminal # None => crystal'[o].terminal # None
  <2>1. CASE o \notin S
    BY <1>1, <2>1 DEF SpineOK
  <2>2. CASE o \in S
    <3>1. PICK old : old = crystal[o]
      OBVIOUS
    <3>2. PICK status \in {"STRANDED", "EXPIRED"} :
              crystal'[o] = [old EXCEPT !.status = status, !.terminal = status]
      BY <1>1, <2>2, <3>1
    <3>3. CrystalOK(old)
      BY <3>1 DEF SpineOK
    <3>4. PICK row : row = [old EXCEPT !.status = status, !.terminal = status]
      OBVIOUS
    <3>5. /\ IsRecord(row, CrystalFields) /\ row.status = status /\ row.terminal = status
          /\ row.platform = old.platform /\ row.facets = old.facets
      BY <3>3, <3>4 DEF CrystalOK, IsRecord, CrystalFields, NoCrystal
    <3>6. CrystalOK(row) /\ row.terminal # None
      BY <3>3, <3>5, CrystalAssumption DEF CrystalOK
    <3> QED
      BY <3>1, <3>2, <3>4, <3>5, <3>6
  <2> QED
    BY <2>1, <2>2
<1>3. crystal' = [o \in Ops |-> crystal'[o]]
  BY <1>1
<1> QED
  BY <1>2, <1>3 DEF SpineOK, CrystalsKeep

-----------------------------------------------------------------------------
(***************************************************************************)
(* What a step may do to the requests                                      *)
(***************************************************************************)

(* What a request knows of its crystal stays true.                         *)
LEMMA CallKept ==
    ASSUME NEW before, NEW after, CrystalsKeep(before, after), NEW k, CallOK(k, before)
    PROVE  CallOK(k, after)
<1>1. Underway(k) => k.op \in Ops /\ k.platform \in Governed /\ k.platform # None
  BY NoneIsApart DEF CallOK
<1>2. k.pc \in {"score", "commit"} => after[k.op].platform = k.platform
  BY <1>1 DEF CallOK, CrystalsKeep, Underway
<1>3. Underway(k) /\ Resolved(before[k.op]) => Resolved(after[k.op])
  BY <1>1, NoneIsApart, PlatformNames DEF CrystalsKeep, Resolved
<1> QED
  BY <1>2, <1>3 DEF CallOK, Underway

LEMMA EverythingKept ==
    ASSUME GovernedInv, NEW after, CrystalsKeep(crystal, after)
    PROVE  CallsOK(call, after) /\ MessagesOK(late, after) /\ PaidOK(paid, after)
<1>1. CallsOK(call, after)
  BY CallKept DEF GovernedInv, CallsOK
<1>2. MessagesOK(late, after)
  BY NoneIsApart DEF GovernedInv, MessagesOK, MessageOK, CrystalsKeep
<1>3. PaidOK(paid, after)
  BY NoneIsApart, PlatformNames DEF GovernedInv, PaidOK, Resolved, CrystalsKeep
<1> QED
  BY <1>1, <1>2, <1>3

(* One request moves on.                                                   *)
LEMMA OneCallMoves ==
    ASSUME NEW after, CallsOK(call, after), NEW c \in Calls, NEW k, CallOK(k, after),
           call' = [call EXCEPT ![c] = k]
    PROVE  /\ CallsOK(call', after)
           /\ call'[c] = k
           /\ \A d \in Calls \ {c} : call'[d] = call[d]
<1>1. DOMAIN call = Calls
  BY DEF CallsOK
<1>2. call'[c] = k /\ \A d \in Calls \ {c} : call'[d] = call[d]
  BY <1>1
<1>3. call' = [d \in Calls |-> call'[d]]
  BY <1>1
<1> QED
  BY <1>2, <1>3 DEF CallsOK

(* A step that neither pays nor records a payment.                         *)
LEMMA PaymentsKept ==
    ASSUME PaymentInv, store' = store, paid' = paid, suspect \subseteq suspect',
           \A d \in Calls : call'[d].pc \in {"dispatch", "save"} => call'[d] = call[d],
           \A d \in Calls : Recording(call[d]) => call'[d] = call[d] \/ call[d].key \in suspect'
    PROVE  PaymentInv'
<1>1. OneInWindow(call', suspect')
  BY DEF PaymentInv, OneInWindow, InWindow
<1>2. NotPaidBefore(call', suspect', paid')
  BY DEF PaymentInv, NotPaidBefore
<1>3. PaidIsRecorded(call', suspect', paid', store')
  BY DEF PaymentInv, PaidIsRecorded
<1>4. PaidOncePerKey'
  BY DEF PaymentInv, PaidOncePerKey
<1> QED
  BY <1>1, <1>2, <1>3, <1>4 DEF PaymentInv

(* A request that is outside the payment window moves, and stays outside.  *)
LEMMA CallMoves ==
    ASSUME PlatformInv, SpineOK(crystal'), CrystalsKeep(crystal, crystal'), MessagesOK(late', crystal'),
           NEW c \in Calls, NEW k, CallOK(k, crystal'), call' = [call EXCEPT ![c] = k],
           call[c].pc \notin {"dispatch", "save"}, k.pc \notin {"dispatch", "save"},
           store' = store, paid' = paid, suspect' = suspect
    PROVE  PlatformInv'
<1>1. CallsOK(call, crystal') /\ PaidOK(paid, crystal')
  BY EverythingKept DEF PlatformInv
<1>2. CallsOK(call', crystal') /\ call'[c] = k /\ \A d \in Calls \ {c} : call'[d] = call[d]
  BY <1>1, OneCallMoves
<1>3. PaymentInv'
  BY <1>2, PaymentsKept DEF PlatformInv, Recording
<1> QED
  BY <1>1, <1>2, <1>3 DEF PlatformInv, GovernedInv

(* The same when the spine does nothing and no message is sent.            *)
LEMMA CallMovesAlone ==
    ASSUME PlatformInv, HandlerFrame,
           NEW c \in Calls, NEW k, CallOK(k, crystal), call' = [call EXCEPT ![c] = k],
           call[c].pc \notin {"dispatch", "save"}, k.pc \notin {"dispatch", "save"}
    PROVE  PlatformInv'
<1>1. crystal' = crystal /\ late' = late /\ store' = store /\ paid' = paid /\ suspect' = suspect
  BY DEF HandlerFrame, vars
<1>2. SpineOK(crystal') /\ CrystalsKeep(crystal, crystal') /\ MessagesOK(late', crystal')
  BY <1>1 DEF PlatformInv, GovernedInv, CrystalsKeep
<1> QED
  BY <1>1, <1>2, CallMoves

-----------------------------------------------------------------------------
(***************************************************************************)
(* The steps                                                               *)
(***************************************************************************)

LEMMA HandlersStartIdle ==
    ASSUME NEW c, NEW o,
           InsuranceHandlers(c, o) \/ CyberHandlers(c, o) \/ FinanceHandlers(c, o) \/ lineage_ingest(c)
    PROVE  call[c].pc = "idle"
<1>1. CASE InsuranceHandlers(c, o)
  BY <1>1 DEF InsuranceHandlers, evaluate, fnol_webhook, _run_evaluation, bind_evaluate,
              trigger_evaluate, spatial_evaluate, subrogation_evaluate, indemnity_evaluate,
              underwrite_evaluate, reserve_match, battery_evaluate, audit_seal, audit_prove,
              inference_evaluate, Idle
<1>2. CASE CyberHandlers(c, o)
  BY <1>2 DEF CyberHandlers, identity_verify, session_arm, threat_score, posture_ingest,
              incident_authorize, egress_evaluate, compliance_log, content_evaluate,
              witness_ingest, Simple, Idle
<1>3. CASE FinanceHandlers(c, o)
  BY <1>3 DEF FinanceHandlers, wire_evaluate, submit_order, credit_evaluate, run_match,
              run_depreciation, Idle
<1>4. CASE lineage_ingest(c)
  BY <1>4 DEF lineage_ingest, Idle
<1> QED
  BY <1>1, <1>2, <1>3, <1>4

LEMMA HandlerStep ==
    ASSUME PlatformInv, NEW c \in Calls,
           \/ lineage_ingest(c)
           \/ \E o \in Ops : InsuranceHandlers(c, o) \/ CyberHandlers(c, o) \/ FinanceHandlers(c, o)
    PROVE  PlatformInv'
<1>1. Handled(c) /\ HandlerFrame
  BY InsuranceIsHandled, CyberIsHandled, FinanceIsHandled, LineageIsHandled
<1>2. call[c].pc = "idle"
  BY HandlersStartIdle
<1>3. PICK k : (FreshCall(k) \/ k = Finished) /\ call' = [call EXCEPT ![c] = k]
  BY <1>1 DEF Handled
<1>4. CallOK(k, crystal) /\ k.pc \notin {"dispatch", "save"}
  <2>1. CASE FreshCall(k)
    BY <2>1 DEF FreshCall, CallOK, Starting, Underway
  <2>2. CASE k = Finished
    BY <2>2, FinishedCall
  <2> QED
    BY <1>3, <2>1, <2>2
<1> QED
  BY <1>1, <1>2, <1>3, <1>4, CallMovesAlone

(* A request is answered.                                                  *)
LEMMA AnswerStep ==
    ASSUME PlatformInv, HandlerFrame, NEW c \in Calls, AnswerOnly(c),
           call[c].pc \notin {"dispatch", "save"}
    PROVE  PlatformInv'
  BY FinishedCall, CallMovesAlone DEF AnswerOnly

(* The books are written, and the request goes on to the spine.            *)
LEMMA RecordStep ==
    ASSUME PlatformInv, NEW c \in Calls, mark_matched(c) \/ apply_charge(c)
    PROVE  PlatformInv'
<1>1. HandlerFrame /\ call[c].pc \in {"mark", "charge"}
  BY DEF mark_matched, apply_charge
<1>2. CASE AnswerOnly(c)
  BY <1>1, <1>2, AnswerStep
<1>3. CASE call' = [call EXCEPT ![c].pc = "crystallize"]
  <2>1. PICK old : old = call[c]
    OBVIOUS
  <2>2. CallOK(old, crystal)
    BY <2>1 DEF PlatformInv, GovernedInv, CallsOK
  <2>3. PICK k : k = [old EXCEPT !.pc = "crystallize"]
    OBVIOUS
  <2>4. /\ IsRecord(k, CallFields) /\ k.pc = "crystallize" /\ k.platform = old.platform
        /\ k.op = old.op /\ k.decision = old.decision /\ k.facets = old.facets
        /\ k.commits = old.commits /\ k.commitFacets = old.commitFacets /\ k.key = old.key
        /\ k.committed = old.committed
    BY <2>2, <2>3 DEF CallOK, IsRecord, CallFields, NoCall
  <2>5. CallOK(k, crystal)
    BY <1>1, <2>1, <2>2, <2>4 DEF CallOK, Underway, Starting, StartOK
  <2>6. call' = [call EXCEPT ![c] = k]
    BY <1>3, <2>1, <2>3
  <2> QED
    BY <1>1, <2>4, <2>5, <2>6, CallMovesAlone
<1> QED
  BY <1>2, <1>3 DEF mark_matched, apply_charge

(* A score goes into the facets of the commit.                             *)
LEMMA ScoredStep ==
    ASSUME PlatformInv, HandlerFrame, NEW c \in Calls, call[c].pc = "score",
           NEW d \in {"APPROVE", "REFER", "DECLINE"}, Scored(c, d)
    PROVE  PlatformInv'
<1>1. PICK old : old = call[c]
  OBVIOUS
<1>2. CallOK(old, crystal) /\ old.pc = "score"
  BY <1>1 DEF PlatformInv, GovernedInv, CallsOK
<1>3. PICK facets : facets = FacetsOf(Grant(d, 0), 100, 0)
  OBVIOUS
<1>4. facets.decision = d
  BY <1>3, FacetsDecision, GrantDecision
<1>5. PICK amount : amount = IF d = "APPROVE" THEN old.committed ELSE 0
  OBVIOUS
<1>6. PICK k : k = [old EXCEPT !.pc = "commit", !.decision = d, !.commitFacets = facets,
                               !.committed = amount]
  OBVIOUS
<1>7. /\ IsRecord(k, CallFields) /\ k.pc = "commit" /\ k.platform = old.platform
      /\ k.op = old.op /\ k.commitFacets = facets /\ k.key = old.key
  BY <1>2, <1>6 DEF CallOK, IsRecord, CallFields, NoCall
<1>8. CallOK(k, crystal)
  BY <1>2, <1>4, <1>7 DEF CallOK, Underway, Starting, CallsForCommit
<1>9. call' = [call EXCEPT ![c] = k]
  <2>1. call' = [call EXCEPT ![c] =
                    [old EXCEPT !.pc = "commit", !.decision = d, !.commitFacets = facets,
                                !.committed = IF d = "APPROVE" THEN old.committed ELSE 0]]
    BY <1>1, <1>3 DEF Scored
  <2> QED
    BY <1>5, <1>6, <2>1
<1> QED
  BY <1>7, <1>8, <1>9, CallMovesAlone

LEMMA ScoreStep ==
    ASSUME PlatformInv, NEW c \in Calls, _score_with_rail(c)
    PROVE  PlatformInv'
<1>1. HandlerFrame /\ call[c].pc = "score"
  BY DEF _score_with_rail
<1>2. \/ \E d \in {"APPROVE", "REFER", "DECLINE"} : Scored(c, d)
      \/ call' = [call EXCEPT ![c].pc = "strand"]
      \/ AnswerOnly(c)
  BY DEF _score_with_rail, score, _http_score, MockScored
<1>3. CASE call' = [call EXCEPT ![c].pc = "strand"]
  <2>1. PICK old : old = call[c]
    OBVIOUS
  <2>2. CallOK(old, crystal) /\ old.pc = "score"
    BY <1>1, <2>1 DEF PlatformInv, GovernedInv, CallsOK
  <2>3. PICK k : k = [old EXCEPT !.pc = "strand"]
    OBVIOUS
  <2>4. /\ IsRecord(k, CallFields) /\ k.pc = "strand" /\ k.platform = old.platform
        /\ k.op = old.op /\ k.key = old.key
    BY <2>2, <2>3 DEF CallOK, IsRecord, CallFields, NoCall
  <2>5. CallOK(k, crystal)
    BY <2>2, <2>4 DEF CallOK, Underway, Starting
  <2>6. call' = [call EXCEPT ![c] = k]
    BY <1>3, <2>1, <2>3
  <2> QED
    BY <1>1, <2>4, <2>5, <2>6, CallMovesAlone
<1> QED
  BY <1>1, <1>2, <1>3, ScoredStep, AnswerStep

(* What a waiting request has sent.                                        *)
LEMMA MessageIsOK ==
    ASSUME PlatformInv, NEW c \in Calls, InCall(c)
    PROVE  /\ MessageOK(Message(c), crystal)
           /\ Message(c).kind = call[c].pc /\ Message(c).op = call[c].op
           /\ Message(c).platform = call[c].platform
<1>1. PICK k : k = call[c]
  OBVIOUS
<1>2. CallOK(k, crystal) /\ k.pc \in {"crystallize", "commit", "strand"}
  BY <1>1 DEF PlatformInv, GovernedInv, CallsOK, InCall
<1>3. PICK m : m = Message(c)
  OBVIOUS
<1>4. /\ m.kind = k.pc /\ m.op = k.op /\ m.platform = k.platform
      /\ m.facets = IF k.pc = "commit" THEN k.commitFacets ELSE k.facets
      /\ m.amount = IF k.pc = "commit" THEN k.committed ELSE k.reserve
  BY <1>1, <1>3 DEF Message
<1>5. MessageOK(m, crystal)
  BY <1>2, <1>4 DEF MessageOK, CallOK, Underway, Starting, StartOK
<1> QED
  BY <1>1, <1>3, <1>4, <1>5

(* The answer, or its absence, decides where a request goes: a governed    *)
(* payment of an approved claim has a crystal that is resolved.            *)
LEMMA ContinueIsOK ==
    ASSUME PlatformInv, NEW c \in Calls, InCall(c), NEW ok \in BOOLEAN, Continue(c, ok),
           CrystalsKeep(crystal, crystal'),
           ok /\ call[c].pc = "crystallize" => crystal'[call[c].op].platform = call[c].platform,
           ok /\ call[c].pc \in {"commit", "strand"} => crystal'[call[c].op].terminal # None
    PROVE  \E k : /\ CallOK(k, crystal') /\ call' = [call EXCEPT ![c] = k]
                  /\ k.pc \notin {"dispatch", "save"}
<1>1. PICK old : old = call[c]
  OBVIOUS
<1>2. CallOK(old, crystal) /\ old.pc \in {"crystallize", "commit", "strand"}
  BY <1>1 DEF PlatformInv, GovernedInv, CallsOK, InCall
<1>3. CallOK(old, crystal')
  BY <1>2, CallKept
<1>4. ASSUME NEW next, call' = [call EXCEPT ![c] = [@ EXCEPT !.pc = next, !.governed = ok, !.tries = 0]]
      PROVE  \E k : /\ IsRecord(k, CallFields) /\ k.pc = next /\ k.platform = old.platform
                    /\ k.op = old.op /\ k.decision = old.decision /\ k.governed = ok
                    /\ k.commitFacets = old.commitFacets /\ k.key = old.key
                    /\ k.committed = old.committed
                    /\ call' = [call EXCEPT ![c] = k]
  <2>1. PICK k : k = [old EXCEPT !.pc = next, !.governed = ok, !.tries = 0]
    OBVIOUS
  <2>2. /\ IsRecord(k, CallFields) /\ k.pc = next /\ k.platform = old.platform
        /\ k.op = old.op /\ k.decision = old.decision /\ k.governed = ok
        /\ k.commitFacets = old.commitFacets /\ k.key = old.key /\ k.committed = old.committed
    BY <1>2, <2>1 DEF CallOK, IsRecord, CallFields, NoCall
  <2> QED
    BY <1>1, <1>4, <2>1, <2>2
<1>5. CASE ok /\ old.pc = "crystallize" /\ old.platform = "credit_govern"
  <2>1. call' = [call EXCEPT ![c] = [@ EXCEPT !.pc = "score", !.governed = ok, !.tries = 0]]
    BY <1>1, <1>5 DEF Continue
  <2>2. PICK k : /\ IsRecord(k, CallFields) /\ k.pc = "score" /\ k.platform = old.platform
                 /\ k.op = old.op /\ k.key = old.key
                 /\ call' = [call EXCEPT ![c] = k]
    BY <1>4, <2>1
  <2>3. CallOK(k, crystal')
    BY <1>1, <1>3, <1>5, <2>2 DEF CallOK, Underway, Starting
  <2> QED
    BY <2>2, <2>3
<1>6. CASE ok /\ old.pc = "crystallize" /\ old.platform # "credit_govern" /\ old.commits
  <2>1. call' = [call EXCEPT ![c] = [@ EXCEPT !.pc = "commit", !.governed = ok, !.tries = 0]]
    BY <1>1, <1>6 DEF Continue
  <2>2. PICK k : /\ IsRecord(k, CallFields) /\ k.pc = "commit" /\ k.platform = old.platform
                 /\ k.op = old.op /\ k.key = old.key /\ k.commitFacets = old.commitFacets
                 /\ k.committed = old.committed
                 /\ call' = [call EXCEPT ![c] = k]
    BY <1>4, <2>1
  <2>3. CallOK(k, crystal')
    BY <1>1, <1>3, <1>6, <2>2 DEF CallOK, Underway, Starting, StartOK
  <2> QED
    BY <2>2, <2>3
<1>7. CASE /\ ~(ok /\ old.pc = "crystallize" /\ (old.platform = "credit_govern" \/ old.commits))
           /\ old.key # None
  <2>1. call' = [call EXCEPT ![c] = [@ EXCEPT !.pc = "pay", !.governed = ok, !.tries = 0]]
    BY <1>1, <1>7 DEF Continue
  <2>2. PICK k : /\ IsRecord(k, CallFields) /\ k.pc = "pay" /\ k.platform = old.platform
                 /\ k.op = old.op /\ k.key = old.key /\ k.decision = old.decision /\ k.governed = ok
                 /\ call' = [call EXCEPT ![c] = k]
    BY <1>4, <2>1
  <2>3. ASSUME ok, old.decision = "APPROVED" PROVE Resolved(crystal'[old.op])
    <3>1. old.platform = "claim_gate"
      BY <1>3, <1>7 DEF CallOK
    <3>2. old.pc = "commit"
      BY <1>2, <1>7, <2>3, <3>1 DEF CallOK, Starting, StartOK
    <3>3. crystal'[old.op].platform = old.platform
      BY <1>3, <3>2 DEF CallOK
    <3> QED
      BY <1>1, <2>3, <3>1, <3>2, <3>3 DEF Resolved
  <2>4. CallOK(k, crystal')
    BY <1>3, <1>2, <1>7, <2>2, <2>3 DEF CallOK, Underway, Starting
  <2> QED
    BY <2>2, <2>4
<1>8. CASE /\ ~(ok /\ old.pc = "crystallize" /\ (old.platform = "credit_govern" \/ old.commits))
           /\ old.key = None
  <2>1. call' = [call EXCEPT ![c] = Finished]
    BY <1>1, <1>8 DEF Continue
  <2> QED
    BY <2>1, FinishedCall
<1> QED
  BY <1>5, <1>6, <1>7, <1>8

LEMMA AnswerFromSpine ==
    ASSUME PlatformInv, NEW c \in Calls, SpineAnswers(c)
    PROVE  PlatformInv'
<1>1. PICK m : m = Message(c)
  OBVIOUS
<1>2. /\ InCall(c) /\ Continue(c, TRUE)
      /\ late' = late /\ store' = store /\ paid' = paid /\ suspect' = suspect
  BY DEF SpineAnswers, CallFrame
<1>3. /\ MessageOK(m, crystal) /\ m.kind = call[c].pc /\ m.op = call[c].op
      /\ m.platform = call[c].platform /\ SpineOK(crystal)
  BY <1>1, <1>2, MessageIsOK DEF PlatformInv, GovernedInv
<1>4. /\ SpineOK(crystal') /\ CrystalsKeep(crystal, crystal')
      /\ m.kind = "crystallize" => crystal'[m.op].platform = m.platform
      /\ m.kind \in {"commit", "strand"} => crystal'[m.op].terminal # None
  <2>1. CASE Performs(m)
    BY <1>3, <2>1, SpinePerforms
  <2>2. CASE Replays(m)
    BY <1>3, <2>2 DEF Replays, vars, CrystalsKeep
  <2> QED
    BY <1>1, <2>1, <2>2 DEF SpineAnswers
<1>5. PICK k : /\ CallOK(k, crystal') /\ call' = [call EXCEPT ![c] = k]
               /\ k.pc \notin {"dispatch", "save"}
  BY <1>2, <1>3, <1>4, ContinueIsOK
<1>6. MessagesOK(late', crystal') /\ call[c].pc \notin {"dispatch", "save"}
  BY <1>2, <1>4, EverythingKept DEF PlatformInv, InCall
<1> QED
  BY <1>2, <1>4, <1>5, <1>6, CallMoves

LEMMA RefusedBySpine ==
    ASSUME PlatformInv, NEW c \in Calls, SpineRefuses(c)
    PROVE  PlatformInv'
<1>1. /\ Continue(c, FALSE) /\ InCall(c)
      /\ crystal' = crystal /\ late' = late /\ store' = store /\ paid' = paid /\ suspect' = suspect
  BY DEF SpineRefuses, CallFrame, vars
<1>2. SpineOK(crystal') /\ CrystalsKeep(crystal, crystal') /\ MessagesOK(late', crystal')
  BY <1>1 DEF PlatformInv, GovernedInv, CrystalsKeep
<1>3. PICK k : /\ CallOK(k, crystal') /\ call' = [call EXCEPT ![c] = k]
               /\ k.pc \notin {"dispatch", "save"}
  BY <1>1, <1>2, ContinueIsOK
<1>4. call[c].pc \notin {"dispatch", "save"}
  BY <1>1 DEF InCall
<1> QED
  BY <1>1, <1>2, <1>3, <1>4, CallMoves

(* The answer is lost: the message may arrive later, whatever the request  *)
(* does in the meantime.                                                   *)
LEMMA LostAnswer ==
    ASSUME PlatformInv, NEW c \in Calls, _request_with_retry(c)
    PROVE  PlatformInv'
<1>1. /\ InCall(c) /\ late' = late \cup {Message(c)}
      /\ crystal' = crystal /\ store' = store /\ paid' = paid /\ suspect' = suspect
  BY DEF _request_with_retry, CallFrame, vars
<1>2. MessageOK(Message(c), crystal)
  BY <1>1, MessageIsOK
<1>3. SpineOK(crystal') /\ CrystalsKeep(crystal, crystal') /\ MessagesOK(late', crystal')
  BY <1>1, <1>2 DEF PlatformInv, GovernedInv, CrystalsKeep, MessagesOK
<1>4. call[c].pc \notin {"dispatch", "save"}
  BY <1>1 DEF InCall
<1>5. CASE Continue(c, FALSE)
  <2>1. PICK k : /\ CallOK(k, crystal') /\ call' = [call EXCEPT ![c] = k]
                 /\ k.pc \notin {"dispatch", "save"}
    BY <1>1, <1>3, <1>5, ContinueIsOK
  <2> QED
    BY <1>1, <1>3, <1>4, <2>1, CallMoves
<1>6. CASE call' = [call EXCEPT ![c].tries = @ + 1]
  <2>1. PICK old : old = call[c]
    OBVIOUS
  <2>2. CallOK(old, crystal) /\ old.pc \in {"crystallize", "commit", "strand"}
    BY <1>1, <2>1 DEF PlatformInv, GovernedInv, CallsOK, InCall
  <2>3. PICK k : k = [old EXCEPT !.tries = old.tries + 1]
    OBVIOUS
  <2>4. /\ IsRecord(k, CallFields) /\ k.pc = old.pc /\ k.platform = old.platform
        /\ k.op = old.op /\ k.decision = old.decision /\ k.facets = old.facets
        /\ k.commits = old.commits /\ k.commitFacets = old.commitFacets /\ k.key = old.key
        /\ k.committed = old.committed
    BY <2>2, <2>3 DEF CallOK, IsRecord, CallFields, NoCall
  <2>5. CallOK(k, crystal')
    BY <1>1, <2>2, <2>4 DEF CallOK, Underway, Starting, StartOK
  <2>6. call' = [call EXCEPT ![c] = k]
    BY <1>6, <2>1, <2>3
  <2>7. k.pc \notin {"dispatch", "save"}
    BY <2>2, <2>4
  <2> QED
    BY <1>1, <1>3, <1>4, <2>5, <2>6, <2>7, CallMoves
<1> QED
  BY <1>5, <1>6 DEF _request_with_retry

(* The spine moves and the requests do not: a late message, the clock and  *)
(* the sweep.                                                              *)
LEMMA SpineMovesAlone ==
    ASSUME PlatformInv, SpineOK(crystal'), CrystalsKeep(crystal, crystal'), late' \subseteq late,
           call' = call, store' = store, paid' = paid, suspect' = suspect
    PROVE  PlatformInv'
<1>1. CallsOK(call, crystal') /\ MessagesOK(late, crystal') /\ PaidOK(paid, crystal')
  BY EverythingKept DEF PlatformInv
<1>2. PaymentInv'
  BY PaymentsKept DEF PlatformInv
<1> QED
  BY <1>1, <1>2 DEF PlatformInv, GovernedInv, MessagesOK

LEMMA LateStep ==
    ASSUME PlatformInv, NEW m, LateArrival(m)
    PROVE  PlatformInv'
<1>1. MessageOK(m, crystal) /\ SpineOK(crystal) /\ Performs(m)
  BY DEF PlatformInv, GovernedInv, MessagesOK, LateArrival
<1>2. SpineOK(crystal') /\ CrystalsKeep(crystal, crystal')
  BY <1>1, SpinePerforms
<1> QED
  BY <1>2, SpineMovesAlone DEF LateArrival, CallFrame

LEMMA ReconcilerStep ==
    ASSUME PlatformInv, UNCHANGED platformVars,
           (\E o \in Ops : HorizonPasses(o)) \/ (\E S \in SUBSET Ops : Sweep(S))
    PROVE  PlatformInv'
<1>1. SpineOK(crystal') /\ CrystalsKeep(crystal, crystal')
  <2>1. CASE \E o \in Ops : HorizonPasses(o)
    BY <2>1 DEF HorizonPasses, PlatformInv, GovernedInv, CrystalsKeep
  <2>2. CASE \E S \in SUBSET Ops : Sweep(S)
    BY <2>2, SpineSweeps DEF PlatformInv, GovernedInv
  <2> QED
    BY <2>1, <2>2
<1> QED
  BY <1>1, SpineMovesAlone DEF platformVars

LEMMA AdministrationStep ==
    ASSUME PlatformInv, Administration
    PROVE  PlatformInv'
<1>1. HandlerFrame /\ call' = call
  BY DEF Administration, set_approved_version, approve_deployment, feed_packet, FeedFallsSilent,
         RailCircuitResets, create_asset, ingest
<1>2. crystal' = crystal /\ late' = late /\ store' = store /\ paid' = paid /\ suspect' = suspect
  BY <1>1 DEF HandlerFrame, vars
<1>3. SpineOK(crystal') /\ CrystalsKeep(crystal, crystal')
  BY <1>2 DEF PlatformInv, GovernedInv, CrystalsKeep
<1> QED
  BY <1>1, <1>2, <1>3, SpineMovesAlone

(* Requests end where they are, their messages are still on the way, and   *)
(* the keys of payments that were not recorded are suspect.                *)
LEMMA CrashStep ==
    ASSUME PlatformInv, NEW p, Crash(p)
    PROVE  PlatformInv'
<1>1. PICK lost : lost = {c \in Calls : call[c].platform = p}
  OBVIOUS
<1>2. /\ call' = [c \in Calls |-> IF c \in lost THEN Finished ELSE call[c]]
      /\ late' = late \cup {Message(c) : c \in {d \in lost : InCall(d)}}
      /\ suspect' = suspect \cup {call[c].key : c \in Unrecorded(lost)}
      /\ crystal' = crystal /\ store' = store /\ paid' = paid
  BY <1>1 DEF Crash, vars
<1>3. CallsOK(call', crystal')
  <2>1. \A c \in Calls : CallOK(call'[c], crystal')
    BY <1>2, FinishedCall DEF PlatformInv, GovernedInv, CallsOK
  <2> QED
    BY <1>2, <2>1 DEF CallsOK
<1>4. MessagesOK(late', crystal')
  BY <1>1, <1>2, MessageIsOK DEF PlatformInv, GovernedInv, MessagesOK
<1>5. PaymentInv'
  <2>1. Finished.pc = "done"
    BY FinishedCall
  <2>2. \A d \in Calls : call'[d].pc \in {"dispatch", "save"} => call'[d] = call[d]
    BY <1>2, <2>1
  <2>3. \A d \in Calls : Recording(call[d]) => call'[d] = call[d] \/ call[d].key \in suspect'
    BY <1>2 DEF Recording, Unrecorded
  <2> QED
    BY <1>2, <2>2, <2>3, PaymentsKept DEF PlatformInv
<1> QED
  BY <1>2, <1>3, <1>4, <1>5 DEF PlatformInv, GovernedInv

-----------------------------------------------------------------------------
(***************************************************************************)
(* Payment                                                                 *)
(***************************************************************************)

LEMMA NextPaymentCall ==
    ASSUME PlatformInv, NEW c \in Calls, NEW next, NEW status, NextPayment(c, next, status)
    PROVE  \E k : /\ IsRecord(k, CallFields) /\ k.pc = next /\ k.seen = status
                  /\ k.platform = call[c].platform /\ k.op = call[c].op /\ k.key = call[c].key
                  /\ call' = [call EXCEPT ![c] = k]
<1>1. PICK old : old = call[c]
  OBVIOUS
<1>2. CallOK(old, crystal)
  BY <1>1 DEF PlatformInv, GovernedInv, CallsOK
<1>3. PICK k : k = [old EXCEPT !.pc = next, !.seen = status]
  OBVIOUS
<1>4. /\ IsRecord(k, CallFields) /\ k.pc = next /\ k.seen = status
      /\ k.platform = old.platform /\ k.op = old.op /\ k.key = old.key
  BY <1>2, <1>3 DEF CallOK, IsRecord, CallFields, NoCall
<1>5. call' = [call EXCEPT ![c] = k]
  BY <1>1, <1>3 DEF NextPayment, PlatformInv, GovernedInv, CallsOK
<1> QED
  BY <1>1, <1>4, <1>5

(* The row is read: nothing on record.  Whoever paid under this key before *)
(* is still between its payment and its row, which makes the key suspect.  *)
LEMMA SubmitStep ==
    ASSUME PlatformInv, NEW c \in Calls, submit_payment(c)
    PROVE  PlatformInv'
<1>1. /\ call[c].pc = "pay" /\ crystal' = crystal /\ late' = late /\ store' = store /\ paid' = paid
      /\ suspect' = suspect \cup {call[d].key : d \in Paying(call[c].key)}
  BY DEF submit_payment, PaymentFrame, vars
<1>2. CallOK(call[c], crystal) /\ CallsOK(call, crystal)
  BY DEF PlatformInv, GovernedInv, CallsOK
<1>3. \E k : /\ CallOK(k, crystal) /\ call' = [call EXCEPT ![c] = k]
             /\ k.pc \in {"dispatch", "save"} => k.key = call[c].key
             /\ k.pc = "dispatch" => store[call[c].key] = None
  <2>1. CASE AnswerOnly(c)
    BY <2>1, FinishedCall DEF AnswerOnly
  <2>2. CASE NextPayment(c, "save", "BLOCKED")
    <3>1. PICK k : /\ IsRecord(k, CallFields) /\ k.pc = "save" /\ k.seen = "BLOCKED"
                   /\ k.platform = call[c].platform /\ k.op = call[c].op /\ k.key = call[c].key
                   /\ call' = [call EXCEPT ![c] = k]
      BY <2>2, NextPaymentCall
    <3>2. CallOK(k, crystal)
      BY <1>1, <1>2, <3>1 DEF CallOK, Underway, Starting, PaymentStatus
    <3> QED
      BY <3>1, <3>2
  <2>3. CASE /\ NextPayment(c, "dispatch", None) /\ store[call[c].key] = None
             /\ call[c].decision = "APPROVED" /\ call[c].governed
    <3>1. PICK k : /\ IsRecord(k, CallFields) /\ k.pc = "dispatch"
                   /\ k.platform = call[c].platform /\ k.op = call[c].op /\ k.key = call[c].key
                   /\ call' = [call EXCEPT ![c] = k]
      BY <2>3, NextPaymentCall
    <3>2. Resolved(crystal[call[c].op])
      BY <1>1, <1>2, <2>3 DEF CallOK
    <3>3. CallOK(k, crystal)
      BY <1>1, <1>2, <3>1, <3>2 DEF CallOK, Underway, Starting
    <3> QED
      BY <2>3, <3>1, <3>3
  <2> QED
    BY <2>1, <2>2, <2>3 DEF submit_payment, ExistingPayment, StoreFails
<1>4. PICK k : /\ CallOK(k, crystal) /\ call' = [call EXCEPT ![c] = k]
               /\ k.pc \in {"dispatch", "save"} => k.key = call[c].key
               /\ k.pc = "dispatch" => store[call[c].key] = None
  BY <1>3
<1>5. CallsOK(call', crystal) /\ call'[c] = k /\ \A d \in Calls \ {c} : call'[d] = call[d]
  BY <1>2, <1>4, OneCallMoves
<1>6. /\ suspect \subseteq suspect'
      /\ \A d \in Calls : InWindow(call[d], call[c].key) => call[c].key \in suspect'
  BY <1>1 DEF Paying, InWindow
<1>7. OneInWindow(call', suspect')
  <2> SUFFICES ASSUME NEW d \in Calls, NEW e \in Calls, InWindow(call'[d], call'[d].key),
                      InWindow(call'[e], call'[d].key), call'[d].key \notin suspect'
               PROVE  d = e
    BY DEF OneInWindow
  <2>1. CASE d # c /\ e # c
    BY <1>5, <1>6, <2>1 DEF PlatformInv, PaymentInv, OneInWindow
  <2>2. CASE d = c /\ e # c
    BY <1>4, <1>5, <1>6, <2>2 DEF InWindow
  <2>3. CASE d # c /\ e = c
    BY <1>4, <1>5, <1>6, <2>3 DEF InWindow
  <2> QED
    BY <2>1, <2>2, <2>3
<1>8. NotPaidBefore(call', suspect', paid')
  <2> SUFFICES ASSUME NEW d \in Calls, NEW p \in paid, call'[d].pc = "dispatch",
                      call'[d].key \notin suspect', p.key = call'[d].key
               PROVE  FALSE
    BY <1>1 DEF NotPaidBefore
  <2>1. CASE d # c
    BY <1>5, <1>6, <2>1 DEF PlatformInv, PaymentInv, NotPaidBefore
  <2>2. CASE d = c
    <3>1. p.key = call[c].key /\ store[p.key] = None /\ p.key \notin suspect
      BY <1>4, <1>5, <1>6, <2>2
    <3>2. PICK e \in Calls : call[e].pc = "save" /\ call[e].key = p.key
      BY <3>1 DEF PlatformInv, PaymentInv, PaidIsRecorded, Recording
    <3> QED
      BY <1>6, <2>2, <1>5, <3>1, <3>2 DEF InWindow
  <2> QED
    BY <2>1, <2>2
<1>9. PaidIsRecorded(call', suspect', paid', store')
  <2>1. \A d \in Calls : Recording(call[d]) => call'[d] = call[d]
    BY <1>1, <1>5 DEF Recording
  <2> QED
    BY <1>1, <1>6, <2>1 DEF PlatformInv, PaymentInv, PaidIsRecorded
<1>10. PaidOncePerKey'
  BY <1>1, <1>6 DEF PlatformInv, PaymentInv, PaidOncePerKey
<1>11. GovernedInv'
  BY <1>1, <1>5 DEF PlatformInv, GovernedInv
<1> QED
  BY <1>1, <1>7, <1>8, <1>9, <1>10, <1>11 DEF PlatformInv, PaymentInv

(* The bank pays, or not, and answers, or not.                             *)
LEMMA DispatchStep ==
    ASSUME PlatformInv, NEW c \in Calls, dispatch_payment(c)
    PROVE  PlatformInv'
<1>1. /\ call[c].pc = "dispatch" /\ crystal' = crystal /\ late' = late /\ store' = store
      /\ suspect' = suspect
  BY DEF dispatch_payment, PaymentFrame, vars
<1>2. CallOK(call[c], crystal) /\ CallsOK(call, crystal)
  BY DEF PlatformInv, GovernedInv, CallsOK
<1>3. PICK new : new = [call |-> c, key |-> call[c].key, op |-> call[c].op, amount |-> call[c].reserve]
  OBVIOUS
<1>4. /\ paid' = paid \/ paid' = paid \cup {new}
      /\ \E status \in PaymentStatus \ {"BLOCKED"} : NextPayment(c, "save", status)
  BY <1>3 DEF dispatch_payment, _dispatch_fednow, _dispatch_clearinghouse, BankAnswers, PaymentStatus
<1>5. new.key = call[c].key /\ new.op = call[c].op
  BY <1>3
<1>6. PICK k : /\ IsRecord(k, CallFields) /\ k.pc = "save" /\ k.seen \in PaymentStatus \ {"BLOCKED"}
               /\ k.platform = call[c].platform /\ k.op = call[c].op /\ k.key = call[c].key
               /\ call' = [call EXCEPT ![c] = k]
  BY <1>4, NextPaymentCall
<1>7. CallOK(k, crystal)
  BY <1>1, <1>2, <1>6 DEF CallOK, Underway, Starting
<1>8. CallsOK(call', crystal) /\ call'[c] = k /\ \A d \in Calls \ {c} : call'[d] = call[d]
  BY <1>2, <1>6, <1>7, OneCallMoves
<1>9. call[c].op \in Ops /\ call[c].key \in Keys /\ Resolved(crystal[call[c].op])
  BY <1>1, <1>2 DEF CallOK, Underway
<1>10. PaidOK(paid', crystal)
  BY <1>4, <1>5, <1>9 DEF PlatformInv, GovernedInv, PaidOK
<1>11. OneInWindow(call', suspect')
  <2>1. \A d \in Calls : /\ call'[d].key = call[d].key
                         /\ call'[d].pc \in {"dispatch", "save"} => call[d].pc \in {"dispatch", "save"}
    BY <1>1, <1>6, <1>8
  <2> QED
    BY <1>1, <2>1 DEF PlatformInv, PaymentInv, OneInWindow, InWindow
<1>12. NotPaidBefore(call', suspect', paid')
  <2> SUFFICES ASSUME NEW d \in Calls, NEW p \in paid', call'[d].pc = "dispatch",
                      call'[d].key \notin suspect', p.key = call'[d].key
               PROVE  FALSE
    BY DEF NotPaidBefore
  <2>1. d # c /\ call'[d] = call[d]
    BY <1>6, <1>8
  <2>2. p \notin paid
    BY <1>1, <2>1 DEF PlatformInv, PaymentInv, NotPaidBefore
  <2>3. p.key = call[c].key
    BY <1>4, <1>5, <2>2
  <2> QED
    BY <1>1, <2>1, <2>3 DEF PlatformInv, PaymentInv, OneInWindow, InWindow
<1>13. PaidIsRecorded(call', suspect', paid', store')
  <2>1. \A d \in Calls : Recording(call[d]) => call'[d] = call[d]
    BY <1>1, <1>8 DEF Recording
  <2>2. \A p \in paid : \/ store'[p.key] # None \/ p.key \in suspect'
                        \/ \E d \in Calls : Recording(call'[d]) /\ call'[d].key = p.key
    BY <1>1, <2>1 DEF PlatformInv, PaymentInv, PaidIsRecorded
  <2>3. Recording(call'[c]) /\ call'[c].key = new.key
    BY <1>5, <1>6, <1>8 DEF Recording
  <2> QED
    BY <1>4, <2>2, <2>3 DEF PaidIsRecorded
<1>14. PaidOncePerKey'
  <2>1. \A p \in paid : p.key = call[c].key => p.key \in suspect
    BY <1>1 DEF PlatformInv, PaymentInv, NotPaidBefore
  <2> QED
    BY <1>1, <1>4, <1>5, <2>1 DEF PlatformInv, PaymentInv, PaidOncePerKey
<1>15. GovernedInv'
  BY <1>1, <1>8, <1>10 DEF PlatformInv, GovernedInv
<1> QED
  BY <1>1, <1>11, <1>12, <1>13, <1>14, <1>15 DEF PlatformInv, PaymentInv

(* The row is written, or the write fails and the key is suspect if the    *)
(* bank may have paid; either way the request leaves the window.           *)
LEMMA SaveStep ==
    ASSUME PlatformInv, NEW c \in Calls, save(c)
    PROVE  PlatformInv'
<1>1. /\ call[c].pc = "save" /\ crystal' = crystal /\ late' = late /\ paid' = paid
      /\ call' = [call EXCEPT ![c] = Finished]
  BY DEF save, AnswerOnly, PaymentFrame, vars
<1>2. CallOK(call[c], crystal) /\ CallsOK(call, crystal)
  BY DEF PlatformInv, GovernedInv, CallsOK
<1>3. call[c].seen # None /\ call[c].key \in Keys
  BY <1>1, <1>2, NoneIsApart DEF CallOK
<1>4. CallsOK(call', crystal) /\ call'[c] = Finished /\ \A d \in Calls \ {c} : call'[d] = call[d]
  BY <1>1, <1>2, FinishedCall, OneCallMoves
<1>5. \A d \in Calls : call'[d].pc \in {"dispatch", "save"} => call'[d] = call[d]
  BY <1>4, FinishedCall
<1>6. GovernedInv'
  BY <1>1, <1>4 DEF PlatformInv, GovernedInv
<1>7. CASE store' = [store EXCEPT ![call[c].key] = call[c].seen] /\ suspect' = suspect
  <2>1. /\ store' = [k \in Keys |-> store'[k]] /\ store'[call[c].key] # None
        /\ \A k \in Keys : store[k] # None => store'[k] # None
    <3>1. DOMAIN store = Keys
      BY DEF PlatformInv, PaymentInv
    <3> QED
      BY <1>3, <1>7, <3>1
  <2>2. OneInWindow(call', suspect')
    BY <1>5, <1>7 DEF PlatformInv, PaymentInv, OneInWindow, InWindow
  <2>3. NotPaidBefore(call', suspect', paid')
    BY <1>1, <1>5, <1>7 DEF PlatformInv, PaymentInv, NotPaidBefore
  <2>4. PaidIsRecorded(call', suspect', paid', store')
    <3> SUFFICES ASSUME NEW p \in paid, store'[p.key] = None, p.key \notin suspect
                 PROVE  \E d \in Calls : Recording(call'[d]) /\ call'[d].key = p.key
      BY <1>1, <1>7 DEF PaidIsRecorded
    <3>1. p.key \in Keys
      BY DEF PlatformInv, GovernedInv, PaidOK
    <3>2. PICK d \in Calls : Recording(call[d]) /\ call[d].key = p.key
      BY <2>1, <3>1 DEF PlatformInv, PaymentInv, PaidIsRecorded
    <3>3. d # c
      BY <2>1, <3>2
    <3> QED
      BY <1>4, <3>2, <3>3
  <2>5. PaidOncePerKey'
    BY <1>1, <1>7 DEF PlatformInv, PaymentInv, PaidOncePerKey
  <2> QED
    BY <1>6, <2>1, <2>2, <2>3, <2>4, <2>5 DEF PlatformInv, PaymentInv
<1>8. CASE store' = store /\ suspect' = suspect \cup {call[d].key : d \in Unrecorded({c})}
  <2>1. \A d \in Calls : Recording(call[d]) => call'[d] = call[d] \/ call[d].key \in suspect'
    BY <1>4, <1>8 DEF Recording, Unrecorded
  <2>2. PaymentInv'
    BY <1>1, <1>5, <1>8, <2>1, PaymentsKept DEF PlatformInv
  <2> QED
    BY <1>6, <2>2 DEF PlatformInv
<1> QED
  BY <1>7, <1>8 DEF save

-----------------------------------------------------------------------------
(***************************************************************************)
(* The theorems                                                            *)
(***************************************************************************)

LEMMA PlatformInitially == PlatformInit => PlatformInv
<1> SUFFICES ASSUME PlatformInit PROVE PlatformInv
  OBVIOUS
<1>1. /\ crystal = [o \in Ops |-> NoCrystal] /\ call = [c \in Calls |-> NoCall] /\ late = {}
      /\ store = [k \in Keys |-> None] /\ paid = {} /\ suspect = {}
  BY DEF PlatformInit, Init
<1>2. CrystalOK(NoCrystal)
  <2>1. /\ IsRecord(NoCrystal, CrystalFields) /\ NoCrystal.status = "NONE"
        /\ NoCrystal.platform = None
    BY DEF NoCrystal, CrystalFields, IsRecord
  <2> QED
    BY <2>1, NoneIsApart, PlatformNames DEF CrystalOK
<1>3. SpineOK(crystal)
  BY <1>1, <1>2 DEF SpineOK
<1>4. CallsOK(call, crystal)
  BY <1>1, IdleCall DEF CallsOK
<1>5. \A c \in Calls : call[c].pc = "idle"
  BY <1>1, IdleCall
<1>6. PaymentInv
  BY <1>1, <1>5 DEF PaymentInv, OneInWindow, InWindow, NotPaidBefore, PaidIsRecorded, PaidOncePerKey
<1> QED
  BY <1>1, <1>3, <1>4, <1>6 DEF PlatformInv, GovernedInv, MessagesOK, PaidOK

LEMMA PlatformStep == PlatformInv /\ [PlatformNext]_allVars => PlatformInv'
<1> SUFFICES ASSUME PlatformInv, [PlatformNext]_allVars PROVE PlatformInv'
  OBVIOUS
<1>1. ASSUME NEW c \in Calls, CallStep(c) PROVE PlatformInv'
  BY <1>1, HandlerStep, ScoreStep, RecordStep, AnswerFromSpine, RefusedBySpine, LostAnswer,
     SubmitStep, DispatchStep, SaveStep DEF CallStep
<1>2. CASE Administration
  BY <1>2, AdministrationStep
<1>3. CASE \E m \in late : LateArrival(m)
  BY <1>3, LateStep
<1>4. CASE \E p \in scenario.platforms : Crash(p)
  BY <1>4, CrashStep
<1>5. CASE /\ (\E o \in Ops : HorizonPasses(o)) \/ (\E S \in SUBSET Ops : Sweep(S))
           /\ UNCHANGED platformVars
  BY <1>5, ReconcilerStep
<1>6. CASE UNCHANGED allVars
  <2>1. /\ crystal' = crystal /\ call' = call /\ late' = late
        /\ store' = store /\ paid' = paid /\ suspect' = suspect
    BY <1>6 DEF allVars, vars, platformVars
  <2> QED
    BY <2>1, SpineMovesAlone DEF PlatformInv, GovernedInv, CrystalsKeep
<1> QED
  BY <1>1, <1>2, <1>3, <1>4, <1>5, <1>6 DEF PlatformNext

(* Where every request stands, what the spine knows of its operation.      *)
THEOREM PlatformInvariant == PlatformSpec => []PlatformInv
<1>1. PlatformInit => PlatformInv
  BY PlatformInitially
<1>2. PlatformInv /\ [PlatformNext]_allVars => PlatformInv'
  BY PlatformStep
<1> QED
  BY <1>1, <1>2, PTL DEF PlatformSpec

(* However the evaluations of an operation are retried, raced or delayed,  *)
(* the spine commits it only under a decision of its platform that calls   *)
(* for a commit, or with an exposure of 0 for a wire that was held.        *)
THEOREM CommitsWereApproved == PlatformSpec => []CommittedWasApproved
<1>1. PlatformInv => CommittedWasApproved
  BY DEF PlatformInv, GovernedInv, SpineOK, CrystalOK, CommitsUnder, CommittedWasApproved
<1> QED
  BY <1>1, PlatformInvariant, PTL

(* claim_gate pays only a claim whose crystal the spine has resolved.      *)
THEOREM PaymentsAreResolved == PlatformSpec => []PaidIsResolved
<1>1. PlatformInv => PaidIsResolved
  BY DEF PlatformInv, GovernedInv, PaidOK, Resolved, PaidIsResolved
<1> QED
  BY <1>1, PlatformInvariant, PTL

(* A key is paid twice only if requests overlapped between the read and    *)
(* the write of its row, or one of them paid and then crashed or failed to *)
(* write it.                                                               *)
THEOREM KeysArePaidOnce == PlatformSpec => []PaidOncePerKey
<1>1. PlatformInv => PaidOncePerKey
  BY DEF PlatformInv, PaymentInv
<1> QED
  BY <1>1, PlatformInvariant, PTL
=============================================================================
