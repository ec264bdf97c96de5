---------------------------- MODULE PlatformGates ----------------------------
(***************************************************************************)
(* The decision functions of the sibling governors' platforms, as          *)
(* operators: what each gate decides for the inputs of one request, and    *)
(* the amount it puts up for reservation.  A gate is a list of early       *)
(* returns: the first rule whose guard holds decides.                      *)
(*                                                                         *)
(* Scores and ratios are in hundredths, amounts in hundredths of a unit;   *)
(* a text that is only compared or searched is the outcome of the          *)
(* comparison.  The sets of inputs take one value on each side of every    *)
(* threshold.                                                              *)
(***************************************************************************)
EXTENDS Integers, Sequences, FiniteSets, FiniteSetsExt

FirstMatch(rules, otherwise) ==
    LET holds == {k \in DOMAIN rules : rules[k][1]}
    IN  IF holds = {} THEN otherwise ELSE rules[Min(holds)][2]

Grant(decision, amount) == [decision |-> decision, amount |-> amount]

-----------------------------------------------------------------------------
(***************************************************************************)
(* Insurance: claim_gate.  Fraud signals and the siu flag first, then the  *)
(* terms of the policy.                                                    *)
(***************************************************************************)

FRAUD_SIGNAL_WEIGHTS ==
    [duplicate_claim |-> 35, inconsistent_statement |-> 25, staged_loss_pattern |-> 40,
     medical_provider_alert |-> 30, geographic_anomaly |-> 20, siu_referral |-> 100,
     prior_fraud_conviction |-> 50, late_reporting |-> 15]

WeightOf(s) == IF s \in DOMAIN FRAUD_SIGNAL_WEIGHTS THEN FRAUD_SIGNAL_WEIGHTS[s] ELSE 10

score_fraud_signals(signals) == Min({100, MapThenSumSet(WeightOf, signals)})

(* The flag alone refers the claim; beside other signals it weighs in full.*)
evaluate_siu(flag, signals) ==
    LET score == score_fraud_signals(signals \cup IF flag THEN {"siu_referral"} ELSE {})
    IN  FirstMatch(<< <<flag /\ signals = {}, "REFERRED">>,
                      <<score >= 70, "BLOCKED">>,
                      <<score >= 35, "REFERRED">> >>, "CLEARED")

evaluate_policy_rules(policy, payout, lossInPeriod, flag, signals) ==
    LET left == policy.aggregate_limit - policy.aggregate_used
        net  == Max({0, payout - policy.deductible})
    IN  FirstMatch(
          << <<flag \/ "siu_referral" \in signals, Grant("REFERRED", 0)>>,
             <<~policy.coverage_active, Grant("DECLINED", 0)>>,
             <<policy.regulatory_hold, Grant("HELD", 0)>>,
             <<~lossInPeriod, Grant("DECLINED", 0)>>,
             <<left <= 0, Grant("DECLINED", 0)>>,
             <<payout > policy.per_occurrence_limit, Grant("HELD", 0)>>,
             <<net > left, Grant("HELD", 0)>>,
             <<net > policy.auto_approve_limit, Grant("HELD", net)>>,
             <<100 - 15 * Cardinality(signals) < 60, Grant("REFERRED", 0)>> >>,
          Grant("APPROVED", net))

evaluate_payout(i) ==
    LET siu == evaluate_siu(i.flag, i.signals)
    IN  FirstMatch(<< <<siu = "REFERRED", Grant("REFERRED", 0)>>,
                      <<siu = "BLOCKED", Grant("DECLINED", 0)>> >>,
                   evaluate_policy_rules(i.policy, i.payout, i.inPeriod, i.flag, i.signals))

PolicyContext ==
    [aggregate_limit |-> 300, aggregate_used |-> 200, per_occurrence_limit |-> 400,
     deductible |-> 50, auto_approve_limit |-> 80, coverage_active |-> TRUE,
     regulatory_hold |-> FALSE]

DEFAULT_POLICIES ==
    {PolicyContext, [PolicyContext EXCEPT !.coverage_active = FALSE],
     [PolicyContext EXCEPT !.regulatory_hold = TRUE],
     [PolicyContext EXCEPT !.aggregate_used = 300]}

PayoutInputs ==
    [flag: BOOLEAN,
     signals: {{}, {"late_reporting"}, {"duplicate_claim"}, {"siu_referral"},
               {"unlisted_1", "unlisted_2", "unlisted_3"}},
     policy: DEFAULT_POLICIES, payout: {100, 140, 200, 500}, inPeriod: BOOLEAN]

-----------------------------------------------------------------------------
(***************************************************************************)
(* Insurance: the other gates                                              *)
(***************************************************************************)

evaluate_bind(i) ==
    FirstMatch(<< <<i.sanctions, Grant("DECLINED", i.premium)>>,
                  <<i.review, Grant("REFERRED", i.premium)>>,
                  <<i.limit <= 0, Grant("DECLINED", i.premium)>>,
                  <<i.premium > 100, Grant("HELD", i.premium)>> >>,
               Grant("BOUND", i.premium))
BindInputs == [sanctions: BOOLEAN, review: BOOLEAN, limit: 0..1, premium: {100, 101}]

(* A request whose attestation does not verify is refused before the gate. *)
evaluate_trigger(i) ==
    FirstMatch(<< <<i.metric < i.threshold, Grant("BELOW_THRESHOLD", 0)>> >>,
               Grant("TRIGGERED", i.payout))
TriggerInputs == [metric: 0..1, threshold: {1}, payout: {50, 100}]

evaluate_spatial_damage(i) ==
    LET net == Max({0, i.damage - i.deductible})
    IN  FirstMatch(<< <<~i.dense \/ i.stale \/ i.confidence < 75, Grant("REFERRED", 0)>>,
                      <<net <= 0, Grant("DECLINED", 0)>>,
                      <<net > i.limit, Grant("HELD", 0)>> >>,
                   Grant("APPROVED", net))
SpatialInputs ==
    [dense: BOOLEAN, stale: BOOLEAN, confidence: {74, 75}, damage: {50, 150, 250},
     deductible: {50}, limit: {100}]

(* Liabilities that add up to more than the whole are scaled down to it.   *)
_normalize_defendants(shares) ==
    LET total == MapThenSumSet(LAMBDA d : shares[d], DOMAIN shares)
    IN  IF total <= 100 THEN shares ELSE [d \in DOMAIN shares |-> (100 * shares[d]) \div total]

evaluate_subrogation_graph(i) ==
    LET shares   == _normalize_defendants(i.defendants)
        score    == Max({0} \cup {shares[d] : d \in DOMAIN shares})
        recovery == Max({0, (i.loss * score) \div 100 - i.salvage})
    IN  FirstMatch(<< <<i.expired, Grant("REFERRED", 0)>>,
                      <<DOMAIN i.defendants = {}, Grant("NO_RECOVERY", 0)>>,
                      <<score < 25, Grant("REFERRED", 0)>>,
                      <<recovery <= 0, Grant("NO_RECOVERY", 0)>> >>,
                   Grant("RECOVERY_APPROVED", recovery))
GraphInputs ==
    [defendants: {<<>>, <<20>>, <<60>>, <<100, 100>>}, loss: {100}, salvage: {0, 60},
     expired: BOOLEAN]

evaluate_indemnity_payment(i) ==
    LET score == (75 * i.overlap) \div 100 + IF i.account THEN 25 ELSE 0
    IN  FirstMatch(<< <<i.alert, Grant("BLOCKED", 0)>>,
                      <<100 * i.amount > 125 * i.expected, Grant("HELD", 0)>>,
                      <<score < 65, Grant("HELD", 0)>> >>,
                   Grant("APPROVED", i.amount))
IndemnityInputs ==
    [alert: BOOLEAN, overlap: {0, 50, 100}, account: BOOLEAN, amount: {50, 100, 126},
     expected: {100}]

evaluate_underwriting_fairness(i) ==
    LET largest == Max({0} \cup {i.deltas[a] : a \in DOMAIN i.deltas})
    IN  FirstMatch(<< <<i.deltas.protected > 15, Grant("VIOLATION", 0)>>,
                      <<largest > 12, Grant("REFERRED", i.limit)>> >>,
                   Grant("COMPLIANT", i.limit))
UnderwriteInputs ==
    [deltas: [protected: {0, 13, 16}, other: {0, 13}], limit: {100}]

evaluate_reserve_match(i) ==
    LET drift     == Max({i.case - i.reference, i.reference - i.case})
        threshold == Max({100, (i.reference * i.tolerance) \div 100})
    IN  FirstMatch(<< <<i.reference <= 0, Grant("REFERRED", 0)>>,
                      <<drift > threshold, Grant("DRIFT", 0)>>,
                      <<2 * drift > threshold, Grant("WARN", i.case)>> >>,
                   Grant("MATCHED", i.case))
ReserveInputs == [case: {100, 160, 300}, reference: {0, 100}, tolerance: {1, 2}]

evaluate_battery_liability(i) ==
    FirstMatch(<< <<i.thermal \/ i.health < 70, Grant("APPROVED", i.repair)>>,
                  <<i.mileage > 150, Grant("HELD", 0)>> >>,
               Grant("DECLINED", 0))
BatteryInputs == [thermal: BOOLEAN, health: {69, 70}, mileage: {150, 151}, repair: {100}]

-----------------------------------------------------------------------------
(***************************************************************************)
(* Cybersecurity                                                           *)
(***************************************************************************)

evaluate_identity(i) ==
    FirstMatch(<< <<~i.wellFormed, "VIOLATION">>, <<i.matchesWorkload, "VERIFIED">> >>,
               "VIOLATION")
IdentityInputs == [wellFormed: BOOLEAN, matchesWorkload: BOOLEAN]

evaluate_session(i) ==
    IF i.user /\ i.fingerprint /\ i.address THEN "AUTHORIZED" ELSE "STRANDED"
SessionInputs == [user: BOOLEAN, fingerprint: BOOLEAN, address: BOOLEAN]

signal_weight == [prompt_injection |-> 35, tool_abuse |-> 40, credential_spray |-> 50,
                  lateral_movement |-> 45, exfil_pattern |-> 55]

score_threat(i) ==
    Min({100, 10 + (IF i.sensitive THEN 25 ELSE 0) + (30 * Min({i.entropy, 100})) \div 100
              + MapThenSumSet(LAMBDA s : IF s \in DOMAIN signal_weight THEN signal_weight[s] ELSE 15,
                              i.signals)})
ThreatInputs ==
    [sensitive: BOOLEAN, entropy: {0, 200},
     signals: {{}, {"prompt_injection"}, {"unlisted"}, {"prompt_injection", "tool_abuse"}}]

evaluate_posture(i) == IF i.cves >= 1 \/ i.lag > 30 THEN "DRIFT" ELSE "MATCHED"
PostureInputs == [cves: {0, 1}, lag: {30, 31}]

evaluate_incident(i) ==
    FirstMatch(<< <<i.severity \notin {"LOW", "MEDIUM", "HIGH", "CRITICAL"}, "DENIED">>,
                  <<i.highRisk /\ i.severity # "CRITICAL", "DENIED">>,
                  <<i.highRisk /\ ~i.approver, "DENIED">> >>, "AUTHORIZED")
IncidentInputs ==
    [severity: {"LOW", "CRITICAL", "unknown"}, highRisk: BOOLEAN, approver: BOOLEAN]

evaluate_egress(i) == IF i.host \in i.allowlist THEN "ALLOWED" ELSE "DENIED"
EgressInputs == [host: {"listed", "other"}, allowlist: {{"listed"}}]

evaluate_content(i) ==
    FirstMatch(<< <<~i.principal, "BLOCKED">>,
                  <<i.matched = {}, "ALLOWED">>,
                  <<i.matched \cap {"secret_api_key", "pii_ssn"} # {}, "BLOCKED">>,
                  <<i.classification \in {"restricted", "confidential"}, "BLOCKED">>,
                  <<i.channel \in {"publish", "email", "api"}, "REDACTED">> >>, "BLOCKED")
ContentInputs ==
    [principal: BOOLEAN, matched: SUBSET {"secret_api_key", "pii_ssn", "pii_pan"},
     classification: {"internal", "restricted"}, channel: {"publish", "chat"}]

(* What the exports of the sensors say of an edge, and which edges are     *)
(* sealed: the rule names "shell", another of the critical tokens, or none.*)
_from_falco(i) ==
    [type |-> "process_exec", rule |-> i.rule,
     severity |-> IF i.urgent /\ i.rule = "shell" THEN "critical" ELSE "standard"]
_from_tetragon(i) ==
    IF i.connect THEN [type |-> "socket_connect", rule |-> "none", severity |-> "critical"]
    ELSE [type |-> "process_exec", rule |-> "none", severity |-> "standard"]
_from_generic(i) ==
    [type |-> "generic", rule |-> i.rule,
     severity |-> IF i.urgent THEN "critical" ELSE "standard"]
normalize_lineage(i) ==
    CASE i.source = "falco" -> _from_falco(i)
      [] i.source = "tetragon" -> _from_tetragon(i)
      [] OTHER -> _from_generic(i)
is_critical_edge(edge) ==
    edge.severity = "critical" \/ edge.type = "socket_connect" \/ edge.rule = "token"
LineageInputs ==
    [source: {"falco", "tetragon", "auditd"}, rule: {"shell", "token", "none"},
     urgent: BOOLEAN, connect: BOOLEAN]

witnessed(i) == i.critical \/ i.erasure
WitnessInputs == [critical: BOOLEAN, erasure: BOOLEAN]

-----------------------------------------------------------------------------
(***************************************************************************)
(* Finance                                                                 *)
(***************************************************************************)

evaluate_wire(i) ==
    LET score == (70 * i.overlap) \div 100 + IF i.account THEN 30 ELSE 0
    IN  IF 100 * i.amount > 150 * i.expected \/ score < 60 THEN Grant("HELD", 0)
        ELSE Grant("APPROVED", i.amount)
WireInputs ==
    [overlap: {0, 40, 100}, account: BOOLEAN, amount: {100, 151}, expected: {100}]

find_mirror(i) == i.reversed /\ i.currency /\ i.within
MirrorInputs == [reversed: BOOLEAN, currency: BOOLEAN, within: BOOLEAN]

-----------------------------------------------------------------------------
(***************************************************************************)
(* What the gates without a state of their own can answer.                 *)
(***************************************************************************)

Decided(decisions) == {Grant(d, 0) : d \in decisions}

Grants ==
    [claim_gate             |-> {evaluate_payout(i) : i \in PayoutInputs},
     bind_authority         |-> {evaluate_bind(i) : i \in BindInputs},
     parametric_oracle      |-> {evaluate_trigger(i) : i \in TriggerInputs},
     spatial_twin           |-> {evaluate_spatial_damage(i) : i \in SpatialInputs},
     subrogation_graph      |-> {evaluate_subrogation_graph(i) : i \in GraphInputs},
     indemnity_pay_gate     |-> {evaluate_indemnity_payment(i) : i \in IndemnityInputs},
     underwriting_govern    |-> {evaluate_underwriting_fairness(i) : i \in UnderwriteInputs},
     reserve_reconcile      |-> {evaluate_reserve_match(i) : i \in ReserveInputs},
     battery_liability      |-> {evaluate_battery_liability(i) : i \in BatteryInputs},
     identity_govern        |-> Decided({evaluate_identity(i) : i \in IdentityInputs}),
     session_arm            |-> Decided({evaluate_session(i) : i \in SessionInputs}),
     threat_proxy           |-> Decided({IF score_threat(i) < 75 THEN "CLEARED" ELSE "BLOCKED" :
                                         i \in ThreatInputs}),
     posture_reconcile      |-> Decided({evaluate_posture(i) : i \in PostureInputs}),
     incident_response_gate |-> Decided({evaluate_incident(i) : i \in IncidentInputs}),
     egress_govern          |-> Decided({evaluate_egress(i) : i \in EgressInputs}),
     content_guard          |-> Decided({evaluate_content(i) : i \in ContentInputs}),
     wire_match             |-> {evaluate_wire(i) : i \in WireInputs}]
=============================================================================
