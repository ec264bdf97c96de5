------------------------- MODULE MCPlatformOperations -------------------------
(* Small instances of PlatformOperations for TLC.  A scenario is a governor *)
(* with the platforms that are in use: a claim with the freeze that blocks  *)
(* it, pairs that a mesh rule connects, and the others alone.  Amounts are  *)
(* hundredths of a unit.                                                    *)
EXTENDS PlatformOperations

CONSTANTS carrier, k1

Insurance(ps) == [governor |-> "insurance", platforms |-> ps, rail |-> "live"]
Cyber(ps) == [governor |-> "cybersecurity", platforms |-> ps, rail |-> "live"]
Finance(ps, rail) == [governor |-> "finance", platforms |-> ps, rail |-> rail]

MCScenarios ==
    {Insurance({"claim_gate", "model_risk_freeze"}), Insurance({"bind_authority", "underwriting_govern"}),
     Insurance({"reserve_reconcile", "indemnity_pay_gate"}), Cyber({"posture_reconcile", "egress_govern"}),
     Cyber({"identity_govern", "incident_response_gate"}),
     Finance({"algofreeze", "wire_match"}, "live"),
     Finance({"credit_govern"}, "live"), Finance({"credit_govern"}, "auto")}
      \cup {Insurance({p}) : p \in {"parametric_oracle", "spatial_twin", "subrogation_graph",
                                    "battery_liability", "zk_claim_audit"}}
      \cup {Cyber({p}) : p \in {"threat_proxy", "compliance_logger", "content_guard",
                                "witness_bridge", "lineage_ingest"}}
      \cup {Finance({p}, "live") : p \in {"subledger_sync", "asset_ledger"}}
MCClaims == {Insurance({"claim_gate"})}
MCWires == {Finance({"wire_match"}, "live")}

MCGovernors == {"finance", "insurance", "cybersecurity"}
MCInsurance == {"insurance"}
MCFinance == {"finance"}
MCPlatforms == DOMAIN commit_decisions
MCTiers == {"critical", "high", "standard"}
MCDecisions ==
    UNION {commit_decisions[p] : p \in MCPlatforms}
      \cup {"REFERRED", "DECLINED", "HELD", "BLOCKED", "FROZEN", "DRIFT", "VIOLATION", "DENIED"}
MCFacets == [decision: MCDecisions, amount: 0..300, nonce: 0..NumCalls]
MCPolicy == [p \in Policies |-> [max |-> 0, class |-> "high", autoExpire |-> FALSE, enabled |-> TRUE]]
MCDefaultPolicy == [p \in Platforms |-> None]
MCInitialBalance == [a \in Accounts |-> 150]
MCDriftRatio == <<5, 100>>

(* The seeded rows of crystal_mesh_rules.                                   *)
Rule(parent, decision, child) ==
    [parent |-> parent, facets |-> {f \in MCFacets : f.decision = decision}, child |-> child]
MCMeshRules ==
    {Rule("model_risk_freeze", "FROZEN", "claim_gate"),
     Rule("model_risk_freeze", "FROZEN", "indemnity_pay_gate"),
     Rule("claim_gate", "REFERRED", "indemnity_pay_gate"),
     Rule("underwriting_govern", "VIOLATION", "bind_authority"),
     Rule("reserve_reconcile", "DRIFT", "claim_gate"),
     Rule("reserve_reconcile", "DRIFT", "indemnity_pay_gate"),
     Rule("posture_reconcile", "DRIFT", "egress_govern"),
     Rule("posture_reconcile", "DRIFT", "incident_response_gate"),
     Rule("threat_proxy", "BLOCKED", "egress_govern"),
     Rule("threat_proxy", "BLOCKED", "incident_response_gate"),
     Rule("identity_govern", "VIOLATION", "incident_response_gate"),
     Rule("identity_govern", "VIOLATION", "egress_govern"),
     Rule("egress_govern", "DENIED", "incident_response_gate"),
     Rule("content_guard", "BLOCKED", "egress_govern"),
     Rule("content_guard", "BLOCKED", "incident_response_gate"),
     Rule("lineage_ingest", "CRITICAL", "egress_govern"),
     Rule("algofreeze", "FROZEN", "wire_match")}
=============================================================================
