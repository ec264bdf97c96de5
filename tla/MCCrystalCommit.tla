--------------------------- MODULE MCCrystalCommit ---------------------------
(* Small instances of CrystalCommit for TLC: the freezes of a desk block   *)
(* the commits of wires, and wires have a policy of high risk by default.  *)
EXTENDS CrystalCommit

CONSTANTS desk, wire, book, frozen, clear, risky

MCGovernors == {"finance", "insurance", "cybersecurity"}
MCFinance == {"finance"}
MCTiers == {"high", "standard"}
MCPolicy ==
    [p \in Policies |-> [max |-> 2, class |-> "high", autoExpire |-> FALSE, enabled |-> TRUE]]
MCDefaultPolicy == [p \in Platforms |-> IF p = wire THEN risky ELSE None]
MCMeshRules == {[parent |-> desk, facets |-> {frozen}, child |-> wire]}
MCInitialBalance == [a \in Accounts |-> 3]
MCDriftRatio == <<1, 2>>
=============================================================================
