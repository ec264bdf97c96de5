---------------------------- MODULE MCLedgerChain ----------------------------
(* Small instances of the audit chain for TLC. *)
EXTENDS LedgerChain, TLC

\* Writers, verifiers and payloads are interchangeable.
MCChainSymmetry ==
    Permutations(Writers) \cup Permutations(Verifiers) \cup Permutations(Payloads)
=============================================================================
