--------------------------- MODULE MCSiblingChains ---------------------------
(* Small instances of the sibling governors' chains for TLC. *)
EXTENDS SiblingChains, TLC

\* Writers, verifiers and payloads are interchangeable.
MCSiblingSymmetry ==
    Permutations(Writers) \cup Permutations(Verifiers) \cup Permutations(Payloads)
=============================================================================
