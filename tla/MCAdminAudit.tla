----------------------------- MODULE MCAdminAudit -----------------------------
(* Small instances of the operator actions and their log for TLC. *)
EXTENDS AdminAudit, TLC

\* The sidecars are interchangeable.
MCAdminSymmetry == Permutations(Admins)
=============================================================================
