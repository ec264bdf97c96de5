----------------------------- MODULE MCGuardrails -----------------------------
(* Small instances of the guardrails for TLC. *)
EXTENDS Guardrails, TLC

CONSTANT s1

\* Both workers are threads of one process.
MCHost == [w \in Workers |-> s1]
=============================================================================
