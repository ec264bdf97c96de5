---------------------------- MODULE GovernedHolds ----------------------------
(***************************************************************************)
(* What every governor promises about money, without tables, statuses,     *)
(* audit rows, attempts, clocks or facets: an operation takes a hold out   *)
(* of its owner's balance, and the hold ends once, given back or turned    *)
(* into a charge.                                                          *)
(*                                                                         *)
(* EscrowLedger (the sidecar and the reconciler of ModelGovernor) and      *)
(* CrystalCommit (the finance, insurance and cybersecurity spines) both    *)
(* implement this specification.                                           *)
(***************************************************************************)
EXTENDS LedgerSums

CONSTANTS
    NumOps,  \* operations are the numbers 1..NumOps
    Owners,  \* who holds are taken from
    Funds,   \* the balances to begin with
    None     \* nobody

VARIABLES
    balance, \* what each owner can still spend
    hold     \* of each operation: its state, its owner, what it takes out of the balance

vars == <<balance, hold>>

(* A hold is "free" before it is asked for and "held" while it may still   *)
(* be given back.  It is "pinned" when nobody knows whether the money was  *)
(* spent: it stays until somebody says what it cost.  It ends "released"   *)
(* or "charged".                                                           *)
Init ==
    /\ balance = Funds
    /\ hold = [o \in 1..NumOps |-> [state |-> "free", owner |-> None, amount |-> 0]]

(* A hold never exceeds the balance it is taken from.                      *)
Place(o, u, a) ==
    /\ hold[o].state = "free"
    /\ balance' = [balance EXCEPT ![u] = @ - a]
    /\ hold' = [hold EXCEPT ![o] = [state |-> "held", owner |-> u, amount |-> a]]

(* What giving back the holds of R adds to a balance.                      *)
Returned(R, u) ==
    SumTo([o \in 1..NumOps |->
             IF o \in R /\ hold[o].owner = u THEN hold[o].amount ELSE 0], NumOps)

(* In one step, some holds are given back and others are pinned; a pinned  *)
(* hold is never given back.                                               *)
Resolve(R, P) ==
    /\ \A o \in R \cup P : hold[o].state = "held"
    /\ R \cap P = {}
    /\ balance' = [u \in Owners |-> balance[u] + Returned(R, u)]
    /\ hold' = [o \in 1..NumOps |->
                  IF o \in R
                  THEN [state |-> "released", owner |-> hold[o].owner, amount |-> 0]
                  ELSE IF o \in P
                       THEN [state |-> "pinned", owner |-> hold[o].owner, amount |-> hold[o].amount]
                       ELSE hold[o]]

(* The cost of the operation replaces what it held; after a release there  *)
(* is nothing left to replace and the balance pays in full.                *)
Charge(o, c) ==
    /\ hold[o].state \in {"held", "pinned", "released"}
    /\ balance' = [balance EXCEPT ![hold[o].owner] = @ + hold[o].amount - c]
    /\ hold' = [hold EXCEPT ![o] =
                  [state |-> "charged", owner |-> hold[o].owner, amount |-> c]]

Placed == {o \in 1..NumOps : hold[o].state # "free"}

Next ==
    \/ \E o \in 1..NumOps, u \in Owners : \E a \in 0..balance[u] : Place(o, u, a)
    \/ \E R, P \in SUBSET (1..NumOps) : Resolve(R, P)
    \/ \E o \in Placed : \E c \in 0..(balance[hold[o].owner] + hold[o].amount) : Charge(o, c)

Spec == Init /\ [][Next]_vars
=============================================================================
