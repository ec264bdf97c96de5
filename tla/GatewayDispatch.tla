--------------------------- MODULE GatewayDispatch ---------------------------
(***************************************************************************)
(* The gateway's reserve, dispatch, settle flow (gateway/app/governance.py)*)
(* composed with the ledger it drives and the sweep that runs beside it.   *)
(*                                                                         *)
(* A call is one execution of execute_governed_dispatch.  It makes three   *)
(* remote calls, each of which may take effect and lose its answer (a      *)
(* timeout, or a gateway that dies): the call then ends as failed and      *)
(* nothing is retried.  Nothing stops two calls from using one key.        *)
(*                                                                         *)
(* As in EscrowLedger, an unused definition directly before another is a   *)
(* faulty variant of it.                                                   *)
(***************************************************************************)
EXTENDS EscrowLedger

CONSTANTS
    Calls,            \* executions of execute_governed_dispatch
    ProviderCosts,    \* what a provider may bill for one call
    DefaultTraceCap,  \* default_trace_cap_amount
    DefaultScopeCaps, \* default_*_budget_amount, per scope
    DefaultScopes     \* the scopes of the default identity and the user

ASSUME GatewayAssumption ==
    /\ ProviderIds = Calls
    /\ ProviderCosts \subseteq Nat
    /\ None \notin ProviderCosts
    /\ DefaultTraceCap \in TraceCaps
    /\ DefaultScopeCaps \in [Scopes -> ScopeCaps]
    /\ DefaultScopes \in ScopeChoices
    /\ ProviderCosts \cup EstimatedCosts \subseteq ActualCosts

VARIABLES
    call,   \* per call: where it is in the flow, and its request
    billed  \* per call: what its provider has billed, None before that

gatewayVars == <<wallet, trace, scope, op, attempt, events, net, loops, incidents,
                 lapsed, call, billed>>

Phases == {"idle", "reserve", "dispatch", "settle", "done", "failed"}

Call ==
    [pc: Phases, key: Ops \cup {None}, user: Users \cup {None},
     trace: Traces \cup {None}, amt: Nat]

GatewayInit ==
    /\ Init
    /\ call = [c \in Calls |->
                 [pc |-> "idle", key |-> None, user |-> None, trace |-> None, amt |-> 0]]
    /\ billed = [c \in Calls |-> None]

(* The reserve payload names no caps and no identity: the sidecar fills in *)
(* its defaults.                                                           *)
ReservePayload(c) ==
    [user |-> call[c].user, trace |-> call[c].trace, amt |-> call[c].amt,
     cap |-> DefaultTraceCap, scopes |-> DefaultScopes, caps |-> DefaultScopeCaps,
     flagged |-> FALSE, approved |-> FALSE]

(* _fingerprint_reserve_request: the stored request is the same one.       *)
SameFingerprint(c) ==
    LET row == op[call[c].key]
    IN  row.user = call[c].user /\ row.trace = call[c].trace /\ row.amt = call[c].amt

Goto(c, pc) == call' = [call EXCEPT ![c].pc = pc]

Submit(c, key, u, t, amt) ==
    /\ call[c].pc = "idle"
    /\ call' = [call EXCEPT ![c] =
                  [pc |-> "reserve", key |-> key, user |-> u, trace |-> t, amt |-> amt]]
    /\ UNCHANGED <<vars, billed>>

(* POST /reserve commits; the answer may still be lost.                    *)
CallReserve(c) ==
    /\ call[c].pc = "reserve"
    /\ Reserve(call[c].key, ReservePayload(c))
    /\ Goto(c, "dispatch") \/ Goto(c, "failed")
    /\ UNCHANGED billed

(* POST /reserve finds the key: 200 with whatever status the row has.  The *)
(* gateway looks at the HTTP status only.                                  *)
CallReserveReplay(c) ==
    /\ call[c].pc = "reserve"
    /\ op[call[c].key].status # "NONE"
    /\ SameFingerprint(c)
    /\ Goto(c, "dispatch")
    /\ UNCHANGED <<vars, billed>>

(* POST /reserve asks for an approval the gateway has no way to carry.     *)
CallReserveUnapproved(c) ==
    /\ call[c].pc = "reserve"
    /\ ReserveNeedsApproval(call[c].key, ReservePayload(c))
    /\ Goto(c, "failed")
    /\ UNCHANGED billed

(* The provider serves and bills the request; the answer may be lost.      *)
CallProvider(c, cost) ==
    /\ call[c].pc = "dispatch"
    /\ billed' = [billed EXCEPT ![c] = cost]
    /\ Goto(c, "settle") \/ Goto(c, "failed")
    /\ UNCHANGED vars

(* What the gateway reports as the actual cost.                            *)
SettleCost(c) == IF billed[c] <= call[c].amt THEN billed[c] ELSE call[c].amt

(* POST /settle commits; the answer may still be lost.                     *)
CallSettleUnchecked(c) ==
    /\ call[c].pc = "settle"
    /\ FinalizeSettlement(call[c].key, SettleCost(c), None, c) \/ UNCHANGED vars
    /\ Goto(c, "done")
    /\ UNCHANGED billed
CallSettleFirst(c) ==
    /\ call[c].pc = "dispatch"
    /\ FinalizeSettlement(call[c].key, call[c].amt, None, c)
    /\ Goto(c, "done")
    /\ UNCHANGED billed
CallSettle(c) ==
    /\ call[c].pc = "settle"
    /\ call[c].key \in LoadOperation(call[c].key, c)
    /\ FinalizeSettlement(call[c].key, SettleCost(c), None, c)
    /\ Goto(c, "done") \/ Goto(c, "failed")
    /\ UNCHANGED billed

(* A remote call is refused, times out before it takes effect, or the      *)
(* gateway dies.                                                           *)
CallFails(c) ==
    /\ call[c].pc \in {"reserve", "dispatch", "settle"}
    /\ Goto(c, "failed")
    /\ UNCHANGED <<vars, billed>>

GatewayStep ==
    \E c \in Calls :
        \/ \E key \in Ops, u \in Users, t \in Traces, amt \in EstimatedCosts :
               Submit(c, key, u, t, amt)
        \/ CallReserve(c)
        \/ CallReserveReplay(c)
        \/ CallReserveUnapproved(c)
        \/ \E cost \in ProviderCosts : CallProvider(c, cost)
        \/ CallSettle(c)
        \/ CallFails(c)

LedgerStep == (TtlStep \/ SweepStep) /\ UNCHANGED <<call, billed>>

GatewayNext == GatewayStep \/ LedgerStep

GatewaySpec == GatewayInit /\ [][GatewayNext]_gatewayVars

(* The clock runs, and the reconciler's daemon keeps sweeping.             *)
GatewayFairSpec ==
    /\ GatewaySpec
    /\ \A o \in Ops : WF_gatewayVars(TtlElapses(o) /\ UNCHANGED <<call, billed>>)
    /\ WF_gatewayVars(SweepAll /\ UNCHANGED <<call, billed>>)

-----------------------------------------------------------------------------
(***************************************************************************)
(* Properties                                                              *)
(***************************************************************************)

GatewayTypeOK ==
    /\ call \in [Calls -> Call]
    /\ billed \in [Calls -> ProviderCosts \cup {None}]
    /\ \A c \in Calls : call[c].pc # "idle" =>
           call[c].key \in Ops /\ call[c].user \in Users /\ call[c].trace \in Traces

(* A client that gets an answer has been charged for exactly that answer:  *)
(* the row is settled under this call's provider id, at its reported cost. *)
(* No other call with the same key, before or after, gets one for free.    *)
AnswersArePaid ==
    \A c \in Calls : call[c].pc = "done" =>
        /\ op[call[c].key].status = "SETTLED"
        /\ op[call[c].key].prid = c
        /\ op[call[c].key].actual = SettleCost(c)

(* A key is only ever charged for a provider call that was made for it,    *)
(* however many calls shared the key and wherever they failed.             *)
ChargedOnlyIfServed ==
    \A o \in Ops : op[o].status = "SETTLED" =>
        \E c \in Calls : op[o].prid = c /\ call[c].key = o /\ billed[c] # None

(* No hold outlives its call for ever: wherever a call fails, its          *)
(* reservation is settled or refunded in the end.                          *)
HoldsAreResolved ==
    \A o \in Ops : op[o].status = "RESERVED" ~> op[o].status \in {"SETTLED", "EXPIRED"}

(* What the docs say and the code does not do.                             *)

(* "Never-dispatched RESERVED rows are refunded" (docs/architecture.md:61) *)
(* and a dispatched operation is IN_FLIGHT (docs/architecture.md:46): an   *)
(* operation whose provider call was billed is not refunded by expiry.     *)
DispatchedIsNotRefunded ==
    \A c \in Calls : billed[c] # None => op[call[c].key].status # "EXPIRED"

(* "Final settlement uses authoritative provider usage where available"    *)
(* (docs/architecture.md:26), and what exceeds the reserve is debited as a *)
(* correction and enforced as drift (docs/architecture.md:53-55): an       *)
(* answer is settled at what its provider billed, not at the estimate.     *)
ProviderCostSettles ==
    \A c \in Calls : call[c].pc = "done" => op[call[c].key].actual = billed[c]

(* "Gateway dispatches upstream only after reservation commit succeeds"    *)
(* (docs/architecture.md:41): a call goes on to its provider only while    *)
(* its operation holds a reservation.                                      *)
DispatchHasAHold ==
    [][\A c \in Calls : call[c].pc = "reserve" /\ call'[c].pc = "dispatch" =>
           op'[call[c].key].status \in Held]_gatewayVars
=============================================================================
