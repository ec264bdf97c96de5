-------------------------- MODULE ReconcilerDaemon --------------------------
(***************************************************************************)
(* The replicas of the reconciler (reconciler/app/main.py): the daemon     *)
(* loop, the advisory lock that elects the replica that sweeps             *)
(* (reconciler/app/leader.py) and the diagnostic mode the audit after a    *)
(* sweep can enter (sidecar/app/diagnostic_mode.py).  The siblings run     *)
(* loops of their own under lock keys of their own: there a replica that   *)
(* is not the leader sleeps inside its transaction, and finance asks for   *)
(* diagnostic mode only once it has the lock, and audits even then.        *)
(*                                                                         *)
(* The lock belongs to a database backend, not to a replica: it counts how *)
(* often that backend took it, and only that backend can give it back.     *)
(* A deployment says which backends a replica's transactions may run on: a *)
(* single one of its own on a direct connection, any of the pool behind    *)
(* PgBouncer in transaction mode.                                          *)
(*                                                                         *)
(* As in EscrowLedger, an unused definition directly before another is a   *)
(* faulty variant of it.                                                   *)
(***************************************************************************)
EXTENDS Naturals

CONSTANTS
    Governors, \* a subset of {"ledger", "finance", "insurance", "cybersecurity"}
    Replicas,  \* reconciler processes
    Backends,  \* Postgres server connections
    Deployments, \* the ways replicas may be connected to backends
    MaxFaults, \* model bound: failed turns, crashes, ended backends, outages, bad rows
    MaxHolds,  \* model bound: how often one backend may hold the lock
    None

ASSUME DaemonAssumption ==
    /\ Governors \subseteq {"ledger", "finance", "insurance", "cybersecurity"}
    /\ Deployments \subseteq [Replicas -> SUBSET Backends]
    /\ MaxFaults \in Nat
    /\ MaxHolds \in Nat
    /\ None \notin Backends

VARIABLES
    governor,   \* whose reconciler this is, never changes
    reach,      \* the deployment: the backends each replica may run on, never changes
    pc,         \* per replica: where it is in the loop
    conn,       \* per replica: the backend its open transaction runs on
    holds,      \* per backend: how often it holds the advisory lock
    flag,       \* per replica: the local "active" flag of diagnostic mode
    published,  \* the Redis hash mg:diagnostic_mode is active
    redisUp,    \* Redis answers
    dirty,      \* the audit would find a violation
    due,        \* some row is claimable
    cleared,    \* an operator has cleared diagnostic mode since it was entered
    stale,      \* per replica: sweeps committed since it could see "published"
    faults      \* faults so far

config == <<governor, reach>>
daemonVars ==
    <<config, pc, conn, holds, flag, published, redisUp, dirty, due, cleared, stale, faults>>

Places == {"sleep", "begin", "standby", "leader", "sweep", "audit", "unlock", "down"}

DaemonInit ==
    /\ governor \in Governors
    /\ reach \in Deployments
    /\ pc = [r \in Replicas |-> "sleep"]
    /\ conn = [r \in Replicas |-> None]
    /\ holds = [b \in Backends |-> 0]
    /\ flag = [r \in Replicas |-> FALSE]
    /\ published = FALSE
    /\ redisUp = TRUE
    /\ dirty = FALSE
    /\ due = FALSE
    /\ cleared = FALSE
    /\ stale = [r \in Replicas |-> 0]
    /\ faults = 0

Fault ==
    /\ faults < MaxFaults
    /\ faults' = faults + 1

Free(b) == \A r \in Replicas : conn[r] # b

(* is_diagnostic_mode, as the replica r sees it.                           *)
IsDiagnostic(r) == (redisUp /\ published) \/ flag[r]

-----------------------------------------------------------------------------
(***************************************************************************)
(* One turn of the loop                                                    *)
(***************************************************************************)

BeginTurn(r) ==
    /\ pc[r] = "sleep"
    /\ pc' = [pc EXCEPT ![r] = "begin"]
    /\ UNCHANGED <<config, conn, holds, flag, published, redisUp, dirty, due, cleared, stale, faults>>

(* Except in finance, a turn begins only outside diagnostic mode.          *)
Wake(r) == ~IsDiagnostic(r) /\ BeginTurn(r)

(* pg_try_advisory_lock, in the transaction that will sweep.  A backend    *)
(* that already has the lock gets it once more.                            *)
LockFreeIgnored(b) == TRUE
LockFreeOnce(b) == \A other \in Backends : holds[other] = 0
LockFreeFor(b) == \A other \in Backends \ {b} : holds[other] = 0

TryLock(r, b) ==
    /\ pc[r] = "begin"
    /\ b \in reach[r] /\ Free(b)
    /\ LockFreeFor(b)
    /\ holds[b] < MaxHolds
    /\ holds' = [holds EXCEPT ![b] = @ + 1]
    /\ conn' = [conn EXCEPT ![r] = b]
    /\ pc' = [pc EXCEPT ![r] = IF governor = "finance" THEN "leader" ELSE "sweep"]
    /\ UNCHANGED <<config, flag, published, redisUp, dirty, due, cleared, stale, faults>>

StandBy(r, b) ==
    /\ pc[r] = "begin"
    /\ b \in reach[r] /\ Free(b)
    /\ ~LockFreeFor(b)
    /\ IF governor = "ledger"
       THEN pc' = [pc EXCEPT ![r] = "sleep"] /\ UNCHANGED conn
       ELSE pc' = [pc EXCEPT ![r] = "standby"] /\ conn' = [conn EXCEPT ![r] = b]
    /\ UNCHANGED <<config, holds, flag, published, redisUp, dirty, due, cleared, stale, faults>>

(* The siblings: the sleep is over and with it the transaction.            *)
StandByEnds(r) ==
    /\ pc[r] = "standby"
    /\ pc' = [pc EXCEPT ![r] = "sleep"]
    /\ conn' = [conn EXCEPT ![r] = None]
    /\ UNCHANGED <<config, holds, flag, published, redisUp, dirty, due, cleared, stale, faults>>

(* Finance: the leader skips the sweep, not the audit, in diagnostic mode. *)
LeaderChecks(r) ==
    /\ pc[r] = "leader"
    /\ pc' = [pc EXCEPT ![r] = IF IsDiagnostic(r) THEN "audit" ELSE "sweep"]
    /\ UNCHANGED <<config, conn, holds, flag, published, redisUp, dirty, due, cleared, stale, faults>>

(* The sweep commits: its transaction, and with it the claim on the        *)
(* backend, is over.                                                       *)
SweepCommits(r) ==
    /\ pc[r] = "sweep"
    /\ due' = FALSE
    /\ conn' = [conn EXCEPT ![r] = None]
    /\ pc' = [pc EXCEPT ![r] = "audit"]
    /\ stale' = [stale EXCEPT ![r] = IF redisUp /\ published THEN @ + 1 ELSE 0]
    /\ UNCHANGED <<config, holds, flag, published, redisUp, dirty, cleared, faults>>

(* The audit, in the next transaction, or in the same one when there was   *)
(* no sweep; a violation enters diagnostic mode, locally and, when Redis   *)
(* answers, for everyone.                                                  *)
Audit(r, b) ==
    /\ pc[r] = "audit"
    /\ b \in reach[r]
    /\ IF conn[r] = None THEN Free(b) ELSE b = conn[r]
    /\ conn' = [conn EXCEPT ![r] = b]
    /\ pc' = [pc EXCEPT ![r] = "unlock"]
    /\ IF dirty
       THEN /\ flag' = [flag EXCEPT ![r] = TRUE]
            /\ published' = (published \/ redisUp)
            /\ cleared' = FALSE
       ELSE UNCHANGED <<flag, published, cleared>>
    /\ UNCHANGED <<config, holds, redisUp, dirty, due, stale, faults>>

(* pg_advisory_unlock on the backend of the audit's transaction.           *)
Unlock(r) ==
    /\ pc[r] = "unlock"
    /\ holds' = [holds EXCEPT ![conn[r]] = IF @ > 0 THEN @ - 1 ELSE 0]
    /\ conn' = [conn EXCEPT ![r] = None]
    /\ pc' = [pc EXCEPT ![r] = "sleep"]
    /\ UNCHANGED <<config, flag, published, redisUp, dirty, due, cleared, stale, faults>>

(* A statement of the sweep or of the audit fails.  The transaction is     *)
(* aborted, so the unlock of the finally clause fails as well, and the     *)
(* rollback that follows does not give an advisory lock back.              *)
TurnFails(r) ==
    /\ Fault
    /\ pc[r] \in {"sweep", "audit"}
    /\ conn' = [conn EXCEPT ![r] = None]
    /\ pc' = [pc EXCEPT ![r] = "sleep"]
    /\ UNCHANGED <<config, holds, flag, published, redisUp, dirty, due, cleared, stale>>

-----------------------------------------------------------------------------
(***************************************************************************)
(* Processes, connections, Redis, data and operators                       *)
(***************************************************************************)

(* A backend ends (pool_recycle, a server's lifetime, a lost connection):  *)
(* its locks go with it, and so does a transaction that runs on it.        *)
BackendEnds(b) ==
    /\ Fault
    /\ holds' = [holds EXCEPT ![b] = 0]
    /\ pc' = [r \in Replicas |-> IF conn[r] = b THEN "sleep" ELSE pc[r]]
    /\ conn' = [r \in Replicas |-> IF conn[r] = b THEN None ELSE conn[r]]
    /\ UNCHANGED <<config, flag, published, redisUp, dirty, due, cleared, stale>>

(* The backends that end with the process r: the one in a transaction, and *)
(* those nobody else can reach.                                            *)
EndWith(r) ==
    {b \in Backends : conn[r] = b \/ (b \in reach[r] /\ \A q \in Replicas \ {r} : b \notin reach[q])}

Crash(r) ==
    /\ Fault
    /\ pc[r] # "down"
    /\ holds' = [b \in Backends |-> IF b \in EndWith(r) THEN 0 ELSE holds[b]]
    /\ pc' = [pc EXCEPT ![r] = "down"]
    /\ conn' = [conn EXCEPT ![r] = None]
    /\ flag' = [flag EXCEPT ![r] = FALSE]
    /\ UNCHANGED <<config, published, redisUp, dirty, due, cleared, stale>>

Restart(r) ==
    /\ pc[r] = "down"
    /\ pc' = [pc EXCEPT ![r] = "sleep"]
    /\ UNCHANGED <<config, conn, holds, flag, published, redisUp, dirty, due, cleared, stale, faults>>

RedisFlips ==
    /\ Fault
    /\ redisUp' = ~redisUp
    /\ stale' = [r \in Replicas |-> 0]
    /\ UNCHANGED <<config, pc, conn, holds, flag, published, dirty, due, cleared>>

RowLapses ==
    /\ ~due
    /\ due' = TRUE
    /\ UNCHANGED <<config, pc, conn, holds, flag, published, redisUp, dirty, cleared, stale, faults>>

(* Rows that fail the audit appear, and are repaired by hand.              *)
RowsGoBad ==
    /\ Fault
    /\ dirty' = TRUE
    /\ UNCHANGED <<config, pc, conn, holds, flag, published, redisUp, due, cleared, stale>>

Repair ==
    /\ dirty
    /\ dirty' = FALSE
    /\ UNCHANGED <<config, pc, conn, holds, flag, published, redisUp, due, cleared, stale, faults>>

(* POST /internal/diagnostic/clear, served by a sidecar pod: the pod's own *)
(* flag (never set) and the Redis key, whatever the audit would find.      *)
Clear ==
    /\ published' = (published /\ ~redisUp)
    /\ cleared' = (cleared \/ redisUp)
    /\ stale' = IF redisUp THEN [r \in Replicas |-> 0] ELSE stale
    /\ UNCHANGED <<config, pc, conn, holds, flag, redisUp, dirty, due, faults>>

leader_session(r) == (\E b \in Backends : TryLock(r, b) \/ StandBy(r, b)) \/ Unlock(r)

finance_leader_session(r) == leader_session(r) \/ StandByEnds(r)

insurance_leader_session(r) == leader_session(r) \/ StandByEnds(r)

cybersecurity_leader_session(r) == leader_session(r) \/ StandByEnds(r)

finance_audits(r) == \E b \in Backends : Audit(r, b)

insurance_audits(r) == \E b \in Backends : Audit(r, b)

cybersecurity_audits(r) == \E b \in Backends : Audit(r, b)

run_daemon(r) ==
    \/ Wake(r) \/ leader_session(r) \/ SweepCommits(r)
    \/ \E b \in Backends : Audit(r, b)

finance_run_loop(r) ==
    \/ BeginTurn(r) \/ finance_leader_session(r)
    \/ LeaderChecks(r) \/ SweepCommits(r) \/ finance_audits(r)

insurance_run_loop(r) ==
    Wake(r) \/ insurance_leader_session(r) \/ SweepCommits(r) \/ insurance_audits(r)

cybersecurity_run_loop(r) ==
    Wake(r) \/ cybersecurity_leader_session(r) \/ SweepCommits(r) \/ cybersecurity_audits(r)

Step(r) ==
    \/ governor = "ledger" /\ run_daemon(r)
    \/ governor = "finance" /\ finance_run_loop(r)
    \/ governor = "insurance" /\ insurance_run_loop(r)
    \/ governor = "cybersecurity" /\ cybersecurity_run_loop(r)

Turn(r) == Step(r) \/ TurnFails(r)

Environment ==
    \/ \E r \in Replicas : Crash(r) \/ Restart(r)
    \/ \E b \in Backends : BackendEnds(b)
    \/ RedisFlips
    \/ RowLapses
    \/ RowsGoBad
    \/ Repair
    \/ Clear

DaemonNext == (\E r \in Replicas : Turn(r)) \/ Environment

DaemonSpec == DaemonInit /\ [][DaemonNext]_daemonVars

(* The loop goes round and a crashed pod is restarted.  (Faults are finite *)
(* in number; the loop and the restarts are what the code provides.)       *)
DaemonFairSpec ==
    /\ DaemonSpec
    /\ \A r \in Replicas : WF_daemonVars(Step(r)) /\ WF_daemonVars(Restart(r))

-----------------------------------------------------------------------------
(***************************************************************************)
(* Properties                                                              *)
(***************************************************************************)

DaemonTypeOK ==
    /\ governor \in Governors
    /\ reach \in Deployments
    /\ pc \in [Replicas -> Places]
    /\ conn \in [Replicas -> Backends \cup {None}]
    /\ holds \in [Backends -> Nat]
    /\ flag \in [Replicas -> BOOLEAN]
    /\ published \in BOOLEAN
    /\ redisUp \in BOOLEAN
    /\ dirty \in BOOLEAN
    /\ due \in BOOLEAN
    /\ cleared \in BOOLEAN
    /\ stale \in [Replicas -> Nat]
    /\ faults \in Nat

(* Two replicas never sweep at the same time, whether their connections    *)
(* are their own or shared through a pool, and whatever locks failed turns *)
(* and ended backends have left behind.                                    *)
OneSweeper ==
    \A r, q \in Replicas : pc[r] = "sweep" /\ pc[q] = "sweep" => r = q

(* Why: a transaction has its backend to itself, a sweep runs on one that  *)
(* holds the lock, and at most one backend holds it.                       *)
LockDiscipline ==
    /\ \A r, q \in Replicas : conn[r] = conn[q] /\ conn[r] # None => r = q
    /\ \A r \in Replicas : pc[r] \in {"standby", "leader", "sweep", "unlock"} => conn[r] # None
    /\ \A r \in Replicas : pc[r] \in {"sleep", "begin", "down"} => conn[r] = None
    /\ \A r \in Replicas : pc[r] \in {"leader", "sweep"} => holds[conn[r]] > 0
    /\ \A b, c \in Backends : holds[b] > 0 /\ holds[c] > 0 => b = c

(* Diagnostic mode is checked when a turn begins, not when it sweeps: once *)
(* it is published and Redis answers, each replica may still commit the    *)
(* sweep of the turn it was in, but never a second one.                    *)
AtMostOneStaleSweep == \A r \in Replicas : stale[r] <= 1

(* Every replica has its connections to itself.                            *)
Direct == \A r, q \in Replicas : r # q => reach[r] \cap reach[q] = {}

(* On direct connections, crashed replicas, failed turns that leave the    *)
(* lock taken and recycled connections do not stop the sweeps: a claimable *)
(* row is swept in the end, unless diagnostic mode is entered.             *)
SweepsContinue ==
    (Direct /\ due) ~> (~due \/ published \/ \E r \in Replicas : flag[r])

(* What the docs say and the code does not do.                             *)

(* "POST /internal/diagnostic/clear", then "Confirm sweeps resume"         *)
(* (docs/enterprise-hardening-roadmap.md:136, 137): after a clear that reached  *)
(* Redis, a claimable row is swept in the end.                             *)
ClearResumesSweeps ==
    (cleared /\ due) ~> (~due \/ ~cleared)
=============================================================================
