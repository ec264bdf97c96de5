------------------------ MODULE ReconcilerDaemonProofs ------------------------
(***************************************************************************)
(* Two replicas never sweep at once, and diagnostic mode stops each of     *)
(* them within a turn, for any number of replicas and backends and any     *)
(* reachability between them.                                              *)
(***************************************************************************)
EXTENDS ReconcilerDaemon, TLAPS

(* The inductive invariant: types, the discipline of the lock, and that a  *)
(* transaction runs on a backend its replica reaches (so that the backends *)
(* that end with a crashed process serve nobody else).                     *)
DaemonInv ==
    /\ DaemonTypeOK
    /\ LockDiscipline
    /\ \A r \in Replicas : conn[r] # None => conn[r] \in reach[r]

LEMMA DaemonInitially == DaemonInit => DaemonInv
  <1> SUFFICES ASSUME DaemonInit PROVE DaemonInv
    OBVIOUS
  <1>1. DaemonTypeOK
    BY Zenon, 0 \in Nat DEF DaemonInit, DaemonTypeOK, Places
  <1>2. LockDiscipline
    BY DaemonAssumption DEF DaemonInit, LockDiscipline
  <1>3. \A r \in Replicas : conn[r] = None
    BY DEF DaemonInit
  <1> QED BY <1>1, <1>2, <1>3 DEF DaemonInv

(* The steps of a turn keep the discipline.                                *)
LEMMA TurnKeeps ==
    ASSUME DaemonInv, NEW r \in Replicas, Turn(r)
    PROVE  DaemonInv'
  <1> USE DaemonAssumption DEF DaemonInv, DaemonTypeOK, LockDiscipline, Places, config
  <1>1. CASE BeginTurn(r)
    BY <1>1 DEF BeginTurn
  <1>2. ASSUME NEW b \in Backends, TryLock(r, b)
        PROVE  DaemonInv'
    BY <1>2 DEF TryLock, Free, LockFreeFor
  <1>3. ASSUME NEW b \in Backends, StandBy(r, b)
        PROVE  DaemonInv'
    <2>1. CASE governor = "ledger"
      BY <1>3, <2>1 DEF StandBy
    <2>2. CASE governor # "ledger"
      BY <1>3, <2>2 DEF StandBy, Free
    <2> QED BY <2>1, <2>2
  <1>4. ASSUME NEW b \in Backends, Audit(r, b)
        PROVE  DaemonInv'
    <2>1. published' \in BOOLEAN /\ cleared' \in BOOLEAN /\ flag' \in [Replicas -> BOOLEAN]
      BY <1>4, Zenon DEF Audit
    <2>2. UNCHANGED <<config, holds, redisUp, dirty, due, stale, faults>>
      BY <1>4 DEF Audit
    <2>3. /\ pc' = [pc EXCEPT ![r] = "unlock"]
          /\ conn' = [conn EXCEPT ![r] = b]
          /\ \A q \in Replicas \ {r} : conn[q] # b
      BY <1>4 DEF Audit, Free
    <2>4. DaemonTypeOK'
      BY <2>1, <2>2, <2>3
    <2>5. LockDiscipline'
      BY <2>2, <2>3
    <2>6. b \in reach[r]
      BY <1>4 DEF Audit
    <2> QED BY <2>2, <2>3, <2>4, <2>5, <2>6
  <1>5. CASE SweepCommits(r)
    <2>1. stale' \in [Replicas -> Nat]
      <3>1. CASE redisUp /\ published
        BY <1>5, <3>1 DEF SweepCommits
      <3>2. CASE ~(redisUp /\ published)
        BY <1>5, <3>2 DEF SweepCommits
      <3> QED BY <3>1, <3>2
    <2>2. /\ UNCHANGED <<config, holds, flag, published, redisUp, dirty, cleared, faults>>
          /\ pc' = [pc EXCEPT ![r] = "audit"]
          /\ conn' = [conn EXCEPT ![r] = None]
          /\ due' = FALSE
      BY <1>5 DEF SweepCommits
    <2>3. DaemonTypeOK'
      BY <2>1, <2>2
    <2>4. LockDiscipline'
      BY <2>2
    <2> QED BY <2>2, <2>3, <2>4
  <1>6. CASE Unlock(r)
    BY <1>6 DEF Unlock
  <1>7. CASE TurnFails(r)
    BY <1>7 DEF TurnFails, Fault
  <1>8. CASE StandByEnds(r)
    BY <1>8 DEF StandByEnds
  <1>9. CASE LeaderChecks(r)
    BY <1>9 DEF LeaderChecks
  <1>10. CASE Wake(r)
    BY <1>1, <1>10 DEF Wake
  <1>11. CASE leader_session(r)
    BY <1>2, <1>3, <1>6, <1>11 DEF leader_session
  <1>12. CASE run_daemon(r)
    BY <1>4, <1>5, <1>10, <1>11, <1>12 DEF run_daemon
  <1>13. CASE finance_run_loop(r)
    BY <1>1, <1>4, <1>5, <1>8, <1>9, <1>11, <1>13
    DEF finance_run_loop, finance_leader_session, finance_audits
  <1>14. CASE insurance_run_loop(r)
    BY <1>4, <1>5, <1>8, <1>10, <1>11, <1>14
    DEF insurance_run_loop, insurance_leader_session, insurance_audits
  <1>15. CASE cybersecurity_run_loop(r)
    BY <1>4, <1>5, <1>8, <1>10, <1>11, <1>15
    DEF cybersecurity_run_loop, cybersecurity_leader_session, cybersecurity_audits
  <1> QED
    BY <1>7, <1>12, <1>13, <1>14, <1>15 DEF Turn, Step

(* So do crashes, ended backends and everything else around the loop.      *)
LEMMA EnvironmentKeeps ==
    ASSUME DaemonInv, Environment
    PROVE  DaemonInv'
  <1> USE DaemonAssumption DEF DaemonInv, DaemonTypeOK, LockDiscipline, Places, config
  <1>1. ASSUME NEW r \in Replicas, Crash(r)
        PROVE  DaemonInv'
    <2>1. /\ pc' = [pc EXCEPT ![r] = "down"]
          /\ conn' = [conn EXCEPT ![r] = None]
          /\ flag' = [flag EXCEPT ![r] = FALSE]
          /\ faults' = faults + 1
          /\ UNCHANGED <<config, published, redisUp, dirty, due, cleared, stale>>
      BY <1>1 DEF Crash, Fault
    <2>2. holds' = [b \in Backends |-> IF b \in EndWith(r) THEN 0 ELSE holds[b]]
      BY <1>1 DEF Crash
    <2>3. DaemonTypeOK'
      BY <2>1, <2>2
    (* A backend that ends serves r or serves nobody: no sweep loses it.     *)
    <2>4. ASSUME NEW q \in Replicas, q # r, conn[q] # None
          PROVE  holds'[conn[q]] = holds[conn[q]]
      BY <2>2, <2>4 DEF EndWith
    <2>5. \A q \in Replicas : q # r => conn'[q] = conn[q] /\ pc'[q] = pc[q]
      BY <2>1
    <2>6. pc'[r] = "down" /\ conn'[r] = None
      BY <2>1
    <2>7. \A b \in Backends : holds'[b] > 0 => holds[b] > 0
      BY <2>2
    <2>8. ASSUME NEW q \in Replicas, pc'[q] \in {"leader", "sweep"}
          PROVE  holds'[conn'[q]] > 0
      BY <2>4, <2>5, <2>6, <2>8
    <2>9. LockDiscipline'
      BY <2>5, <2>6, <2>7, <2>8
    <2> QED BY <2>1, <2>3, <2>9
  <1>2. ASSUME NEW r \in Replicas, Restart(r)
        PROVE  DaemonInv'
    BY <1>2 DEF Restart
  <1>3. ASSUME NEW b \in Backends, BackendEnds(b)
        PROVE  DaemonInv'
    BY <1>3 DEF BackendEnds, Fault
  <1>4. CASE RedisFlips
    BY <1>4 DEF RedisFlips, Fault
  <1>5. CASE RowLapses
    BY <1>5 DEF RowLapses
  <1>6. CASE RowsGoBad
    BY <1>6 DEF RowsGoBad, Fault
  <1>7. CASE Repair
    BY <1>7 DEF Repair
  <1>8. CASE Clear
    BY <1>8 DEF Clear
  <1> QED
    BY <1>1, <1>2, <1>3, <1>4, <1>5, <1>6, <1>7, <1>8 DEF Environment

LEMMA DaemonInductive == DaemonInv /\ [DaemonNext]_daemonVars => DaemonInv'
  <1> SUFFICES ASSUME DaemonInv, [DaemonNext]_daemonVars PROVE DaemonInv'
    OBVIOUS
  <1>1. CASE UNCHANGED daemonVars
    BY <1>1 DEF daemonVars, config, DaemonInv, DaemonTypeOK, LockDiscipline
  <1>2. CASE DaemonNext
    BY <1>2, TurnKeeps, EnvironmentKeeps DEF DaemonNext
  <1> QED BY <1>1, <1>2

(* The discipline of the advisory lock is an invariant of the daemon.      *)
THEOREM LockIsDisciplined == DaemonSpec => []LockDiscipline
  <1>1. DaemonInv => LockDiscipline
    BY DEF DaemonInv
  <1> QED BY DaemonInitially, DaemonInductive, <1>1, PTL DEF DaemonSpec

(* Two replicas never sweep at the same time: the sweep of each runs on a  *)
(* backend that holds the lock, there is only one such backend, and it     *)
(* serves one transaction.                                                 *)
THEOREM SweepsAreExclusive == DaemonSpec => []OneSweeper
  <1>1. DaemonInv => OneSweeper
    <2> SUFFICES ASSUME DaemonInv, NEW r \in Replicas, NEW q \in Replicas,
                        pc[r] = "sweep", pc[q] = "sweep"
                 PROVE  r = q
      BY DEF OneSweeper
    <2>1. conn[r] \in Backends /\ conn[q] \in Backends
      BY DEF DaemonInv, DaemonTypeOK, LockDiscipline
    <2>2. conn[r] = conn[q]
      BY <2>1 DEF DaemonInv, LockDiscipline
    <2> QED BY <2>1, <2>2, DaemonAssumption DEF DaemonInv, LockDiscipline
  <1> QED BY DaemonInitially, DaemonInductive, <1>1, PTL DEF DaemonSpec

-----------------------------------------------------------------------------
(***************************************************************************)
(* Sweeps under diagnostic mode                                            *)
(***************************************************************************)

(* A replica that has swept while diagnostic mode was there to be seen is  *)
(* past the last place from which the loop sweeps without looking: the     *)
(* start of a turn, except in finance, whose leader looks later.           *)
SweptOnce ==
    \A r \in Replicas :
        stale[r] # 0 =>
            /\ stale[r] = 1
            /\ published /\ redisUp
            /\ pc[r] # "sweep"
            /\ governor # "finance" => pc[r] # "begin"

LEMMA SweptOnceTurn ==
    ASSUME DaemonTypeOK, SweptOnce, NEW r \in Replicas, Turn(r)
    PROVE  SweptOnce'
  <1> USE DEF DaemonTypeOK, SweptOnce, Places, config
  <1>1. ASSUME BeginTurn(r), governor # "finance" => ~IsDiagnostic(r)
        PROVE  SweptOnce'
    BY <1>1 DEF BeginTurn, IsDiagnostic
  <1>2. ASSUME NEW b \in Backends, TryLock(r, b)
        PROVE  SweptOnce'
    BY <1>2 DEF TryLock
  <1>3. ASSUME NEW b \in Backends, StandBy(r, b)
        PROVE  SweptOnce'
    BY <1>3 DEF StandBy
  <1>4. ASSUME NEW b \in Backends, Audit(r, b)
        PROVE  SweptOnce'
    <2>1. /\ pc' = [pc EXCEPT ![r] = "unlock"]
          /\ published => published'
          /\ UNCHANGED <<config, redisUp, stale>>
      BY <1>4 DEF Audit
    <2> QED BY <2>1
  <1>5. CASE SweepCommits(r)
    <2>1. stale[r] = 0
      BY <1>5 DEF SweepCommits
    <2>2. /\ pc' = [pc EXCEPT ![r] = "audit"]
          /\ UNCHANGED <<config, published, redisUp>>
      BY <1>5 DEF SweepCommits
    <2>3. stale' = [stale EXCEPT ![r] = IF redisUp /\ published THEN 1 ELSE 0]
      BY <1>5, <2>1 DEF SweepCommits
    <2>4. CASE redisUp /\ published
      BY <2>2, <2>3, <2>4
    <2>5. CASE ~(redisUp /\ published)
      BY <2>2, <2>3, <2>5
    <2> QED BY <2>4, <2>5
  <1>6. CASE Unlock(r)
    BY <1>6 DEF Unlock
  <1>7. CASE TurnFails(r)
    BY <1>7 DEF TurnFails
  <1>8. CASE StandByEnds(r)
    BY <1>8 DEF StandByEnds
  <1>9. CASE LeaderChecks(r)
    <2>1. CASE IsDiagnostic(r)
      BY <1>9, <2>1 DEF LeaderChecks
    <2>2. CASE ~IsDiagnostic(r)
      <3>1. stale[r] = 0
        BY <2>2 DEF IsDiagnostic
      <3> QED BY <1>9, <2>2, <3>1 DEF LeaderChecks
    <2> QED BY <2>1, <2>2
  <1>10. CASE Wake(r)
    BY <1>1, <1>10 DEF Wake
  <1>11. CASE leader_session(r)
    BY <1>2, <1>3, <1>6, <1>11 DEF leader_session
  <1>12. CASE run_daemon(r)
    BY <1>4, <1>5, <1>10, <1>11, <1>12 DEF run_daemon
  <1>13. CASE governor = "finance" /\ finance_run_loop(r)
    BY <1>1, <1>4, <1>5, <1>8, <1>9, <1>11, <1>13
    DEF finance_run_loop, finance_leader_session, finance_audits
  <1>14. CASE insurance_run_loop(r)
    BY <1>4, <1>5, <1>8, <1>10, <1>11, <1>14
    DEF insurance_run_loop, insurance_leader_session, insurance_audits
  <1>15. CASE cybersecurity_run_loop(r)
    BY <1>4, <1>5, <1>8, <1>10, <1>11, <1>15
    DEF cybersecurity_run_loop, cybersecurity_leader_session, cybersecurity_audits
  <1> QED
    BY <1>7, <1>12, <1>13, <1>14, <1>15 DEF Turn, Step

LEMMA SweptOnceEnvironment ==
    ASSUME DaemonTypeOK, SweptOnce, Environment
    PROVE  SweptOnce'
  <1> USE DEF DaemonTypeOK, SweptOnce, Places, config
  <1>1. ASSUME NEW r \in Replicas, Crash(r) \/ Restart(r)
        PROVE  SweptOnce'
    <2>1. /\ UNCHANGED <<config, published, redisUp, stale>>
          /\ \/ pc' = [pc EXCEPT ![r] = "down"]
             \/ pc' = [pc EXCEPT ![r] = "sleep"]
      BY <1>1 DEF Crash, Restart
    <2> QED BY <2>1
  <1>2. ASSUME NEW b \in Backends, BackendEnds(b)
        PROVE  SweptOnce'
    BY <1>2 DEF BackendEnds
  <1>3. CASE RedisFlips \/ Clear
    BY <1>3 DEF RedisFlips, Clear
  <1>4. CASE RowLapses \/ RowsGoBad \/ Repair
    BY <1>4 DEF RowLapses, RowsGoBad, Repair
  <1> QED
    BY <1>1, <1>2, <1>3, <1>4 DEF Environment

(* Once diagnostic mode is published and Redis answers, no replica commits *)
(* more than the one sweep it was in, whatever crashes, ended backends and *)
(* failed turns come in between.                                           *)
THEOREM StaleSweepsAreBounded == DaemonSpec => []AtMostOneStaleSweep
  <1> DEFINE Both == DaemonInv /\ SweptOnce
  <1>1. DaemonInit => Both
    BY DaemonInitially DEF DaemonInit, SweptOnce
  <1>2. Both /\ [DaemonNext]_daemonVars => Both'
    <2> SUFFICES ASSUME Both, [DaemonNext]_daemonVars PROVE SweptOnce'
      BY DaemonInductive
    <2>1. CASE UNCHANGED daemonVars
      BY <2>1 DEF daemonVars, config, SweptOnce
    <2>2. CASE DaemonNext
      BY <2>2, SweptOnceTurn, SweptOnceEnvironment DEF DaemonNext, DaemonInv
    <2> QED BY <2>1, <2>2
  <1>3. Both => AtMostOneStaleSweep
    BY DEF SweptOnce, AtMostOneStaleSweep, DaemonInv, DaemonTypeOK
  <1> HIDE DEF Both
  <1> QED BY <1>1, <1>2, <1>3, PTL DEF DaemonSpec
=============================================================================
