----------------------------- MODULE LedgerChain -----------------------------
(***************************************************************************)
(* The tamper-evident hash chain over ledger_events: the sealed append     *)
(* every ledger transaction makes (sidecar/app/ledger_events.py under      *)
(* spine_core/chain_advisory_lock.py), the incremental verification and    *)
(* its checkpoint (ledger_seal.py, spine_core/chain_checkpoint.py), the    *)
(* anchoring of verified heads (ledger_anchor.py) and the retention job    *)
(* that deletes cold rows (spine_core/retention_runner.py).                *)
(*                                                                         *)
(* PostgreSQL runs at READ COMMITTED: a row is seen by its own transaction *)
(* at once and by the others when it commits, and every statement of a     *)
(* verification reads the table afresh.  Event ids come from a sequence    *)
(* that a rollback does not give back.                                     *)
(*                                                                         *)
(* As in EscrowLedger, an unused definition directly before another is a   *)
(* faulty variant of it.                                                   *)
(***************************************************************************)
EXTENDS Integers, FiniteSets, FiniteSetsExt

CONSTANTS
    Writers,         \* sessions that append: reserve, settle, void, sweeps
    Verifiers,       \* requests to verify-chain and anchor-head
    Payloads,        \* what a row says: every column the row hash covers
    MaxEvents,       \* bound on the ids the sequence hands out
    MaxTx,           \* bound on the transactions that begin
    MaxAlterations,  \* bound on the out-of-band changes of a stored row
    ReadReplica,     \* is database_read_url set?
    ArchiveEnabled,  \* RetentionPolicy.archive_enabled
    Corrupt,         \* the contents of a row changed behind the ledger's back
    None

ASSUME ChainAssumption ==
    /\ MaxEvents \in Nat /\ MaxTx \in Nat /\ MaxAlterations \in Nat
    /\ ReadReplica \in BOOLEAN /\ ArchiveEnabled \in BOOLEAN
    /\ None \notin Writers \cup {"valid", "invalid"} /\ Corrupt \notin Payloads

VARIABLES
    rows,        \* the table ledger_events, by event_id
    nextId,      \* its sequence
    lock,        \* the holder of pg_advisory_xact_lock(CHAIN_APPEND_LOCK_KEYS[MODEL])
    began,       \* per writer: when its open transaction began, 0 when none is open
    clock,       \* transactions begun so far: the order of recorded_at values
    checkpoint,  \* the singleton of ledger_chain_verify_checkpoints, or None
    anchors,     \* ledger_chain_anchors: head_hash and sealed_count
    published,   \* the objects in the anchor bucket: the same, outside the database
    replica,     \* what the read replica has applied: rows and checkpoint
    ver,         \* the verifications under way
    accepted,    \* history: the ids some valid verification has read
    alterations  \* history: out-of-band changes so far

vars == <<rows, nextId, lock, began, clock, checkpoint, anchors, published, replica,
          ver, accepted, alterations>>

Ids == 1 .. MaxEvents

(***************************************************************************)
(* Hashes.  SHA-256 of the canonical JSON is taken to be injective, so a   *)
(* hash is the tuple of what it digests.                                   *)
(***************************************************************************)
GENESIS_HASH == <<>>

compute_row_hash(id, payload, prev) == <<id, payload, prev>>

HashId(h) == IF h = GENESIS_HASH THEN 0 ELSE h[1]

(***************************************************************************)
(* Rows.  `sealed' is what the row said when it was sealed, kept to tell   *)
(* an altered row from a faithful one.  NoRow stands for an id no          *)
(* committed or open insertion holds.                                      *)
(***************************************************************************)
NoRow == [st |-> "none", by |-> None, payload |-> None, sealed |-> None,
          prev |-> GENESIS_HASH, hash |-> GENESIS_HASH, born |-> 0]

\* What a session that wrote nothing sees of the table.
Committed == [i \in Ids |-> IF rows[i].st = "pending" THEN NoRow ELSE rows[i]]

Present(view) == {i \in Ids : view[i].st = "present"}

Altered(view) == {i \in Present(view) : view[i].payload # view[i].sealed}

Archived == {i \in Ids : rows[i].st = "archived"}

\* The row_hash of the last of the rows `ids', or `base' when there is none.
LastHash(view, ids, base) == IF ids = {} THEN base ELSE view[Max(ids)].hash

(***************************************************************************)
(* Writers                                                                 *)
(***************************************************************************)
Begin(w) ==
    /\ began[w] = 0 /\ clock < MaxTx
    /\ clock' = clock + 1
    /\ began' = [began EXCEPT ![w] = clock + 1]
    /\ UNCHANGED <<rows, nextId, lock, checkpoint, anchors, published, replica, ver,
                   accepted, alterations>>

NoAppendLock(w) == TRUE

\* Held to the end of the transaction, and re-entrant within it.
chain_append_lock(w) == lock \in {None, w}

EarlierCommitted(w, i) == {j \in Ids : j < i /\ rows[j].st = "present"}

\* The rows of smaller id that the sealing session sees.
Earlier(w, i) ==
    {j \in Ids : /\ j < i
                 /\ \/ rows[j].st = "present"
                    \/ rows[j].st = "pending" /\ rows[j].by = w}

seal_ledger_event(w, i, payload) ==
    LET prev == LastHash(rows, Earlier(w, i), GENESIS_HASH)
    IN  [st |-> "pending", by |-> w, payload |-> payload, sealed |-> payload,
         prev |-> prev, hash |-> compute_row_hash(i, payload, prev),
         born |-> began[w]]

append_sealed_ledger_event(w, payload) ==
    /\ began[w] # 0 /\ nextId \in Ids
    /\ chain_append_lock(w)
    /\ lock' = w
    /\ rows' = [rows EXCEPT ![nextId] = seal_ledger_event(w, nextId, payload)]
    /\ nextId' = nextId + 1
    /\ UNCHANGED <<began, clock, checkpoint, anchors, published, replica, ver, accepted,
                   alterations>>

\* What becomes of a row of the transaction.
Ended(row, commits) ==
    IF commits THEN [row EXCEPT !.st = "present", !.by = None] ELSE NoRow

\* The end of w's transaction; PostgreSQL releases its advisory lock.
EndTransaction(w, commits) ==
    /\ began[w] # 0
    /\ rows' = [i \in Ids |-> IF rows[i].st = "pending" /\ rows[i].by = w
                              THEN Ended(rows[i], commits) ELSE rows[i]]
    /\ lock' = IF lock = w THEN None ELSE lock
    /\ began' = [began EXCEPT ![w] = 0]
    /\ UNCHANGED <<nextId, clock, checkpoint, anchors, published, replica, ver, accepted,
                   alterations>>

Commit(w) == EndTransaction(w, TRUE)

Rollback(w) == EndTransaction(w, FALSE)

(***************************************************************************)
(* verify_ledger_chain, one action per statement.  GET verify-chain reads  *)
(* through the read session and writes the checkpoint through the other;   *)
(* POST anchor-head does both on the primary, then publishes and records   *)
(* the head.                                                               *)
(***************************************************************************)
Idle(verdict) ==
    [pc |-> "idle", kind |-> "verify", total |-> 0, head |-> GENESIS_HASH,
     cp |-> None, from |-> 0, base |-> GENESIS_HASH, sealed |-> 0, last |-> 0,
     verdict |-> verdict]

OnReplica(v) == ReadReplica /\ ver[v].kind = "verify"

View(v) == IF OnReplica(v) THEN replica.rows ELSE Committed

CheckpointView(v) == IF OnReplica(v) THEN replica.checkpoint ELSE checkpoint

unchangedByVerifier == <<rows, nextId, lock, began, clock, replica, alterations>>

Step(v, rec) == ver' = [ver EXCEPT ![v] = rec]

\* What follows a valid result with head `rec.head': anchor-head goes on to
\* record it, verify-chain answers.
Return(rec) ==
    IF rec.kind = "anchor" /\ rec.head # GENESIS_HASH
    THEN [rec EXCEPT !.pc = "anchor"] ELSE Idle("valid")

VerifyCount(v, kind) ==
    /\ ver[v].pc = "idle"
    /\ LET view  == IF ReadReplica /\ kind = "verify" THEN replica.rows ELSE Committed
           total == Cardinality(Present(view))
       IN  Step(v, IF total = 0 THEN Idle("valid")
                   ELSE [Idle(None) EXCEPT !.pc = "head", !.kind = kind, !.total = total])
    /\ UNCHANGED <<unchangedByVerifier, checkpoint, anchors, published, accepted>>

head_hash(v) ==
    /\ ver[v].pc = "head"
    /\ Step(v, [ver[v] EXCEPT !.pc = "load",
                              !.head = LastHash(View(v), Present(View(v)), GENESIS_HASH)])
    /\ UNCHANGED <<unchangedByVerifier, checkpoint, anchors, published, accepted>>

\* The fast path: nothing has been appended since the checkpoint.
UpToDate(rec, cp) == cp.head = rec.head /\ cp.total = rec.total /\ cp.sealed = rec.total

load_checkpoint(v) ==
    /\ ver[v].pc = "load"
    /\ LET cp  == CheckpointView(v)
           rec == ver[v]
       IN  Step(v, IF cp = None \/ rec.head = GENESIS_HASH THEN [rec EXCEPT !.pc = "full"]
                   ELSE IF UpToDate(rec, cp) THEN Return([rec EXCEPT !.sealed = cp.sealed])
                   ELSE [rec EXCEPT !.pc = "base", !.cp = cp])
    /\ UNCHANGED <<unchangedByVerifier, checkpoint, anchors, published, accepted>>

\* The first statement of _verify_ledger_rows: the row the checkpoint names,
\* or genesis when that row is no longer there.
VerifyBase(v) ==
    /\ ver[v].pc = "base"
    /\ LET from == ver[v].cp.last
           rec  == [ver[v] EXCEPT !.pc = "tail", !.cp = None]
       IN  Step(v, IF from \in Present(View(v))
                   THEN [rec EXCEPT !.from = from, !.base = View(v)[from].hash,
                                    !.sealed = ver[v].cp.sealed]
                   ELSE rec)
    /\ UNCHANGED <<unchangedByVerifier, checkpoint, anchors, published, accepted>>

RowLinksOnly(view, ids, base, i) ==
    view[i].prev = LastHash(view, {j \in ids : j < i}, base)

RowVerifies(view, ids, base, i) ==
    /\ view[i].prev = LastHash(view, {j \in ids : j < i}, base)
    /\ view[i].hash = compute_row_hash(i, view[i].payload, view[i].prev)

\* The rows above rec.from, and what _verify_ledger_rows makes of them.
Tail(view, from) == {i \in Present(view) : i > from}

RowsVerify(view, rec) ==
    \A i \in Tail(view, rec.from) : RowVerifies(view, Tail(view, rec.from), rec.base, i)

VerifiedCountsTable(view, rec) ==
    LET ids == Tail(view, rec.from)
    IN  [rec EXCEPT !.pc = "save", !.head = LastHash(view, ids, rec.base),
                    !.sealed = rec.sealed + Cardinality(Present(view)),
                    !.last = IF ids = {} THEN rec.from ELSE Max(ids)]

Verified(view, rec) ==
    LET ids == Tail(view, rec.from)
    IN  [rec EXCEPT !.pc = "save", !.head = LastHash(view, ids, rec.base),
                    !.sealed = rec.sealed + Cardinality(ids),
                    !.last = IF ids = {} THEN rec.from ELSE Max(ids)]

\* The tail from the checkpoint.  Anything but a valid, non-empty chain falls
\* through to the full pass from genesis.
VerifyTail(v) ==
    /\ ver[v].pc = "tail"
    /\ LET rec == ver[v]
           res == Verified(View(v), rec)
           ok  == RowsVerify(View(v), rec) /\ res.head # GENESIS_HASH
       IN  /\ Step(v, IF ok THEN res
                      ELSE [Idle(None) EXCEPT !.pc = "full", !.kind = rec.kind,
                                              !.total = rec.total])
           /\ accepted' = IF ok THEN accepted \cup Tail(View(v), rec.from) ELSE accepted
    /\ UNCHANGED <<unchangedByVerifier, checkpoint, anchors, published>>

VerifyFull(v) ==
    /\ ver[v].pc = "full"
    /\ LET rec == [ver[v] EXCEPT !.head = GENESIS_HASH]
           res == Verified(View(v), rec)
           ok  == RowsVerify(View(v), rec)
       IN  /\ Step(v, IF ~ok THEN Idle("invalid")
                      ELSE IF res.head # GENESIS_HASH THEN res ELSE Idle("valid"))
           /\ accepted' = IF ok THEN accepted \cup Present(View(v)) ELSE accepted
    /\ UNCHANGED <<unchangedByVerifier, checkpoint, anchors, published>>

_persist_checkpoint(v) ==
    /\ ver[v].pc = "save"
    /\ checkpoint' = [last |-> ver[v].last, head |-> ver[v].head,
                      sealed |-> ver[v].sealed, total |-> ver[v].total]
    /\ Step(v, Return(ver[v]))
    /\ UNCHANGED <<unchangedByVerifier, anchors, published, accepted>>

\* _emit_external_anchor: the object is put while the transaction that will
\* record the anchor is still open.  A put that fails is logged and ignored.
anchor_head_to_s3(v) ==
    /\ ver[v].pc = "anchor"
    /\ published' \in {published, published \cup {[head |-> ver[v].head, sealed |-> ver[v].sealed]}}
    /\ Step(v, [ver[v] EXCEPT !.pc = "record"])
    /\ UNCHANGED <<unchangedByVerifier, checkpoint, anchors, accepted>>

\* INSERT ... ON CONFLICT DO NOTHING: one anchor per head.
anchor_verified_chain_head(v) ==
    /\ ver[v].pc = "record"
    /\ anchors' = IF \E a \in anchors : a.head = ver[v].head THEN anchors
                  ELSE anchors \cup {[head |-> ver[v].head, sealed |-> ver[v].sealed]}
    /\ Step(v, Idle("valid"))
    /\ UNCHANGED <<unchangedByVerifier, checkpoint, published, accepted>>

\* The request dies before its commit: the row is rolled back, the object stays.
AnchorLost(v) ==
    /\ ver[v].pc = "record"
    /\ Step(v, Idle(None))
    /\ UNCHANGED <<unchangedByVerifier, checkpoint, anchors, published, accepted>>

(***************************************************************************)
(* The retention job deletes the verified rows recorded before the warm    *)
(* cutoff.                                                                 *)
(***************************************************************************)
Cold(cutoff) == {i \in Present(rows) : rows[i].born < cutoff}

DeletableAny(i) == TRUE

Deletable(i) == i <= checkpoint.last

run_retention(cutoff) ==
    /\ ArchiveEnabled /\ checkpoint # None
    /\ Cold(cutoff) # {}
    /\ rows' = [i \in Ids |-> IF i \in Cold(cutoff) /\ Deletable(i)
                              THEN [rows[i] EXCEPT !.st = "archived", !.born = 0] ELSE rows[i]]
    /\ UNCHANGED <<nextId, lock, began, clock, checkpoint, anchors, published, replica, ver,
                   accepted, alterations>>

(***************************************************************************)
(* Outside the code: the replica catches up, and a stored row is changed   *)
(* behind the ledger's back.                                               *)
(***************************************************************************)
Replicate ==
    /\ ReadReplica
    /\ replica' = [rows |-> Committed, checkpoint |-> checkpoint]
    /\ UNCHANGED <<rows, nextId, lock, began, clock, checkpoint, anchors, published, ver,
                   accepted, alterations>>

Alter(i) ==
    /\ alterations < MaxAlterations
    /\ rows[i].st = "present"
    /\ rows' = [rows EXCEPT ![i].payload = Corrupt]
    /\ alterations' = alterations + 1
    /\ UNCHANGED <<nextId, lock, began, clock, checkpoint, anchors, published, replica, ver,
                   accepted>>
-----------------------------------------------------------------------------
Init ==
    /\ rows = [i \in Ids |-> NoRow]
    /\ nextId = 1
    /\ lock = None
    /\ began = [w \in Writers |-> 0]
    /\ clock = 0
    /\ checkpoint = None
    /\ anchors = {}
    /\ published = {}
    /\ replica = [rows |-> [i \in Ids |-> NoRow], checkpoint |-> None]
    /\ ver = [v \in Verifiers |-> Idle(None)]
    /\ accepted = {}
    /\ alterations = 0

WriterStep(w) ==
    \/ Begin(w)
    \/ \E p \in Payloads : append_sealed_ledger_event(w, p)
    \/ Commit(w)
    \/ Rollback(w)

VerifierStep(v) ==
    \/ \E kind \in {"verify", "anchor"} : VerifyCount(v, kind)
    \/ head_hash(v)
    \/ load_checkpoint(v)
    \/ VerifyBase(v)
    \/ VerifyTail(v)
    \/ VerifyFull(v)
    \/ _persist_checkpoint(v)
    \/ anchor_head_to_s3(v)
    \/ anchor_verified_chain_head(v)
    \/ AnchorLost(v)

Next ==
    \/ \E w \in Writers : WriterStep(w)
    \/ \E v \in Verifiers : VerifierStep(v)
    \/ \E cutoff \in 1 .. clock + 1 : run_retention(cutoff)
    \/ Replicate
    \/ \E i \in Ids : Alter(i)

ChainSpec == Init /\ [][Next]_vars

(***************************************************************************)
(* Properties                                                              *)
(***************************************************************************)
RowStates == {"none", "pending", "present", "archived"}

VerifierPlaces == {"idle", "head", "load", "base", "tail", "full", "save", "anchor", "record"}

ChainTypeOK ==
    /\ \A i \in Ids : /\ rows[i].st \in RowStates
                      /\ rows[i].by \in Writers \cup {None}
                      /\ rows[i].born \in 0 .. clock
    /\ nextId \in 1 .. MaxEvents + 1
    /\ lock \in Writers \cup {None}
    /\ began \in [Writers -> 0 .. clock]
    /\ clock \in 0 .. MaxTx
    /\ checkpoint # None => checkpoint.last \in Ids /\ checkpoint.sealed \in 1 .. MaxEvents
    /\ \A v \in Verifiers : /\ ver[v].pc \in VerifierPlaces
                            /\ ver[v].verdict \in {None, "valid", "invalid"}
    /\ accepted \subseteq Ids
    /\ alterations \in 0 .. MaxAlterations

\* Events are committed in the order of their ids, whatever the order in which
\* their transactions began: nothing is ever inserted below an id that another
\* session has seen, which is what lets a checkpoint stand for "all rows so far".
CommitsInIdOrder ==
    \A i, j \in Ids : rows[i].st = "pending" /\ rows[j].st \in {"present", "archived"} => j < i

\* In the table, or about to be.
Live(i) == rows[i].st \in {"pending", "present"}

\* The strengthening behind CommitsInIdOrder and ChainIsLinear.  The sequence
\* is ahead of every row; uncommitted rows belong to the holder of the append
\* lock; a row's predecessor has a smaller id, and none of the rows that are
\* still there lies between the two.
ChainOrder ==
    /\ \A i \in Ids : i >= nextId => rows[i].st = "none"
    /\ \A i \in Ids : rows[i].st = "pending" => rows[i].by \in Writers /\ lock = rows[i].by
    /\ CommitsInIdOrder
    /\ \A i \in Ids : Live(i) => /\ HashId(rows[i].hash) = i
                                 /\ HashId(rows[i].prev) \in 0 .. i - 1
    /\ \A i, j \in Ids : Live(i) /\ Live(j) /\ i < j => HashId(rows[j].prev) >= i

\* No two rows of the table extend the same row: however the transactions of
\* the sidecars and of the sweeps interleave, and whichever of them roll
\* back, seal_ledger_event gives every row a predecessor of its own.
ChainIsLinear ==
    \A i, j \in Present(rows) : rows[i].prev = rows[j].prev => i = j

\* The retention job deletes no event that no verification has read: an id at
\* or below the checkpoint was in the table, sealed, when the verification
\* that moved the checkpoint past it read the rows.
ArchivedWereVerified == Archived \subseteq accepted

\* verify_ledger_chain answers 422 only when something did change behind the
\* ledger's back or was archived.  Appends that run while it takes its
\* statements, rolled-back ids, a lagging replica and a checkpoint saved by
\* another verification never look like tampering.
NoFalseAlarm ==
    \A v \in Verifiers :
        ver[v].verdict = "invalid" => alterations > 0 \/ Archived # {}

\* A verification that reads an altered row rejects it: accepted rows are the
\* rows as they were sealed.
AlteredRowsAreRejected ==
    [][\A v \in Verifiers :
          /\ ver[v].pc \in {"tail", "full"}
          /\ ver'[v].pc = "save"
          => \A i \in Altered(View(v)) : i <= ver[v].from]_vars

\* The rows the chain holds up to and including the row with hash h.
UpTo(h) == {i \in Ids : rows[i].st \in {"present", "archived"} /\ i <= HashId(h)}

IsHead(rec) == \E i \in Ids : /\ rows[i].st \in {"present", "archived"}
                              /\ rec.head = rows[i].hash
                              /\ (Archived = {} => rec.sealed = Cardinality(UpTo(rec.head)))

\* What the ledger tells the outside world is its history: every checkpoint,
\* every anchored head and every head put in the bucket (also by a request that
\* died before it recorded the anchor) is the hash of a committed row, and until rows are
\* archived its sealed_count is the number of rows the chain held up to there,
\* even though _verify_ledger_rows adds it up over several verifications that
\* may overlap.
HeadsAreHistory ==
    /\ \A a \in anchors \cup published : IsHead(a)
    /\ checkpoint # None => IsHead(checkpoint) /\ HashId(checkpoint.head) = checkpoint.last

(***************************************************************************)
(* What the documents say                                                  *)
(***************************************************************************)
\* docs/operations-runbook.md: verify-chain answers 422 on tamper.  A
\* verification whose table holds an altered row does not find it valid.
TamperIsReported ==
    [][\A v \in Verifiers :
          ver[v].pc = "load" /\ Altered(View(v)) # {}
             => ver'[v].verdict # "valid"]_vars

\* retention_runner.py: archival is checkpoint-safe, so it leaves the chain
\* verifiable.
ArchivalKeepsTheChainValid ==
    alterations = 0 => \A v \in Verifiers : ver[v].verdict # "invalid"
=============================================================================
