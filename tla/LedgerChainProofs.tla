-------------------------- MODULE LedgerChainProofs --------------------------
(***************************************************************************)
(* The audit chain is linear and its rows commit in id order; what         *)
(* verifications accept, save, anchor and archive is its history; and they *)
(* cry wolf at nothing but altered or archived rows.  For any number of    *)
(* writers, verifications and events, in the ledger and in the siblings.   *)
(***************************************************************************)
EXTENDS SiblingChains, FiniteSetTheorems, WellFoundedInduction, TLAPS

\* A nonempty set of naturals has a least element.
LEMMA LeastNat ==
    ASSUME NEW T \in SUBSET Nat, T # {}
    PROVE  \E m \in T : \A k \in T : m <= k
<1>1. PICK m \in T : \A k \in T : ~ (<<k, m>> \in OpToRel(<, Nat))
  BY WFMin, NatLessThanWellFounded, Zenon
<1>2. \A k \in T : ~ (k < m)
  BY <1>1 DEF OpToRel
<1> QED
  BY <1>2

\* Max picks the greatest of a nonempty set of ids.
LEMMA MaxOfIds ==
    ASSUME NEW S \in SUBSET Ids, S # {}
    PROVE  /\ Max(S) \in S
           /\ \A y \in S : y <= Max(S)
<1> DEFINE T == {MaxEvents - y : y \in S}
<1>0. MaxEvents \in Nat /\ \A y \in S : y \in Nat /\ y <= MaxEvents
  BY ChainAssumption DEF Ids
<1>1. T \in SUBSET Nat /\ T # {}
  BY <1>0
<1>2. PICK m \in T : \A k \in T : m <= k
  BY <1>1, LeastNat
<1>3. PICK x \in S : m = MaxEvents - x
  BY <1>2
<1>4. \A y \in S : x >= y
  <2> TAKE y \in S
  <2>1. MaxEvents - y \in T
    OBVIOUS
  <2>2. m <= MaxEvents - y
    BY <2>1, <1>2
  <2> QED
    BY <2>2, <1>3, <1>0
<1>5. Max(S) \in S /\ \A y \in S : Max(S) >= y
  BY <1>4, Zenon DEF Max
<1> QED
  BY <1>5, <1>0

(***************************************************************************)
(* The inductive invariant: ChainOrder, and the shape of the table.        *)
(***************************************************************************)
IsRow(r) == r = [st |-> r.st, by |-> r.by, payload |-> r.payload, sealed |-> r.sealed,
                 prev |-> r.prev, hash |-> r.hash, born |-> r.born]

Shape == /\ nextId \in Nat
         /\ rows = [i \in Ids |-> rows[i]]
         /\ \A i \in Ids : IsRow(rows[i])

ChainInv == Shape /\ ChainOrder

\* The empty table is in order.
LEMMA InitChain == Init => ChainInv
  BY ChainAssumption
  DEF Init, ChainInv, Shape, ChainOrder, CommitsInIdOrder, Live, NoRow, IsRow, Ids

\* A step that leaves the table, its sequence and the lock alone keeps it so.
LEMMA IdleChain ==
    ASSUME ChainInv, UNCHANGED <<rows, nextId, lock>>
    PROVE  ChainInv'
  BY DEF ChainInv, Shape, ChainOrder, CommitsInIdOrder, Live

\* A sealed append: the new row has the greatest id, and its predecessor is
\* the greatest row there is, because the lock leaves no other session with
\* uncommitted rows.
LEMMA AppendChain ==
    ASSUME ChainInv, NEW w \in Writers, NEW p, append_sealed_ledger_event(w, p)
    PROVE  ChainInv'
<1> DEFINE n == nextId
           E == Earlier(w, n)
           prev == LastHash(rows, E, GENESIS_HASH)
           new == [st |-> "pending", by |-> w, payload |-> p, sealed |-> p, prev |-> prev,
                   hash |-> <<n, p, prev>>, born |-> began[w]]
<1>1. /\ n \in Ids /\ n \in Nat /\ lock \in {None, w} /\ lock' = w /\ nextId' = n + 1
      /\ rows' = [rows EXCEPT ![n] = new]
  BY DEF append_sealed_ledger_event, seal_ledger_event, compute_row_hash, chain_append_lock,
         ChainInv, Shape
<1>2. \A i \in Ids : i \in Nat
  BY DEF Ids
<1>3. E = {i \in Ids : Live(i)}
  <2>1. \A i \in Ids : Live(i) => i < n
    BY <1>1, <1>2 DEF ChainInv, ChainOrder, Live
  <2>2. \A i \in Ids : rows[i].st = "pending" => rows[i].by = w
    BY <1>1, ChainAssumption DEF ChainInv, ChainOrder
  <2> QED
    BY <2>1, <2>2 DEF Earlier, Live
<1>4. /\ HashId(prev) \in 0 .. n - 1
      /\ \A i \in Ids : Live(i) => HashId(prev) >= i
  <2>1. CASE E = {}
    <3>1. prev = GENESIS_HASH
      BY <2>1 DEF LastHash
    <3>2. n >= 1
      BY <1>1 DEF Ids
    <3> QED
      BY <3>1, <3>2, <2>1, <1>1, <1>3 DEF HashId
  <2>2. CASE E # {}
    <3>1. Max(E) \in E /\ \A y \in E : y <= Max(E)
      BY <2>2, <1>3, MaxOfIds
    <3>2. HashId(prev) = Max(E)
      BY <3>1, <2>2, <1>3 DEF LastHash, ChainInv, ChainOrder
    <3>3. Max(E) < n /\ Max(E) \in Nat
      BY <3>1, <1>2 DEF Earlier
    <3> QED
      BY <3>1, <3>2, <3>3, <1>1, <1>2, <1>3
  <2> QED
    BY <2>1, <2>2
<1>5. HashId(new.hash) = n
  <2>1. <<n, p, prev>> # <<>>
    OBVIOUS
  <2> QED
    BY <2>1 DEF HashId, GENESIS_HASH
<1>6. /\ rows'[n] = new
      /\ \A i \in Ids : i # n => rows'[i] = rows[i]
  BY <1>1 DEF ChainInv, Shape
<1>7. Shape'
  <2>1. IsRow(new)
    BY DEF IsRow
  <2> QED
    BY <1>1, <1>6, <2>1 DEF ChainInv, Shape
<1>8. ChainOrder'
  <2> HIDE DEF new, prev, E, n
  <2> USE <1>1, <1>2, <1>6 DEF ChainInv, Live
  <2>0. new.st = "pending" /\ new.by = w /\ new.prev = prev
    BY DEF new
  <2>1. \A i \in Ids : i >= nextId' => rows'[i].st = "none"
    BY <2>0 DEF ChainOrder, n
  <2>2. \A i \in Ids : rows'[i].st = "pending" => rows'[i].by \in Writers /\ lock' = rows'[i].by
    BY <2>0, ChainAssumption DEF ChainOrder
  <2>3. CommitsInIdOrder'
    <3>1. \A j \in Ids : rows[j].st # "none" => j < n
      BY DEF ChainOrder, n
    <3> QED
      BY <3>1, <2>0 DEF ChainOrder, CommitsInIdOrder
  <2>4. \A i \in Ids : Live(i)' => /\ HashId(rows'[i].hash) = i
                                  /\ HashId(rows'[i].prev) \in 0 .. i - 1
    BY <2>0, <1>4, <1>5 DEF ChainOrder
  <2>5. \A i, j \in Ids : Live(i)' /\ Live(j)' /\ i < j => HashId(rows'[j].prev) >= i
    <3>1. \A j \in Ids : Live(j) => j < n
      BY DEF ChainOrder, n
    <3> QED
      BY <3>1, <2>0, <1>4 DEF ChainOrder
  <2> QED
    BY <2>1, <2>2, <2>3, <2>4, <2>5 DEF ChainOrder
<1> QED
  BY <1>7, <1>8 DEF ChainInv

\* The two updates of a row that a writer and the retention job make.
LEMMA CommittedRow ==
    ASSUME NEW r, IsRow(r)
    PROVE  /\ IsRow(Ended(r, TRUE))
           /\ Ended(r, TRUE).st = "present"
           /\ Ended(r, TRUE).prev = r.prev
           /\ Ended(r, TRUE).hash = r.hash
           /\ Ended(r, TRUE).sealed = r.sealed
           /\ Ended(r, TRUE).payload = r.payload
<1> DEFINE q == [r EXCEPT !.st = "present"]
<1>1. /\ IsRow(q) /\ q.st = "present" /\ q.prev = r.prev /\ q.hash = r.hash
      /\ q.sealed = r.sealed /\ q.payload = r.payload
  BY DEF IsRow
<1>2. Ended(r, TRUE) = [q EXCEPT !.by = None]
  BY Zenon DEF Ended
<1> HIDE DEF q
<1> QED
  BY <1>1, <1>2 DEF IsRow

LEMMA ArchivedRow ==
    ASSUME NEW r, IsRow(r)
    PROVE  LET a == [r EXCEPT !.st = "archived", !.born = 0]
           IN  /\ IsRow(a)
               /\ a.st = "archived" /\ a.prev = r.prev /\ a.hash = r.hash
               /\ a.sealed = r.sealed /\ a.payload = r.payload
<1> DEFINE q == [r EXCEPT !.st = "archived"]
           a == [q EXCEPT !.born = 0]
<1>1. /\ IsRow(q) /\ q.st = "archived" /\ q.prev = r.prev /\ q.hash = r.hash
      /\ q.sealed = r.sealed /\ q.payload = r.payload
  BY DEF IsRow
<1>2. [r EXCEPT !.st = "archived", !.born = 0] = a
  OBVIOUS
<1>3. /\ IsRow(a) /\ a.st = "archived" /\ a.prev = q.prev /\ a.hash = q.hash
      /\ a.sealed = q.sealed /\ a.payload = q.payload
  <2> HIDE DEF q
  <2> QED
    BY <1>1 DEF IsRow
<1> HIDE DEF q, a
<1> QED
  BY <1>1, <1>2, <1>3

\* The end of a transaction: either w has no uncommitted rows, or w holds the
\* lock and every uncommitted row is its own.
LEMMA EndChain ==
    ASSUME ChainInv, NEW w \in Writers, NEW commits \in BOOLEAN, EndTransaction(w, commits)
    PROVE  ChainInv'
<1> DEFINE end(r) == Ended(r, commits)
<1>0. \A r : IsRow(r) => /\ IsRow(end(r))
                         /\ end(r).st \in {"none", "present"}
                         /\ end(r).st = "present" => end(r).prev = r.prev /\ end(r).hash = r.hash
  <2> TAKE r
  <2> HAVE IsRow(r)
  <2>1. CASE commits
    BY <2>1, CommittedRow
  <2>2. CASE ~ commits
    BY <2>2 DEF Ended, NoRow, IsRow
  <2> QED
    BY <2>1, <2>2
<1> HIDE DEF end
<1>1. /\ rows' = [i \in Ids |-> IF rows[i].st = "pending" /\ rows[i].by = w
                               THEN end(rows[i]) ELSE rows[i]]
      /\ lock' = IF lock = w THEN None ELSE lock
      /\ nextId' = nextId
  BY DEF EndTransaction, end
<1>2. Shape'
  BY <1>0, <1>1 DEF ChainInv, Shape
<1>3. \A i \in Ids : /\ rows[i].st = "pending" => rows[i].by = lock
                     /\ rows'[i].st = "pending" => rows[i].st = "pending" /\ rows'[i] = rows[i]
                                                  /\ lock # w /\ lock' = lock
  BY <1>0, <1>1 DEF ChainInv, ChainOrder, Shape
<1>4. \A i \in Ids : /\ rows[i].st = "none" => rows'[i].st = "none"
                     /\ Live(i)' => Live(i) /\ rows'[i].prev = rows[i].prev
                                            /\ rows'[i].hash = rows[i].hash
  BY <1>0, <1>1 DEF ChainInv, Shape, Live
<1>5. CommitsInIdOrder'
  <2> SUFFICES ASSUME NEW i \in Ids, NEW j \in Ids, rows'[i].st = "pending",
                      rows'[j].st \in {"present", "archived"}
               PROVE  j < i
    BY DEF CommitsInIdOrder
  <2>1. rows[j].st = "pending" => rows'[j] = rows[j]
    BY <1>1, <1>3 DEF ChainInv, ChainOrder
  <2>2. rows[j].st \in {"present", "archived"}
    BY <2>1, <1>1
  <2> QED
    BY <2>2, <1>3 DEF ChainInv, ChainOrder, CommitsInIdOrder
<1>6. ChainOrder'
  BY <1>1, <1>3, <1>4, <1>5 DEF ChainInv, ChainOrder
<1> QED
  BY <1>2, <1>6 DEF ChainInv

\* Archival and an out-of-band change touch neither the links nor the order.
LEMMA RetentionChain ==
    ASSUME ChainInv, NEW c, run_retention(c)
    PROVE  ChainInv'
<1>1. /\ rows' = [i \in Ids |-> IF i \in Cold(c) /\ Deletable(i)
                               THEN [rows[i] EXCEPT !.st = "archived", !.born = 0]
                               ELSE rows[i]]
      /\ nextId' = nextId /\ lock' = lock
  BY DEF run_retention
<1>2. \A i \in Ids : \/ rows'[i] = rows[i]
                     \/ rows[i].st = "present" /\ rows'[i].st = "archived" /\ IsRow(rows'[i])
  <2> TAKE i \in Ids
  <2>1. CASE i \in Cold(c) /\ Deletable(i)
    <3>1. rows'[i] = [rows[i] EXCEPT !.st = "archived", !.born = 0]
      BY <2>1, <1>1
    <3>2. IsRow(rows[i]) /\ rows[i].st = "present"
      BY <2>1 DEF Cold, Present, ChainInv, Shape
    <3> QED
      BY <3>1, <3>2, ArchivedRow
  <2>2. CASE ~ (i \in Cold(c) /\ Deletable(i))
    BY <2>2, <1>1
  <2> QED
    BY <2>1, <2>2
<1>3. Shape'
  BY <1>1, <1>2 DEF ChainInv, Shape
<1>4. ChainOrder'
  BY <1>1, <1>2 DEF ChainInv, ChainOrder, CommitsInIdOrder, Live
<1> QED
  BY <1>3, <1>4 DEF ChainInv

LEMMA AlterChain ==
    ASSUME ChainInv, NEW k \in Ids, Alter(k)
    PROVE  ChainInv'
<1>1. /\ rows' = [rows EXCEPT ![k].payload = Corrupt]
      /\ nextId' = nextId /\ lock' = lock
  BY DEF Alter
<1>2. \A i \in Ids : /\ rows'[i].st = rows[i].st /\ rows'[i].by = rows[i].by
                     /\ rows'[i].prev = rows[i].prev /\ rows'[i].hash = rows[i].hash
                     /\ IsRow(rows'[i])
  BY <1>1 DEF ChainInv, Shape, IsRow
<1>3. Shape'
  BY <1>1, <1>2 DEF ChainInv, Shape
<1>4. ChainOrder'
  BY <1>1, <1>2 DEF ChainInv, ChainOrder, CommitsInIdOrder, Live
<1> QED
  BY <1>3, <1>4 DEF ChainInv

LEMMA NextChain == ChainInv /\ [Next]_vars => ChainInv'
<1> SUFFICES ASSUME ChainInv, [Next]_vars
             PROVE  ChainInv'
  OBVIOUS
<1>1. ASSUME NEW w \in Writers, WriterStep(w)
      PROVE  ChainInv'
  <2>1. CASE Begin(w)
    BY <2>1, IdleChain DEF Begin
  <2>2. ASSUME NEW p \in Payloads, append_sealed_ledger_event(w, p)
        PROVE  ChainInv'
    BY <2>2, AppendChain
  <2>3. CASE Commit(w)
    BY <2>3, EndChain DEF Commit
  <2>4. CASE Rollback(w)
    BY <2>4, EndChain DEF Rollback
  <2> QED
    BY <1>1, <2>1, <2>2, <2>3, <2>4 DEF WriterStep
<1>2. ASSUME NEW v \in Verifiers, VerifierStep(v)
      PROVE  ChainInv'
  BY <1>2, IdleChain
  DEF VerifierStep, VerifyCount, head_hash, load_checkpoint, VerifyBase, VerifyTail,
      VerifyFull, _persist_checkpoint, anchor_head_to_s3, anchor_verified_chain_head,
      AnchorLost, unchangedByVerifier
<1>3. ASSUME NEW c, run_retention(c)
      PROVE  ChainInv'
  BY <1>3, RetentionChain
<1>4. CASE Replicate
  BY <1>4, IdleChain DEF Replicate
<1>5. ASSUME NEW k \in Ids, Alter(k)
      PROVE  ChainInv'
  BY <1>5, AlterChain
<1>6. CASE UNCHANGED vars
  BY <1>6, IdleChain DEF vars
<1> QED
  BY <1>1, <1>2, <1>3, <1>4, <1>5, <1>6 DEF Next

LEMMA ChainInvariant == ChainSpec => []ChainInv
<1> QED
  BY InitChain, NextChain, PTL DEF ChainSpec

\* Rows are committed in the order of their ids.
THEOREM CommitOrderIsIdOrder == ChainSpec => []CommitsInIdOrder
<1>1. ChainInv => CommitsInIdOrder
  BY DEF ChainInv, ChainOrder
<1> QED
  BY <1>1, ChainInvariant, PTL

LEMMA LinearFromOrder == ChainInv => ChainIsLinear
<1> SUFFICES ASSUME ChainInv, NEW i \in Ids, NEW j \in Ids, i < j,
                    i \in Present(rows), j \in Present(rows), rows[i].prev = rows[j].prev
             PROVE  FALSE
  BY DEF ChainIsLinear, Present, Ids
<1>1. Live(i) /\ Live(j) /\ i \in Nat
  BY DEF Live, Present, Ids
<1>2. HashId(rows[j].prev) >= i /\ HashId(rows[i].prev) \in 0 .. i - 1
  BY <1>1 DEF ChainInv, ChainOrder
<1> QED
  BY <1>1, <1>2

\* No two rows of the table have the same predecessor.
THEOREM ChainStaysLinear == ChainSpec => []ChainIsLinear
  BY LinearFromOrder, ChainInvariant, PTL

-----------------------------------------------------------------------------
(***************************************************************************)
(* What verifications know.  The definitions of this part speak of a table *)
(* t, so that what is known of one table can be carried over to the next.  *)
(***************************************************************************)
InTable(t, i) == t[i].st \in {"present", "archived"}

Arch(t) == {i \in Ids : t[i].st = "archived"}

Count(t, n) == Cardinality({i \in Ids : InTable(t, i) /\ i <= n})

\* From t to u committed rows stay, with their hashes, and nothing is inserted
\* below a committed row.
Grows(t, u) ==
    /\ \A i \in Ids : InTable(t, i) =>
          InTable(u, i) /\ u[i].hash = t[i].hash /\ u[i].prev = t[i].prev /\ u[i].sealed = t[i].sealed
    /\ \A i \in Ids : t[i].st = "archived" => u[i].st = "archived"
    /\ \A i, n \in Ids : i < n /\ InTable(t, n) /\ ~ InTable(t, i) => u[i].st = "none"

\* The view is what t was at some earlier time, to a session that wrote nothing.
Snap(view, t) ==
    /\ \A i \in Ids : view[i].st \in {"none", "present", "archived"}
    /\ \A i \in Ids : view[i].st # "none" =>
          InTable(t, i) /\ t[i].hash = view[i].hash /\ t[i].prev = view[i].prev
                       /\ t[i].sealed = view[i].sealed
    /\ \A i \in Ids : view[i].st = "archived" => t[i].st = "archived"
    /\ \A i, n \in Ids : i < n /\ view[n].st # "none" /\ view[i].st = "none" => t[i].st = "none"

\* A row's hash is the hash of what it said when it was sealed.
Faithful(t) ==
    \A i \in Ids : t[i].st # "none" => t[i].hash = <<i, t[i].sealed, t[i].prev>>

Unaltered(t, alt) ==
    alt = 0 => \A i \in Ids : t[i].st # "none" => t[i].payload = t[i].sealed

\* As long as nothing is archived, a row's predecessor is the row before it.
IsLive(t, i) == t[i].st \in {"pending", "present"}

Before(t, i) == {j \in Ids : IsLive(t, j) /\ j < i}

Linked(t) ==
    Arch(t) = {} =>
        \A i \in Ids : IsLive(t, i) => t[i].prev = LastHash(t, Before(t, i), GENESIS_HASH)

\* Some verification has read every committed row up to n.
Stands(t, acc, n) == \A i \in Ids : InTable(t, i) /\ i <= n => i \in acc

\* h is the hash of the committed row n and, until rows are archived, s the
\* number of committed rows up to it.
Known(t, h, s, n) ==
    /\ n \in Ids /\ InTable(t, n) /\ t[n].hash = h
    /\ s \in Nat
    /\ Arch(t) = {} => s = Count(t, n)

CpOK(c, t, acc) == Known(t, c.head, c.sealed, c.last) /\ Stands(t, acc, c.last)

\* A verification may start above r.from with r.base and r.sealed.
Based(r, t, acc) ==
    /\ \/ r.from = 0 /\ r.base = GENESIS_HASH /\ r.sealed = 0
       \/ Known(t, r.base, r.sealed, r.from)
    /\ Stands(t, acc, r.from)

Named(t, h) == \E n \in Ids : InTable(t, n) /\ t[n].hash = h

\* An anchor: exact, or (m = "atleast") with a count that may run ahead.
Anch(t, h, s, m) ==
    /\ s \in Nat
    /\ \E n \in Ids : /\ InTable(t, n) /\ t[n].hash = h
                      /\ Arch(t) = {} => s = Count(t, n) \/ (m = "atleast" /\ s >= Count(t, n))

VerFields == {"pc", "kind", "total", "head", "cp", "from", "base", "sealed", "last", "verdict"}

IsVer(r) == DOMAIN r = VerFields /\ r = [x \in VerFields |-> r[x]]

\* What a verification under way holds in its hands.
VerOK(r, t, acc, alt, m) ==
    /\ IsVer(r)
    /\ r.pc \in {"head", "load", "base", "full"} => r.from = 0 /\ r.base = GENESIS_HASH /\ r.sealed = 0
    /\ r.pc \in {"load", "base", "tail"} /\ r.head # GENESIS_HASH => Named(t, r.head)
    /\ r.pc = "base" => CpOK(r.cp, t, acc)
    /\ r.pc = "tail" => Based(r, t, acc)
    /\ r.pc = "save" => Known(t, r.head, r.sealed, r.last) /\ Stands(t, acc, r.last)
    /\ r.pc \in {"anchor", "record"} => Anch(t, r.head, r.sealed, m)
    /\ r.verdict = "invalid" => alt # 0 \/ Arch(t) # {}

TableInv ==
    /\ ChainInv
    /\ \A i \in Ids : rows[i].st \in RowStates
    /\ Faithful(rows) /\ Unaltered(rows, alterations) /\ Linked(rows)
    /\ alterations \in Nat
    /\ \A i \in Ids : rows[i].st = "archived" => i \in accepted

ReplicaInv ==
    /\ replica = [rows |-> replica.rows, checkpoint |-> replica.checkpoint]
    /\ Snap(replica.rows, rows) /\ Faithful(replica.rows)
    /\ Unaltered(replica.rows, alterations)
    /\ replica.checkpoint # None => CpOK(replica.checkpoint, rows, accepted)

OutsideInv(m) ==
    /\ checkpoint # None => CpOK(checkpoint, rows, accepted)
    /\ \A a \in anchors \cup published : Anch(rows, a.head, a.sealed, m)

VerifierInv(m) ==
    /\ ver = [v \in Verifiers |-> ver[v]]
    /\ \A v \in Verifiers : VerOK(ver[v], rows, accepted, alterations, m)

HistoryInv(m) == TableInv /\ ReplicaInv /\ OutsideInv(m) /\ VerifierInv(m)

(***************************************************************************)
(* What is known of a table stays true as the table grows.                 *)
(***************************************************************************)
LEMMA IdsFinite ==
    ASSUME NEW S \in SUBSET Ids
    PROVE  IsFiniteSet(S) /\ Cardinality(S) \in Nat
<1>1. IsFiniteSet(Ids)
  BY ChainAssumption, FS_Interval DEF Ids
<1>2. IsFiniteSet(S)
  BY <1>1, FS_Subset
<1> QED
  BY <1>2, FS_CardinalityType

LEMMA GrowsSelf ==
    ASSUME NEW t, \A i, n \in Ids : i < n /\ InTable(t, n) /\ ~ InTable(t, i) => t[i].st = "none"
    PROVE  Grows(t, t)
  BY DEF Grows

LEMMA ArchGrows ==
    ASSUME NEW t, NEW u, Grows(t, u), Arch(u) = {}
    PROVE  Arch(t) = {}
  BY DEF Grows, Arch

LEMMA CountGrows ==
    ASSUME NEW t, NEW u, Grows(t, u), NEW n \in Ids, InTable(t, n)
    PROVE  /\ {i \in Ids : InTable(u, i) /\ i <= n} = {i \in Ids : InTable(t, i) /\ i <= n}
           /\ Count(u, n) = Count(t, n)
<1>1. \A i \in Ids : i <= n => (InTable(u, i) <=> InTable(t, i))
  <2> SUFFICES ASSUME NEW i \in Ids, i <= n, ~ InTable(t, i)
               PROVE  ~ InTable(u, i)
    BY DEF Grows
  <2>1. i < n
    BY DEF Ids
  <2> QED
    BY <2>1 DEF Grows, InTable
<1>2. {i \in Ids : InTable(u, i) /\ i <= n} = {i \in Ids : InTable(t, i) /\ i <= n}
  BY <1>1
<1> QED
  BY <1>2 DEF Count

LEMMA StandsGrows ==
    ASSUME NEW t, NEW u, Grows(t, u), NEW acc, NEW bcc, acc \subseteq bcc,
           NEW n, n = 0 \/ (n \in Ids /\ InTable(t, n)), Stands(t, acc, n)
    PROVE  Stands(u, bcc, n)
<1>1. CASE n = 0
  BY <1>1 DEF Stands, Ids
<1>2. CASE n \in Ids /\ InTable(t, n)
  BY <1>2, CountGrows DEF Stands
<1> QED
  BY <1>1, <1>2

LEMMA KnownGrows ==
    ASSUME NEW t, NEW u, Grows(t, u), NEW h, NEW s, NEW n, Known(t, h, s, n)
    PROVE  Known(u, h, s, n)
<1>1. n \in Ids /\ InTable(t, n) /\ t[n].hash = h /\ s \in Nat
  BY DEF Known
<1>2. InTable(u, n) /\ u[n].hash = h
  BY <1>1 DEF Grows
<1>3. Arch(u) = {} => s = Count(u, n)
  BY <1>1, ArchGrows, CountGrows DEF Known
<1> QED
  BY <1>1, <1>2, <1>3 DEF Known

LEMMA CpGrows ==
    ASSUME NEW t, NEW u, Grows(t, u), NEW acc, NEW bcc, acc \subseteq bcc, NEW c, CpOK(c, t, acc)
    PROVE  CpOK(c, u, bcc)
<1>1. c.last \in Ids /\ InTable(t, c.last)
  BY DEF CpOK, Known
<1> QED
  BY <1>1, KnownGrows, StandsGrows DEF CpOK

LEMMA NamedGrows ==
    ASSUME NEW t, NEW u, Grows(t, u), NEW h, Named(t, h)
    PROVE  Named(u, h)
  BY DEF Named, Grows

LEMMA AnchGrows ==
    ASSUME NEW t, NEW u, Grows(t, u), NEW h, NEW s, NEW m, Anch(t, h, s, m)
    PROVE  Anch(u, h, s, m)
<1>1. PICK n \in Ids : /\ InTable(t, n) /\ t[n].hash = h
                       /\ Arch(t) = {} => s = Count(t, n) \/ (m = "atleast" /\ s >= Count(t, n))
  BY DEF Anch
<1>2. InTable(u, n) /\ u[n].hash = h
  BY <1>1 DEF Grows
<1>3. Arch(u) = {} => s = Count(u, n) \/ (m = "atleast" /\ s >= Count(u, n))
  BY <1>1, ArchGrows, CountGrows
<1> QED
  BY <1>2, <1>3 DEF Anch

LEMMA BasedGrows ==
    ASSUME NEW t, NEW u, Grows(t, u), NEW acc, NEW bcc, acc \subseteq bcc, NEW r, Based(r, t, acc)
    PROVE  Based(r, u, bcc)
<1>1. r.from = 0 \/ (r.from \in Ids /\ InTable(t, r.from))
  BY DEF Based, Known
<1>2. Stands(u, bcc, r.from)
  BY <1>1, StandsGrows DEF Based
<1> QED
  BY <1>2, KnownGrows DEF Based

LEMMA SnapGrows ==
    ASSUME NEW t, NEW u, Grows(t, u), NEW view, Snap(view, t)
    PROVE  Snap(view, u)
<1>1. \A i \in Ids : /\ view[i].st \in {"none", "present", "archived"}
                     /\ view[i].st # "none" =>
                           InTable(u, i) /\ u[i].hash = view[i].hash /\ u[i].prev = view[i].prev
                                        /\ u[i].sealed = view[i].sealed
                     /\ view[i].st = "archived" => u[i].st = "archived"
  BY DEF Snap, Grows
<1>2. ASSUME NEW i \in Ids, NEW n \in Ids, i < n, view[n].st # "none", view[i].st = "none"
      PROVE  u[i].st = "none"
  <2>1. InTable(t, n) /\ t[i].st = "none"
    BY <1>2 DEF Snap
  <2>2. ~ InTable(t, i)
    BY <2>1 DEF InTable
  <2> QED
    BY <1>2, <2>1, <2>2 DEF Grows
<1> QED
  BY <1>1, <1>2 DEF Snap

LEMMA VerGrows ==
    ASSUME NEW t, NEW u, Grows(t, u), NEW acc, NEW bcc, acc \subseteq bcc,
           NEW alt, NEW blt, blt = 0 => alt = 0, NEW m, NEW r, VerOK(r, t, acc, alt, m)
    PROVE  VerOK(r, u, bcc, blt, m)
<1>1. r.pc \in {"load", "base", "tail"} /\ r.head # GENESIS_HASH => Named(u, r.head)
  BY NamedGrows DEF VerOK
<1>2. r.pc = "base" => CpOK(r.cp, u, bcc)
  BY CpGrows DEF VerOK
<1>3. r.pc = "tail" => Based(r, u, bcc)
  BY BasedGrows DEF VerOK
<1>4. r.pc = "save" => Known(u, r.head, r.sealed, r.last) /\ Stands(u, bcc, r.last)
  <2> SUFFICES ASSUME r.pc = "save"
               PROVE  Known(u, r.head, r.sealed, r.last) /\ Stands(u, bcc, r.last)
    OBVIOUS
  <2>1. Known(t, r.head, r.sealed, r.last) /\ Stands(t, acc, r.last)
    BY DEF VerOK
  <2>2. r.last \in Ids /\ InTable(t, r.last)
    BY <2>1 DEF Known
  <2> QED
    BY <2>1, <2>2, KnownGrows, StandsGrows
<1>5. r.pc \in {"anchor", "record"} => Anch(u, r.head, r.sealed, m)
  BY AnchGrows DEF VerOK
<1>6. r.verdict = "invalid" => blt # 0 \/ Arch(u) # {}
  BY ArchGrows DEF VerOK
<1> QED
  BY <1>1, <1>2, <1>3, <1>4, <1>5, <1>6 DEF VerOK

(***************************************************************************)
(* The parts of the invariant that a step leaves alone.                    *)
(***************************************************************************)
LEMMA ReplicaStays ==
    ASSUME ReplicaInv, Grows(rows, rows'), accepted \subseteq accepted',
           alterations' = 0 => alterations = 0, replica' = replica
    PROVE  ReplicaInv'
<1>1. Snap(replica.rows, rows')
  BY SnapGrows DEF ReplicaInv
<1>2. replica.checkpoint # None => CpOK(replica.checkpoint, rows', accepted')
  BY CpGrows DEF ReplicaInv
<1>3. Unaltered(replica.rows, alterations')
  BY DEF ReplicaInv, Unaltered
<1> QED
  BY <1>1, <1>2, <1>3 DEF ReplicaInv

LEMMA OutsideStays ==
    ASSUME NEW m, OutsideInv(m), Grows(rows, rows'), accepted \subseteq accepted',
           UNCHANGED <<checkpoint, anchors, published>>
    PROVE  OutsideInv(m)'
<1>1. checkpoint # None => CpOK(checkpoint, rows', accepted')
  BY CpGrows DEF OutsideInv
<1>2. \A a \in anchors \cup published : Anch(rows', a.head, a.sealed, m)
  BY AnchGrows DEF OutsideInv
<1> QED
  BY <1>1, <1>2 DEF OutsideInv

LEMMA VerifiersStay ==
    ASSUME NEW m, VerifierInv(m), Grows(rows, rows'), accepted \subseteq accepted',
           alterations' = 0 => alterations = 0, ver' = ver
    PROVE  VerifierInv(m)'
<1>1. \A v \in Verifiers : VerOK(ver[v], rows', accepted', alterations', m)
  BY VerGrows DEF VerifierInv
<1> QED
  BY <1>1 DEF VerifierInv

LEMMA OneVerifierMoves ==
    ASSUME NEW m, VerifierInv(m), Grows(rows, rows'), accepted \subseteq accepted',
           alterations' = alterations, NEW v \in Verifiers, NEW r, Step(v, r),
           VerOK(r, rows', accepted', alterations', m)
    PROVE  VerifierInv(m)'
<1>1. ver' = [ver EXCEPT ![v] = r] /\ ver = [w \in Verifiers |-> ver[w]]
  BY DEF Step, VerifierInv
<1>2. \A w \in Verifiers : VerOK(ver[w], rows', accepted', alterations', m)
  BY VerGrows DEF VerifierInv
<1>3. \A w \in Verifiers : ver'[w] = IF w = v THEN r ELSE ver[w]
  BY <1>1
<1>4. ver' = [w \in Verifiers |-> ver'[w]]
  BY <1>1
<1> QED
  BY <1>2, <1>3, <1>4 DEF VerifierInv

(***************************************************************************)
(* Steps of the table                                                      *)
(***************************************************************************)
\* Nothing uncommitted lies below a committed row.
LEMMA NothingBelow ==
    ASSUME ChainInv, NEW i \in Ids, NEW n \in Ids, i < n, InTable(rows, n), ~ InTable(rows, i),
           rows[i].st \in RowStates
    PROVE  rows[i].st = "none"
  BY DEF ChainInv, ChainOrder, CommitsInIdOrder, InTable, RowStates, Ids

LEMMA TableIdles ==
    ASSUME TableInv, UNCHANGED <<rows, nextId, lock, alterations>>, accepted \subseteq accepted'
    PROVE  TableInv' /\ Grows(rows, rows')
<1>1. ChainInv'
  BY IdleChain DEF TableInv
<1>2. TableInv'
  BY <1>1 DEF TableInv
<1>3. Grows(rows, rows)
  BY NothingBelow, GrowsSelf DEF TableInv
<1> QED
  BY <1>2, <1>3

LEMMA LastHashSame ==
    ASSUME NEW t, NEW u, NEW S \in SUBSET Ids, \A j \in S : u[j].hash = t[j].hash, NEW base
    PROVE  LastHash(u, S, base) = LastHash(t, S, base)
<1>1. CASE S = {}
  BY <1>1 DEF LastHash
<1>2. CASE S # {}
  BY <1>2, MaxOfIds DEF LastHash
<1> QED
  BY <1>1, <1>2

\* A sealed append: the new row is the last one, and its predecessor is the
\* row before it.
LEMMA TableAppends ==
    ASSUME TableInv, NEW w \in Writers, NEW p, append_sealed_ledger_event(w, p)
    PROVE  TableInv' /\ Grows(rows, rows')
<1> DEFINE n == nextId
           prev == LastHash(rows, Earlier(w, n), GENESIS_HASH)
           new == [st |-> "pending", by |-> w, payload |-> p, sealed |-> p, prev |-> prev,
                   hash |-> <<n, p, prev>>, born |-> began[w]]
<1>1. /\ n \in Ids /\ lock \in {None, w}
      /\ rows' = [rows EXCEPT ![n] = new]
      /\ UNCHANGED <<accepted, alterations>>
  BY DEF append_sealed_ledger_event, seal_ledger_event, compute_row_hash, chain_append_lock
<1>2. \A i \in Ids : i \in Nat
  BY DEF Ids
<1>3. /\ rows'[n] = new
      /\ \A i \in Ids : i # n => rows'[i] = rows[i]
  BY <1>1 DEF TableInv, ChainInv, Shape
<1>4. \A i \in Ids : rows[i].st # "none" => i < n
  BY <1>1, <1>2 DEF TableInv, ChainInv, ChainOrder, Shape
<1>5. rows[n].st = "none"
  BY <1>1, <1>2, <1>4
<1>6. Earlier(w, n) = {i \in Ids : IsLive(rows, i)}
  <2>1. \A i \in Ids : rows[i].st = "pending" => rows[i].by = w
    BY <1>1, ChainAssumption DEF TableInv, ChainInv, ChainOrder
  <2> QED
    BY <2>1, <1>4 DEF Earlier, IsLive
<1> HIDE DEF new
<1>7. new.st = "pending" /\ new.payload = p /\ new.sealed = p /\ new.prev = prev /\ new.hash = <<n, p, prev>>
  BY DEF new
<1>8. Grows(rows, rows')
  <2>1. \A i \in Ids : InTable(rows, i) => rows'[i] = rows[i]
    BY <1>3, <1>5 DEF InTable
  <2>2. ASSUME NEW i \in Ids, NEW k \in Ids, i < k, InTable(rows, k), ~ InTable(rows, i)
        PROVE  rows'[i].st = "none"
    <3>1. rows[i].st = "none"
      BY <2>2, NothingBelow DEF TableInv
    <3>2. i # n
      BY <2>2, <1>2, <1>4 DEF InTable
    <3> QED
      BY <3>1, <3>2, <1>3
  <2> QED
    BY <2>1, <2>2 DEF Grows, InTable
<1>9. Faithful(rows') /\ Unaltered(rows', alterations')
  BY <1>1, <1>3, <1>7 DEF TableInv, Faithful, Unaltered
<1>10. Linked(rows')
  <2> SUFFICES ASSUME Arch(rows') = {}, NEW i \in Ids, IsLive(rows', i)
               PROVE  rows'[i].prev = LastHash(rows', Before(rows', i), GENESIS_HASH)
    BY DEF Linked
  <2>1. Arch(rows) = {}
    BY <1>3, <1>5 DEF Arch
  <2>2. i # n => IsLive(rows, i) /\ i < n
    BY <1>3, <1>4 DEF IsLive
  <2>3. Before(rows', i) = Before(rows, i)
    BY <2>2, <1>2, <1>3, <1>5 DEF Before, IsLive
  <2>4. \A j \in Before(rows, i) : rows'[j].hash = rows[j].hash
    BY <1>3, <1>5 DEF Before, IsLive
  <2>5. LastHash(rows', Before(rows, i), GENESIS_HASH) = LastHash(rows, Before(rows, i), GENESIS_HASH)
    BY <2>4, LastHashSame DEF Before
  <2>6. CASE i = n
    <3>1. Before(rows, i) = Earlier(w, n)
      BY <2>6, <1>4, <1>6 DEF Before, IsLive
    <3> QED
      BY <2>3, <2>5, <2>6, <3>1, <1>3, <1>7
  <2>7. CASE i # n
    BY <2>1, <2>2, <2>3, <2>5, <2>7, <1>3 DEF TableInv, Linked
  <2> QED
    BY <2>6, <2>7
<1>11. ChainInv'
  BY AppendChain DEF TableInv
<1>12. \A i \in Ids : rows'[i].st \in RowStates /\ (rows'[i].st = "archived" => i \in accepted')
  BY <1>1, <1>3, <1>7 DEF TableInv, RowStates
<1> QED
  BY <1>1, <1>8, <1>9, <1>10, <1>11, <1>12 DEF TableInv

\* The end of a transaction.  Every uncommitted row is the holder's and lies
\* above every committed one, so a rollback takes rows off the end only.
LEMMA TableEnds ==
    ASSUME TableInv, NEW w \in Writers, NEW commits \in BOOLEAN, EndTransaction(w, commits)
    PROVE  TableInv' /\ Grows(rows, rows')
<1> DEFINE mine(i) == rows[i].st = "pending" /\ rows[i].by = w
<1>1. /\ rows' = [i \in Ids |-> IF mine(i) THEN Ended(rows[i], commits) ELSE rows[i]]
      /\ UNCHANGED <<accepted, alterations>>
  BY DEF EndTransaction
<1>2. \A i \in Ids : ~ mine(i) => rows'[i] = rows[i]
  BY <1>1
<1>3. ASSUME NEW i \in Ids, mine(i), ~ commits
      PROVE  rows'[i].st = "none"
  BY <1>1, <1>3 DEF Ended, NoRow
<1>4. ASSUME NEW i \in Ids, mine(i), commits
      PROVE  /\ rows'[i].st = "present" /\ rows'[i].hash = rows[i].hash
             /\ rows'[i].prev = rows[i].prev /\ rows'[i].sealed = rows[i].sealed
             /\ rows'[i].payload = rows[i].payload
  <2>1. rows'[i] = Ended(rows[i], TRUE)
    BY <1>1, <1>4
  <2>2. IsRow(rows[i])
    BY DEF TableInv, ChainInv, Shape
  <2> QED
    BY <2>1, <2>2, CommittedRow
<1>5. \A i \in Ids : rows[i].st = "pending" => rows[i].by = lock
  BY DEF TableInv, ChainInv, ChainOrder
<1> HIDE DEF mine
<1>6. \A i \in Ids : mine(i) => rows[i].st = "pending"
  BY DEF mine
<1>7. Grows(rows, rows')
  <2>1. \A i \in Ids : InTable(rows, i) => rows'[i] = rows[i]
    BY <1>2, <1>6 DEF InTable
  <2>2. ASSUME NEW i \in Ids, NEW k \in Ids, i < k, InTable(rows, k), ~ InTable(rows, i)
        PROVE  rows'[i].st = "none"
    <3>1. rows[i].st = "none"
      BY <2>2, NothingBelow DEF TableInv
    <3> QED
      BY <3>1, <1>2, <1>6
  <2> QED
    BY <2>1, <2>2 DEF Grows, InTable
<1>8. Faithful(rows') /\ Unaltered(rows', alterations')
  <2>1. \A i \in Ids : rows'[i].st # "none" =>
           /\ rows[i].st # "none" /\ rows'[i].hash = rows[i].hash /\ rows'[i].prev = rows[i].prev
           /\ rows'[i].sealed = rows[i].sealed /\ rows'[i].payload = rows[i].payload
    BY <1>2, <1>3, <1>4, <1>6
  <2> QED
    BY <2>1, <1>1 DEF TableInv, Faithful, Unaltered
<1>9. Linked(rows')
  <2> SUFFICES ASSUME Arch(rows') = {}, NEW i \in Ids, IsLive(rows', i)
               PROVE  rows'[i].prev = LastHash(rows', Before(rows', i), GENESIS_HASH)
    BY DEF Linked
  <2>1. Arch(rows) = {}
    BY <1>2, <1>6 DEF Arch
  <2>2. IsLive(rows, i) /\ rows'[i].prev = rows[i].prev
    BY <1>2, <1>3, <1>4, <1>6 DEF IsLive
  <2>3. \A j \in Ids : j < i /\ mine(j) => commits
    <3> SUFFICES ASSUME NEW j \in Ids, j < i, mine(j), ~ commits
                 PROVE  FALSE
      OBVIOUS
    <3>1. ~ mine(i) /\ rows[j].st = "pending" /\ rows[j].by = w
      BY <1>3 DEF IsLive, mine
    <3>2. rows[i].st = "present"
      BY <2>2, <3>1, <1>5 DEF IsLive, mine
    <3>3. i < j
      BY <3>1, <3>2 DEF TableInv, ChainInv, ChainOrder, CommitsInIdOrder
    <3> QED
      BY <3>3 DEF Ids
  <2>4. \A j \in Ids : j < i => (IsLive(rows', j) <=> IsLive(rows, j))
    BY <2>3, <1>2, <1>4, <1>6 DEF IsLive
  <2>5. Before(rows', i) = Before(rows, i)
    BY <2>4 DEF Before
  <2>6. \A j \in Before(rows, i) : rows'[j].hash = rows[j].hash
    BY <2>3, <1>2, <1>4 DEF Before
  <2>7. LastHash(rows', Before(rows, i), GENESIS_HASH) = LastHash(rows, Before(rows, i), GENESIS_HASH)
    BY <2>6, LastHashSame DEF Before
  <2> QED
    BY <2>1, <2>2, <2>5, <2>7 DEF TableInv, Linked
<1>10. ChainInv'
  BY EndChain DEF TableInv
<1>11. \A i \in Ids : rows'[i].st \in RowStates /\ (rows'[i].st = "archived" => i \in accepted')
  BY <1>1, <1>2, <1>3, <1>4 DEF TableInv, RowStates
<1> QED
  BY <1>1, <1>7, <1>8, <1>9, <1>10, <1>11 DEF TableInv

\* The retention job takes verified rows only, since the checkpoint stands.
LEMMA TableArchives ==
    ASSUME TableInv, NEW m, OutsideInv(m), NEW c, run_retention(c)
    PROVE  TableInv' /\ Grows(rows, rows')
<1> DEFINE gone(i) == i \in Cold(c) /\ Deletable(i)
<1>1. /\ rows' = [i \in Ids |-> IF gone(i) THEN [rows[i] EXCEPT !.st = "archived", !.born = 0]
                                ELSE rows[i]]
      /\ checkpoint # None
      /\ UNCHANGED <<accepted, alterations>>
  BY DEF run_retention
<1>2. \A i \in Ids : ~ gone(i) => rows'[i] = rows[i]
  BY <1>1
<1>3. ASSUME NEW i \in Ids, gone(i)
      PROVE  /\ rows[i].st = "present" /\ rows'[i].st = "archived" /\ i \in accepted
             /\ rows'[i].hash = rows[i].hash /\ rows'[i].prev = rows[i].prev
             /\ rows'[i].sealed = rows[i].sealed /\ rows'[i].payload = rows[i].payload
  <2>1. rows[i].st = "present" /\ i <= checkpoint.last
    BY <1>3 DEF Cold, Present, Deletable
  <2>2. i \in accepted
    BY <2>1, <1>1 DEF OutsideInv, CpOK, Stands, InTable
  <2>3. IsRow(rows[i])
    BY DEF TableInv, ChainInv, Shape
  <2>4. rows'[i] = [rows[i] EXCEPT !.st = "archived", !.born = 0]
    BY <1>1, <1>3
  <2> QED
    BY <2>1, <2>2, <2>3, <2>4, ArchivedRow
<1> HIDE DEF gone
<1>4. Grows(rows, rows')
  <2>1. ASSUME NEW i \in Ids, NEW k \in Ids, i < k, InTable(rows, k), ~ InTable(rows, i)
        PROVE  rows'[i].st = "none"
    <3>1. rows[i].st = "none"
      BY <2>1, NothingBelow DEF TableInv
    <3> QED
      BY <3>1, <1>2, <1>3
  <2> QED
    BY <2>1, <1>2, <1>3 DEF Grows, InTable
<1>5. Faithful(rows') /\ Unaltered(rows', alterations')
  <2>1. \A i \in Ids : /\ rows'[i].st # "none" => rows[i].st # "none"
                       /\ rows'[i].hash = rows[i].hash /\ rows'[i].prev = rows[i].prev
                       /\ rows'[i].sealed = rows[i].sealed /\ rows'[i].payload = rows[i].payload
    BY <1>2, <1>3
  <2> QED
    BY <2>1, <1>1 DEF TableInv, Faithful, Unaltered
<1>6. Linked(rows')
  <2> SUFFICES ASSUME Arch(rows') = {}
               PROVE  Linked(rows')
    BY DEF Linked
  <2>1. \A i \in Ids : rows'[i] = rows[i]
    BY <1>2, <1>3 DEF Arch
  <2>2. rows' = rows
    BY <2>1, <1>1 DEF TableInv, ChainInv, Shape
  <2> QED
    BY <2>2 DEF TableInv
<1>7. ChainInv'
  BY RetentionChain DEF TableInv
<1>8. \A i \in Ids : rows'[i].st \in RowStates /\ (rows'[i].st = "archived" => i \in accepted')
  BY <1>1, <1>2, <1>3 DEF TableInv, RowStates
<1> QED
  BY <1>1, <1>4, <1>5, <1>6, <1>7, <1>8 DEF TableInv

LEMMA TableIsAltered ==
    ASSUME TableInv, NEW k \in Ids, Alter(k)
    PROVE  TableInv' /\ Grows(rows, rows') /\ alterations' # 0
<1>1. /\ rows' = [rows EXCEPT ![k].payload = Corrupt]
      /\ alterations' = alterations + 1 /\ accepted' = accepted
  BY DEF Alter
<1>2. \A i \in Ids : /\ rows'[i].st = rows[i].st /\ rows'[i].sealed = rows[i].sealed
                     /\ rows'[i].prev = rows[i].prev /\ rows'[i].hash = rows[i].hash
  BY <1>1 DEF TableInv, ChainInv, Shape, IsRow
<1>3. alterations' # 0 /\ alterations' \in Nat
  BY <1>1 DEF TableInv
<1>4. Grows(rows, rows')
  <2>1. ASSUME NEW i \in Ids, NEW j \in Ids, i < j, InTable(rows, j), ~ InTable(rows, i)
        PROVE  rows'[i].st = "none"
    BY <2>1, <1>2, NothingBelow DEF TableInv
  <2> QED
    BY <2>1, <1>2 DEF Grows, InTable
<1>5. Faithful(rows') /\ Unaltered(rows', alterations')
  BY <1>2, <1>3 DEF TableInv, Faithful, Unaltered
<1>6. Linked(rows')
  <2> SUFFICES ASSUME Arch(rows') = {}, NEW i \in Ids, IsLive(rows', i)
               PROVE  rows'[i].prev = LastHash(rows', Before(rows', i), GENESIS_HASH)
    BY DEF Linked
  <2>1. Arch(rows) = {} /\ IsLive(rows, i) /\ Before(rows', i) = Before(rows, i)
    BY <1>2 DEF Arch, IsLive, Before
  <2>2. LastHash(rows', Before(rows, i), GENESIS_HASH) = LastHash(rows, Before(rows, i), GENESIS_HASH)
    BY <1>2, LastHashSame DEF Before
  <2> QED
    BY <2>1, <2>2, <1>2 DEF TableInv, Linked
<1>7. ChainInv'
  BY AlterChain DEF TableInv
<1> QED
  BY <1>1, <1>2, <1>3, <1>4, <1>5, <1>6, <1>7 DEF TableInv

(***************************************************************************)
(* Steps of a verification                                                 *)
(***************************************************************************)
LEMMA CommittedView ==
    ASSUME TableInv
    PROVE  Snap(Committed, rows) /\ Faithful(Committed) /\ Unaltered(Committed, alterations)
<1>1. \A i \in Ids : /\ InTable(rows, i) => Committed[i] = rows[i]
                     /\ ~ InTable(rows, i) => Committed[i].st = "none"
  BY DEF TableInv, Committed, NoRow, InTable, RowStates
<1>2. ASSUME NEW i \in Ids, NEW n \in Ids, i < n, Committed[n].st # "none", Committed[i].st = "none"
      PROVE  rows[i].st = "none"
  <2>1. InTable(rows, n)
    BY <1>1, <1>2
  <2>2. ~ InTable(rows, i)
    BY <1>1, <1>2 DEF InTable
  <2> QED
    BY <1>2, <2>1, <2>2, NothingBelow DEF TableInv
<1>3. Snap(Committed, rows)
  BY <1>1, <1>2 DEF Snap, InTable
<1> QED
  BY <1>1, <1>3 DEF TableInv, Faithful, Unaltered, InTable

LEMMA SessionView ==
    ASSUME TableInv, ReplicaInv, NEW v
    PROVE  Snap(View(v), rows) /\ Faithful(View(v)) /\ Unaltered(View(v), alterations)
  BY CommittedView DEF ReplicaInv, View

\* A pass over the rows above a good base ends at a known head, and the rows it
\* has read make every row up to there a read one.
LEMMA PassEnds ==
    ASSUME NEW t, NEW view, Snap(view, t), NEW acc, \A i \in Ids : t[i].st = "archived" => i \in acc,
           NEW r, IsVer(r), Based(r, t, acc), NEW q, q = Verified(view, r)
    PROVE  /\ IsVer(q) /\ q.pc = "save" /\ q.verdict = r.verdict
           /\ q.head # GENESIS_HASH =>
                 /\ Known(t, q.head, q.sealed, q.last)
                 /\ Stands(t, acc \cup Tail(view, r.from), q.last)
<1> DEFINE ids == Tail(view, r.from)
           m == Max(ids)
<1>1. /\ IsVer(q) /\ q.pc = "save" /\ q.verdict = r.verdict
      /\ q.head = LastHash(view, ids, r.base)
      /\ q.sealed = r.sealed + Cardinality(ids)
      /\ q.last = IF ids = {} THEN r.from ELSE m
  BY DEF IsVer, VerFields, Verified
<1>2. ids \in SUBSET Ids /\ (\A i \in Ids : i \in Nat)
  BY DEF Tail, Present, Ids
<1>3. r.from \in Nat /\ r.sealed \in Nat /\ Stands(t, acc, r.from)
  BY <1>2 DEF Based, Known
<1>4. Cardinality(ids) \in Nat /\ IsFiniteSet(ids)
  BY <1>2, IdsFinite
<1>5. CASE ids = {}
  <2>1. q.head = r.base /\ q.sealed = r.sealed /\ q.last = r.from
    <3>1. Cardinality(ids) = 0
      BY <1>5, FS_EmptySet
    <3> QED
      BY <1>1, <1>3, <1>5, <3>1 DEF LastHash
  <2>2. Stands(t, acc \cup ids, q.last)
    BY <2>1, <1>3 DEF Stands
  <2> QED
    BY <2>1, <2>2, <1>1 DEF Based
<1>6. CASE ids # {}
  <2>1. m \in ids /\ \A y \in ids : y <= m
    BY <1>2, <1>6, MaxOfIds
  <2>2. m \in Ids /\ view[m].st = "present" /\ m > r.from
    BY <2>1 DEF Tail, Present
  <2>3. InTable(t, m) /\ t[m].hash = view[m].hash
    BY <2>2 DEF Snap
  <2>4. q.head = t[m].hash /\ q.last = m
    BY <2>3, <1>1, <1>6 DEF LastHash
  <2>5. ASSUME NEW i \in Ids, InTable(t, i), i <= m, i > r.from
        PROVE  i \in ids \/ t[i].st = "archived"
    <3>1. view[i].st # "none"
      BY <1>2, <2>2, <2>5 DEF Snap, InTable
    <3>2. view[i].st = "present" \/ t[i].st = "archived"
      BY <3>1 DEF Snap
    <3> QED
      BY <3>2, <2>5 DEF Tail, Present
  <2>6. Stands(t, acc \cup ids, m)
    <3> SUFFICES ASSUME NEW i \in Ids, InTable(t, i), i <= m
                 PROVE  i \in acc \cup ids
      BY DEF Stands
    <3>1. CASE i <= r.from
      BY <3>1, <1>3 DEF Stands
    <3>2. CASE i > r.from
      BY <3>2, <2>5
    <3> QED
      BY <3>1, <3>2, <1>2, <1>3
  <2>7. ASSUME Arch(t) = {}
        PROVE  q.sealed = Count(t, m)
    <3> DEFINE low == {i \in Ids : InTable(t, i) /\ i <= r.from}
    <3>1. r.sealed = Cardinality(low)
      <4>1. CASE r.from = 0 /\ r.sealed = 0
        <5>1. low = {}
          BY <4>1, <1>2 DEF Ids
        <5> QED
          BY <4>1, <5>1, FS_EmptySet
      <4>2. CASE Known(t, r.base, r.sealed, r.from)
        BY <4>2, <2>7 DEF Known, Count
      <4> QED
        BY <4>1, <4>2 DEF Based
    <3>2. \A i \in ids : i > r.from /\ InTable(t, i)
      BY DEF Tail, Present, Snap
    <3>3. {i \in Ids : InTable(t, i) /\ i <= m} = low \cup ids
      <4>1. \A i \in Ids : t[i].st # "archived"
        BY <2>7 DEF Arch
      <4> QED
        BY <4>1, <3>2, <2>1, <2>2, <2>5, <1>2, <1>3
    <3>4. low \cap ids = {}
      BY <3>2, <1>2, <1>3
    <3>5. IsFiniteSet(low) /\ Cardinality(low) \in Nat
      BY IdsFinite
    <3>6. Cardinality(low \cup ids) = Cardinality(low) + Cardinality(ids) - Cardinality(low \cap ids)
      BY <3>5, <1>4, FS_Union
    <3>7. Cardinality(low \cap ids) = 0
      BY <3>4, FS_EmptySet
    <3>8. Cardinality(low \cup ids) = Cardinality(low) + Cardinality(ids)
      <4> HIDE DEF low, ids
      <4> QED BY <3>5, <3>6, <3>7, <1>4
    <3> QED
      BY <3>1, <3>3, <3>8, <1>1 DEF Count
  <2>8. q.sealed \in Nat
    BY <1>1, <1>3, <1>4
  <2> QED
    BY <2>2, <2>3, <2>4, <2>6, <2>7, <2>8, <1>1 DEF Known
<1> QED
  BY <1>5, <1>6

\* The full pass over rows nobody has altered or archived finds every link.
LEMMA FullPassHolds ==
    ASSUME NEW t, NEW view, NEW alt, Snap(view, t), Faithful(view), Unaltered(view, alt), Linked(t),
           alt = 0, Arch(t) = {}, NEW r, r.from = 0, r.base = GENESIS_HASH
    PROVE  RowsVerify(view, r)
<1> SUFFICES ASSUME NEW i \in Tail(view, r.from)
             PROVE  RowVerifies(view, Tail(view, r.from), r.base, i)
  BY DEF RowsVerify
<1> DEFINE S == {j \in Tail(view, r.from) : j < i}
<1>1. i \in Ids /\ view[i].st = "present" /\ \A j \in Ids : j > 0
  BY DEF Tail, Present, Ids
<1>2. \A j \in Ids : t[j].st # "archived"
  BY DEF Arch
<1>3. t[i].prev = view[i].prev /\ IsLive(t, i)
  BY <1>1, <1>2 DEF Snap, InTable, IsLive
<1>4. S = Before(t, i)
  <2>1. ASSUME NEW j \in Ids, j < i
        PROVE  view[j].st = "present" <=> IsLive(t, j)
    <3>1. view[j].st # "none" => InTable(t, j)
      BY DEF Snap
    <3>2. view[j].st = "none" => t[j].st = "none"
      BY <1>1, <2>1 DEF Snap
    <3>3. view[j].st \in {"none", "present"}
      BY <1>2 DEF Snap
    <3> QED
      BY <3>1, <3>2, <3>3, <1>2 DEF InTable, IsLive
  <2> QED
    BY <2>1, <1>1 DEF Tail, Present, Before
<1>5. \A j \in S : view[j].hash = t[j].hash
  BY DEF Tail, Present, Snap
<1>6. LastHash(view, S, GENESIS_HASH) = LastHash(t, S, GENESIS_HASH)
  BY <1>4, <1>5, LastHashSame DEF Before
<1>7. view[i].prev = LastHash(view, S, r.base)
  BY <1>1, <1>3, <1>4, <1>6 DEF Linked
<1>8. view[i].hash = <<i, view[i].payload, view[i].prev>>
  BY <1>1 DEF Faithful, Unaltered
<1> QED
  BY <1>7, <1>8 DEF RowVerifies, compute_row_hash

LEMMA VerifierMoves ==
    ASSUME NEW m, HistoryInv(m), NEW v \in Verifiers, NEW r, Step(v, r),
           UNCHANGED <<unchangedByVerifier, checkpoint, anchors, published>>,
           accepted \subseteq accepted', VerOK(r, rows, accepted', alterations, m)
    PROVE  HistoryInv(m)'
<1>1. UNCHANGED <<rows, nextId, lock, alterations, replica, checkpoint, anchors, published>>
  BY DEF unchangedByVerifier
<1>2. TableInv' /\ Grows(rows, rows')
  BY <1>1, TableIdles DEF HistoryInv
<1>3. ReplicaInv' /\ OutsideInv(m)'
  BY <1>1, <1>2, ReplicaStays, OutsideStays DEF HistoryInv
<1>4. VerifierInv(m)'
  BY <1>1, <1>2, OneVerifierMoves DEF HistoryInv
<1> QED
  BY <1>2, <1>3, <1>4 DEF HistoryInv

LEMMA IdleIsFine ==
    ASSUME NEW t, NEW acc, NEW alt, NEW m, NEW verdict, verdict = "invalid" => alt # 0 \/ Arch(t) # {}
    PROVE  VerOK(Idle(verdict), t, acc, alt, m)
  BY DEF VerOK, IsVer, VerFields, Idle

LEMMA FullIsFine ==
    ASSUME NEW t, NEW acc, NEW alt, NEW m, NEW kind, NEW total
    PROVE  VerOK([Idle(None) EXCEPT !.pc = "full", !.kind = kind, !.total = total], t, acc, alt, m)
  BY ChainAssumption DEF VerOK, IsVer, VerFields, Idle

LEMMA ReturnIsFine ==
    ASSUME NEW t, NEW acc, NEW alt, NEW m, NEW r, IsVer(r),
           r.verdict = "invalid" => alt # 0 \/ Arch(t) # {},
           r.kind = "anchor" /\ r.head # GENESIS_HASH => Anch(t, r.head, r.sealed, m)
    PROVE  VerOK(Return(r), t, acc, alt, m)
<1>1. CASE r.kind = "anchor" /\ r.head # GENESIS_HASH
  <2> DEFINE q == [r EXCEPT !.pc = "anchor"]
  <2>1. IsVer(q) /\ q.pc = "anchor" /\ q.head = r.head /\ q.sealed = r.sealed /\ q.verdict = r.verdict
    BY DEF IsVer, VerFields
  <2>2. Return(r) = q
    BY <1>1 DEF Return
  <2> HIDE DEF q
  <2> QED
    BY <2>1, <2>2, <1>1 DEF VerOK
<1>2. CASE ~ (r.kind = "anchor" /\ r.head # GENESIS_HASH)
  BY <1>2, IdleIsFine DEF Return
<1> QED
  BY <1>1, <1>2

LEMMA KnownIsAnchor ==
    ASSUME NEW t, NEW h, NEW s, NEW n, NEW m, Known(t, h, s, n)
    PROVE  Anch(t, h, s, m)
  BY DEF Known, Anch

LEMMA CountMoves ==
    ASSUME NEW m, HistoryInv(m), NEW v \in Verifiers, NEW kind, VerifyCount(v, kind)
    PROVE  HistoryInv(m)'
<1>1. PICK total : /\ Step(v, IF total = 0 THEN Idle("valid")
                              ELSE [Idle(None) EXCEPT !.pc = "head", !.kind = kind, !.total = total])
                   /\ UNCHANGED <<unchangedByVerifier, checkpoint, anchors, published, accepted>>
  BY DEF VerifyCount
<1>2. VerOK(Idle("valid"), rows, accepted', alterations, m)
  BY IdleIsFine
<1>3. VerOK([Idle(None) EXCEPT !.pc = "head", !.kind = kind, !.total = total],
            rows, accepted', alterations, m)
  BY ChainAssumption DEF VerOK, IsVer, VerFields, Idle
<1>4. CASE total = 0
  BY <1>1, <1>2, <1>4, VerifierMoves
<1>5. CASE total # 0
  BY <1>1, <1>3, <1>5, VerifierMoves
<1> QED
  BY <1>4, <1>5

LEMMA HeadMoves ==
    ASSUME NEW m, HistoryInv(m), NEW v \in Verifiers, head_hash(v)
    PROVE  HistoryInv(m)'
<1> DEFINE S == Present(View(v))
           h == LastHash(View(v), S, GENESIS_HASH)
           r == [ver[v] EXCEPT !.pc = "load", !.head = h]
<1>1. /\ ver[v].pc = "head" /\ Step(v, r)
      /\ UNCHANGED <<unchangedByVerifier, checkpoint, anchors, published, accepted>>
  BY DEF head_hash
<1>2. h # GENESIS_HASH => Named(rows, h)
  <2> SUFFICES ASSUME S # {}
               PROVE  Named(rows, h)
    BY DEF LastHash
  <2>1. Max(S) \in S
    BY MaxOfIds DEF Present
  <2>2. Snap(View(v), rows)
    BY SessionView DEF HistoryInv
  <2>3. InTable(rows, Max(S)) /\ rows[Max(S)].hash = h /\ Max(S) \in Ids
    BY <2>1, <2>2 DEF Snap, Present, LastHash
  <2> QED
    BY <2>3 DEF Named
<1>3. VerOK(ver[v], rows, accepted, alterations, m)
  BY DEF HistoryInv, VerifierInv
<1> HIDE DEF h
<1>4. VerOK(r, rows, accepted', alterations, m)
  <2>1. IsVer(r) /\ r.pc = "load" /\ r.head = h /\ r.from = ver[v].from /\ r.base = ver[v].base
        /\ r.sealed = ver[v].sealed /\ r.verdict = ver[v].verdict
    BY <1>3 DEF VerOK, IsVer, VerFields
  <2> HIDE DEF r
  <2> QED
    BY <2>1, <1>1, <1>2, <1>3 DEF VerOK
<1> QED
  BY <1>1, <1>4, VerifierMoves

LEMMA SessionCheckpoint ==
    ASSUME NEW m, HistoryInv(m), NEW v, CheckpointView(v) # None
    PROVE  CpOK(CheckpointView(v), rows, accepted)
  BY DEF HistoryInv, ReplicaInv, OutsideInv, CheckpointView

\* The three ways on from a checkpoint that was just loaded, in any governor.
LEMMA LoadIsFine ==
    ASSUME NEW t, NEW acc, NEW alt, NEW m, NEW r, VerOK(r, t, acc, alt, m), r.pc = "load", NEW c
    PROVE  /\ VerOK([r EXCEPT !.pc = "full"], t, acc, alt, m)
           /\ CpOK(c, t, acc) => VerOK([r EXCEPT !.pc = "base", !.cp = c], t, acc, alt, m)
           /\ CpOK(c, t, acc) /\ c.head = r.head =>
                 VerOK(Return([r EXCEPT !.sealed = c.sealed]), t, acc, alt, m)
<1>1. VerOK([r EXCEPT !.pc = "full"], t, acc, alt, m)
  <2>0. PICK q : q = [r EXCEPT !.pc = "full"]
    OBVIOUS
  <2>1. IsVer(q) /\ q.pc = "full" /\ q.from = r.from /\ q.base = r.base /\ q.sealed = r.sealed
        /\ q.verdict = r.verdict
    BY <2>0 DEF VerOK, IsVer, VerFields
  <2> QED
    BY <2>0, <2>1 DEF VerOK
<1>2. ASSUME CpOK(c, t, acc)
      PROVE  VerOK([r EXCEPT !.pc = "base", !.cp = c], t, acc, alt, m)
  <2>0. PICK q : q = [r EXCEPT !.pc = "base", !.cp = c]
    OBVIOUS
  <2>1. IsVer(q) /\ q.pc = "base" /\ q.cp = c /\ q.from = r.from /\ q.base = r.base
        /\ q.sealed = r.sealed /\ q.verdict = r.verdict /\ q.head = r.head
    BY <2>0 DEF VerOK, IsVer, VerFields
  <2> QED
    BY <2>0, <2>1, <1>2 DEF VerOK
<1>3. ASSUME CpOK(c, t, acc), c.head = r.head
      PROVE  VerOK(Return([r EXCEPT !.sealed = c.sealed]), t, acc, alt, m)
  <2>0. PICK q : q = [r EXCEPT !.sealed = c.sealed]
    OBVIOUS
  <2>1. IsVer(q) /\ q.sealed = c.sealed /\ q.head = c.head /\ q.verdict = r.verdict
    BY <2>0, <1>3 DEF VerOK, IsVer, VerFields
  <2>2. Anch(t, q.head, q.sealed, m)
    BY <2>1, <1>3, KnownIsAnchor DEF CpOK
  <2>3. q.verdict = "invalid" => alt # 0 \/ Arch(t) # {}
    BY <2>1 DEF VerOK
  <2> QED
    BY <2>0, <2>1, <2>2, <2>3, ReturnIsFine
<1> QED
  BY <1>1, <1>2, <1>3

LEMMA LoadMoves ==
    ASSUME NEW m, HistoryInv(m), NEW v \in Verifiers, load_checkpoint(v) \/ LoadClaimCheckpoint(v)
    PROVE  HistoryInv(m)'
<1> DEFINE c == CheckpointView(v)
<1>1. PICK r : /\ Step(v, r)
               /\ \/ r = [ver[v] EXCEPT !.pc = "full"]
                  \/ c # None /\ c.head = ver[v].head /\ r = Return([ver[v] EXCEPT !.sealed = c.sealed])
                  \/ c # None /\ r = [ver[v] EXCEPT !.pc = "base", !.cp = c]
  BY DEF load_checkpoint, LoadClaimCheckpoint, UpToDate, ClaimUpToDate
<1>2. /\ ver[v].pc = "load"
      /\ UNCHANGED <<unchangedByVerifier, checkpoint, anchors, published, accepted>>
  BY DEF load_checkpoint, LoadClaimCheckpoint
<1>3. VerOK(ver[v], rows, accepted, alterations, m)
  BY DEF HistoryInv, VerifierInv
<1>4. c # None => CpOK(c, rows, accepted)
  BY SessionCheckpoint
<1> HIDE DEF c
<1>5. VerOK(r, rows, accepted, alterations, m)
  <2>1. CASE r = [ver[v] EXCEPT !.pc = "full"]
    BY <2>1, <1>2, <1>3, LoadIsFine
  <2>2. CASE c # None /\ c.head = ver[v].head /\ r = Return([ver[v] EXCEPT !.sealed = c.sealed])
    BY <2>2, <1>2, <1>3, <1>4, LoadIsFine
  <2>3. CASE c # None /\ r = [ver[v] EXCEPT !.pc = "base", !.cp = c]
    BY <2>3, <1>2, <1>3, <1>4, LoadIsFine
  <2> QED
    BY <2>1, <2>2, <2>3, <1>1
<1> QED
  BY <1>1, <1>2, <1>5, VerifierMoves

\* The base of the incremental pass: the row the checkpoint names, or genesis.
LEMMA BaseMoves ==
    ASSUME NEW m, HistoryInv(m), NEW v \in Verifiers, VerifyBase(v) \/ _expected_prev_hash(v)
    PROVE  HistoryInv(m)'
<1> DEFINE c == ver[v].cp
           view == View(v)
           old == ver[v]
<1>1. PICK r : /\ Step(v, r)
               /\ \/ /\ c.last \in Present(view)
                     /\ r = [old EXCEPT !.pc = "tail", !.cp = None, !.from = c.last,
                                        !.base = view[c.last].hash, !.sealed = c.sealed]
                  \/ r = [old EXCEPT !.pc = "tail", !.cp = None]
                  \/ r = [old EXCEPT !.pc = "full", !.cp = None]
  <2>1. CASE VerifyBase(v)
    <3>1. CASE c.last \in Present(view)
      <4>1. Step(v, [[old EXCEPT !.pc = "tail", !.cp = None] EXCEPT
                        !.from = c.last, !.base = view[c.last].hash, !.sealed = c.sealed])
        BY <2>1, <3>1 DEF VerifyBase
      <4> QED
        BY <4>1, <3>1
    <3>2. CASE c.last \notin Present(view)
      <4>1. Step(v, [old EXCEPT !.pc = "tail", !.cp = None])
        BY <2>1, <3>2 DEF VerifyBase
      <4> QED
        BY <4>1
    <3> QED
      BY <3>1, <3>2
  <2>2. CASE _expected_prev_hash(v)
    <3> DEFINE rec == [old EXCEPT !.cp = None]
    <3>0. IsVer(old)
      BY DEF HistoryInv, VerifierInv, VerOK
    <3>1. CASE c.last \in Present(view)
      <4>1. Step(v, [rec EXCEPT !.pc = "tail", !.from = c.last, !.base = view[c.last].hash,
                                !.sealed = c.sealed])
        BY <2>2, <3>1 DEF _expected_prev_hash
      <4>2. [rec EXCEPT !.pc = "tail", !.from = c.last, !.base = view[c.last].hash,
                        !.sealed = c.sealed]
            = [old EXCEPT !.pc = "tail", !.cp = None, !.from = c.last,
                          !.base = view[c.last].hash, !.sealed = c.sealed]
        BY <3>0 DEF IsVer, VerFields
      <4> QED
        BY <4>1, <4>2, <3>1
    <3>2. CASE c.last \notin Present(view)
      <4>1. Step(v, [rec EXCEPT !.pc = "full"])
        BY <2>2, <3>2 DEF _expected_prev_hash
      <4>2. [rec EXCEPT !.pc = "full"] = [old EXCEPT !.pc = "full", !.cp = None]
        BY <3>0 DEF IsVer, VerFields
      <4> QED
        BY <4>1, <4>2
    <3> QED
      BY <3>1, <3>2
  <2> QED
    BY <2>1, <2>2
<1>2. /\ ver[v].pc = "base"
      /\ UNCHANGED <<unchangedByVerifier, checkpoint, anchors, published, accepted>>
  BY DEF VerifyBase, _expected_prev_hash
<1>3. VerOK(old, rows, accepted, alterations, m)
  BY DEF HistoryInv, VerifierInv
<1>4. IsVer(old) /\ CpOK(c, rows, accepted)
  BY <1>2, <1>3 DEF VerOK
<1>5. c.last \in Present(view) => view[c.last].hash = c.head
  <2>1. Snap(view, rows)
    BY SessionView DEF HistoryInv
  <2> QED
    BY <2>1, <1>4 DEF Snap, Present, CpOK, Known
<1>6. Stands(rows, accepted, 0)
  BY DEF Stands, Ids
<1> HIDE DEF c, view, old
<1>7. VerOK(r, rows, accepted, alterations, m)
  <2>1. CASE /\ c.last \in Present(view)
             /\ r = [old EXCEPT !.pc = "tail", !.cp = None, !.from = c.last,
                                !.base = view[c.last].hash, !.sealed = c.sealed]
    <3>1. IsVer(r) /\ r.pc = "tail" /\ r.from = c.last /\ r.base = c.head /\ r.sealed = c.sealed
          /\ r.head = old.head /\ r.verdict = old.verdict
      BY <2>1, <1>4, <1>5 DEF IsVer, VerFields
    <3>2. Based(r, rows, accepted)
      BY <3>1, <1>4 DEF Based, CpOK
    <3> QED
      BY <3>1, <3>2, <1>2, <1>3 DEF VerOK, old
  <2>2. CASE r = [old EXCEPT !.pc = "tail", !.cp = None]
    <3>1. IsVer(r) /\ r.pc = "tail" /\ r.from = old.from /\ r.base = old.base
          /\ r.sealed = old.sealed /\ r.head = old.head /\ r.verdict = old.verdict
      BY <2>2, <1>4 DEF IsVer, VerFields
    <3>2. Based(r, rows, accepted)
      BY <3>1, <1>2, <1>3, <1>6 DEF VerOK, Based, old
    <3> QED
      BY <3>1, <3>2, <1>2, <1>3 DEF VerOK, old
  <2>3. CASE r = [old EXCEPT !.pc = "full", !.cp = None]
    <3>1. IsVer(r) /\ r.pc = "full" /\ r.from = old.from /\ r.base = old.base
          /\ r.sealed = old.sealed /\ r.head = old.head /\ r.verdict = old.verdict
      BY <2>3, <1>4 DEF IsVer, VerFields
    <3> QED
      BY <3>1, <1>2, <1>3 DEF VerOK, old
  <2> QED
    BY <2>1, <2>2, <2>3, <1>1
<1> QED
  BY <1>1, <1>2, <1>7, VerifierMoves

\* A valid pass leaves a verification that may save what it found.
LEMMA PassIsFine ==
    ASSUME NEW m, HistoryInv(m), NEW v \in Verifiers, NEW r, IsVer(r), Based(r, rows, accepted),
           r.verdict = "invalid" => alterations # 0 \/ Arch(rows) # {},
           NEW q, q = Verified(View(v), r), q.head # GENESIS_HASH,
           NEW acc, acc = accepted \cup Tail(View(v), r.from)
    PROVE  VerOK(q, rows, acc, alterations, m)
<1>1. Snap(View(v), rows) /\ \A i \in Ids : rows[i].st = "archived" => i \in accepted
  BY SessionView DEF HistoryInv, TableInv
<1>2. /\ IsVer(q) /\ q.pc = "save" /\ q.verdict = r.verdict
      /\ Known(rows, q.head, q.sealed, q.last)
      /\ Stands(rows, acc, q.last)
  BY <1>1, PassEnds
<1> QED
  BY <1>2 DEF VerOK

LEMMA TailMoves ==
    ASSUME NEW m, HistoryInv(m), NEW v \in Verifiers, VerifyTail(v)
    PROVE  HistoryInv(m)'
<1> DEFINE old == ver[v]
           res == Verified(View(v), old)
           full == [Idle(None) EXCEPT !.pc = "full", !.kind = old.kind, !.total = old.total]
           ok == RowsVerify(View(v), old) /\ res.head # GENESIS_HASH
<1>1. /\ old.pc = "tail"
      /\ Step(v, IF ok THEN res ELSE full)
      /\ accepted' = IF ok THEN accepted \cup Tail(View(v), old.from) ELSE accepted
      /\ UNCHANGED <<unchangedByVerifier, checkpoint, anchors, published>>
  BY DEF VerifyTail
<1>2. VerOK(old, rows, accepted, alterations, m)
  BY DEF HistoryInv, VerifierInv
<1>3. CASE ok
  <2>1. VerOK(res, rows, accepted', alterations, m)
    BY <1>1, <1>2, <1>3, PassIsFine DEF VerOK
  <2> QED
    BY <2>1, <1>1, <1>3, VerifierMoves
<1>4. CASE ~ ok
  <2>1. VerOK(full, rows, accepted', alterations, m)
    BY FullIsFine
  <2> QED
    BY <2>1, <1>1, <1>4, VerifierMoves
<1> QED
  BY <1>3, <1>4

\* With nothing above the checkpoint, insurance and cybersecurity answer with
\* the head they read first: a row at or below the checkpoint, whose count is
\* therefore at most the checkpoint's.
LEMMA EmptyTail ==
    ASSUME HistoryInv("atleast"), NEW v \in Verifiers, ver[v].pc = "tail",
           Tail(View(v), ver[v].from) = {}, ver[v].kind = "anchor", ver[v].head # GENESIS_HASH
    PROVE  Anch(rows, ver[v].head, ver[v].sealed, "atleast")
<1> DEFINE from == ver[v].from
<1>1. VerOK(ver[v], rows, accepted, alterations, "atleast")
  BY DEF HistoryInv, VerifierInv
<1>2. PICK n \in Ids : InTable(rows, n) /\ rows[n].hash = ver[v].head
  BY <1>1 DEF VerOK, Named
<1>3. Based(ver[v], rows, accepted) /\ ver[v].sealed \in Nat /\ from \in Nat
  BY <1>1 DEF VerOK, Based, Known, Ids
<1>4. ASSUME Arch(rows) = {}
      PROVE  ver[v].sealed >= Count(rows, n)
  <2>1. rows[n].st = "present"
    BY <1>2, <1>4 DEF Arch, InTable
  <2>2. View(v) = Committed
    BY DEF View, OnReplica
  <2>3. n \in Present(View(v))
    BY <2>1, <2>2 DEF Present, Committed
  <2>4. n <= from
    BY <2>3, <1>3 DEF Tail, Ids
  <2>5. Known(rows, ver[v].base, ver[v].sealed, from)
    BY <2>4, <1>3 DEF Based, Ids
  <2>6. ver[v].sealed = Count(rows, from)
    BY <2>5, <1>4 DEF Known
  <2> DEFINE low == {i \in Ids : InTable(rows, i) /\ i <= n}
             all == {i \in Ids : InTable(rows, i) /\ i <= from}
  <2>7. low \subseteq all
    BY <2>4, <1>3 DEF Ids
  <2>8. IsFiniteSet(all) /\ Cardinality(all) \in Nat /\ Cardinality(low) \in Nat
    BY IdsFinite
  <2>9. Cardinality(low) <= Cardinality(all)
    BY <2>7, <2>8, FS_Subset
  <2> QED
    BY <2>6, <2>8, <2>9 DEF Count
<1> QED
  BY <1>2, <1>3, <1>4 DEF Anch

LEMMA ClaimTailMoves ==
    ASSUME HistoryInv("atleast"), NEW v \in Verifiers, VerifyClaimTail(v)
    PROVE  HistoryInv("atleast")'
<1> DEFINE old == ver[v]
           tail == Tail(View(v), old.from)
           res == Verified(View(v), old)
           full == [Idle(None) EXCEPT !.pc = "full", !.kind = old.kind, !.total = old.total]
           ok == ClaimRowsVerify(View(v), old)
<1>1. /\ old.pc = "tail"
      /\ Step(v, IF tail = {} THEN Return(old) ELSE IF ok THEN res ELSE full)
      /\ accepted' = IF ok THEN accepted \cup tail ELSE accepted
      /\ UNCHANGED <<unchangedByVerifier, checkpoint, anchors, published>>
  BY DEF VerifyClaimTail, _fetch_event_rows
<1>2. VerOK(old, rows, accepted, alterations, "atleast")
  BY DEF HistoryInv, VerifierInv
<1>3. CASE tail = {}
  <2>1. old.kind = "anchor" /\ old.head # GENESIS_HASH => Anch(rows, old.head, old.sealed, "atleast")
    BY <1>1, <1>3, EmptyTail
  <2>2. IsVer(old) /\ (old.verdict = "invalid" => alterations # 0 \/ Arch(rows) # {})
    BY <1>2 DEF VerOK
  <2>3. VerOK(Return(old), rows, accepted', alterations, "atleast")
    BY <2>1, <2>2, ReturnIsFine
  <2> QED
    BY <2>3, <1>1, <1>3, VerifierMoves
<1>4. CASE tail # {} /\ ok
  <2>1. res.head # GENESIS_HASH
    <3>1. Max(tail) \in tail
      BY <1>4, MaxOfIds DEF Tail, Present
    <3>2. Snap(View(v), rows) /\ Faithful(View(v))
      BY SessionView DEF HistoryInv
    <3>3. View(v)[Max(tail)].hash # GENESIS_HASH
      BY <3>1, <3>2 DEF Tail, Present, Faithful, GENESIS_HASH
    <3>4. res.head = LastHash(View(v), tail, old.base)
      BY <1>2 DEF VerOK, IsVer, VerFields, Verified
    <3> QED
      BY <3>3, <3>4, <1>4 DEF LastHash
  <2>2. VerOK(res, rows, accepted', alterations, "atleast")
    BY <2>1, <1>1, <1>2, <1>4, PassIsFine DEF VerOK
  <2> QED
    BY <2>2, <1>1, <1>4, VerifierMoves
<1>5. CASE tail # {} /\ ~ ok
  <2>1. VerOK(full, rows, accepted', alterations, "atleast")
    BY FullIsFine
  <2> QED
    BY <2>1, <1>1, <1>5, VerifierMoves
<1> QED
  BY <1>3, <1>4, <1>5

\* The full pass: it fails only on a table that was altered or archived from.
LEMMA FullMoves ==
    ASSUME NEW m, HistoryInv(m), NEW v \in Verifiers, VerifyFull(v) \/ VerifyClaimFull(v)
    PROVE  HistoryInv(m)'
<1> DEFINE old == ver[v]
           view == View(v)
<1>1. VerOK(old, rows, accepted, alterations, m) /\ old.pc = "full"
  BY DEF HistoryInv, VerifierInv, VerifyFull, VerifyClaimFull
<1>2. /\ Snap(view, rows) /\ Faithful(view) /\ Unaltered(view, alterations)
      /\ Linked(rows)
  BY SessionView DEF HistoryInv, TableInv
<1>3. PICK r : /\ r = [old EXCEPT !.head = GENESIS_HASH]
                  \/ r = [old EXCEPT !.head = GENESIS_HASH, !.sealed = 0, !.total = Cardinality(Present(view))]
               /\ \/ /\ ~ RowsVerify(view, r) /\ Step(v, Idle("invalid"))
                     /\ accepted' = accepted
                  \/ /\ RowsVerify(view, r)
                     /\ \/ Verified(view, r).head # GENESIS_HASH /\ Step(v, Verified(view, r))
                        \/ Present(view) # {} /\ Step(v, Verified(view, r))
                        \/ Step(v, Idle("valid"))
                     /\ accepted' = accepted \cup Present(view)
  <2>1. CASE VerifyFull(v)
    BY <2>1 DEF VerifyFull
  <2>2. CASE VerifyClaimFull(v)
    BY <2>2 DEF VerifyClaimFull, ClaimRowsVerify, RowsVerify, _fetch_event_rows
  <2> QED
    BY <2>1, <2>2
<1>4. UNCHANGED <<unchangedByVerifier, checkpoint, anchors, published>> /\ accepted \subseteq accepted'
  BY <1>3 DEF VerifyFull, VerifyClaimFull
<1>5. IsVer(r) /\ r.from = 0 /\ r.base = GENESIS_HASH /\ r.sealed = 0 /\ r.verdict = old.verdict
  <2>1. IsVer(old) /\ old.from = 0 /\ old.base = GENESIS_HASH /\ old.sealed = 0
    BY <1>1 DEF VerOK
  <2> HIDE DEF old
  <2> QED
    BY <2>1, <1>3 DEF IsVer, VerFields
<1>6. Based(r, rows, accepted)
  BY <1>5 DEF Based, Stands, Ids
<1>7. Tail(view, r.from) = Present(view)
  BY <1>5 DEF Tail, Present, Ids
<1>8. r.verdict = "invalid" => alterations # 0 \/ Arch(rows) # {}
  BY <1>1, <1>5 DEF VerOK
<1>9. CASE ~ RowsVerify(view, r)
  <2>1. alterations # 0 \/ Arch(rows) # {}
    BY <1>2, <1>5, <1>9, FullPassHolds
  <2>2. VerOK(Idle("invalid"), rows, accepted', alterations, m)
    BY <2>1, IdleIsFine
  <2> QED
    BY <2>2, <1>3, <1>4, <1>9, VerifierMoves
<1>10. CASE RowsVerify(view, r) /\ Step(v, Idle("valid"))
  <2>1. VerOK(Idle("valid"), rows, accepted', alterations, m)
    BY IdleIsFine
  <2> QED
    BY <2>1, <1>4, <1>10, VerifierMoves
<1>11. CASE RowsVerify(view, r) /\ ~ Step(v, Idle("valid"))
  <2>1. PICK q : q = Verified(view, r)
    OBVIOUS
  <2>2. Step(v, q) /\ accepted' = accepted \cup Tail(view, r.from)
    BY <2>1, <1>3, <1>7, <1>11
  <2>3. q.head # GENESIS_HASH
    <3> SUFFICES ASSUME Present(view) # {}
                 PROVE  q.head # GENESIS_HASH
      BY <2>1, <1>3, <1>11
    <3>1. Max(Present(view)) \in Present(view)
      BY MaxOfIds DEF Present
    <3>2. view[Max(Present(view))].hash # GENESIS_HASH
      BY <3>1, <1>2 DEF Present, Faithful, GENESIS_HASH
    <3>3. q.head = LastHash(view, Present(view), r.base)
      BY <2>1, <1>5, <1>7 DEF IsVer, VerFields, Verified
    <3> QED
      BY <3>2, <3>3 DEF LastHash
  <2>4. VerOK(q, rows, accepted', alterations, m)
    BY <2>1, <2>2, <2>3, <1>5, <1>6, <1>8, PassIsFine
  <2> QED
    BY <2>2, <2>4, <1>4, VerifierMoves
<1> QED
  BY <1>9, <1>10, <1>11

LEMMA SaveMoves ==
    ASSUME NEW m, HistoryInv(m), NEW v \in Verifiers, _persist_checkpoint(v)
    PROVE  HistoryInv(m)'
<1> DEFINE old == ver[v]
           c == [last |-> old.last, head |-> old.head, sealed |-> old.sealed, total |-> old.total]
<1>1. /\ old.pc = "save" /\ checkpoint' = c /\ Step(v, Return(old))
      /\ UNCHANGED <<rows, nextId, lock, alterations, replica, anchors, published, accepted>>
  BY DEF _persist_checkpoint, unchangedByVerifier
<1>2. VerOK(old, rows, accepted, alterations, m)
  BY DEF HistoryInv, VerifierInv
<1>3. TableInv' /\ Grows(rows, rows')
  BY <1>1, TableIdles DEF HistoryInv
<1>4. ReplicaInv'
  BY <1>1, <1>3, ReplicaStays DEF HistoryInv
<1>5. Known(rows, old.head, old.sealed, old.last) /\ Stands(rows, accepted, old.last)
  BY <1>1, <1>2 DEF VerOK
<1>6. OutsideInv(m)'
  <2>1. CpOK(c, rows, accepted)
    BY <1>5 DEF CpOK
  <2> QED
    BY <2>1, <1>1 DEF HistoryInv, OutsideInv
<1>7. IsVer(old) /\ (old.verdict = "invalid" => alterations # 0 \/ Arch(rows) # {})
  BY <1>2 DEF VerOK
<1>8. VerOK(Return(old), rows, accepted, alterations, m)
  BY <1>5, <1>7, KnownIsAnchor, ReturnIsFine
<1>9. VerifierInv(m)'
  BY <1>1, <1>3, <1>8, OneVerifierMoves DEF HistoryInv
<1> QED
  BY <1>3, <1>4, <1>6, <1>9 DEF HistoryInv

LEMMA AnchorMoves ==
    ASSUME NEW m, HistoryInv(m), NEW v \in Verifiers,
           anchor_head_to_s3(v) \/ anchor_verified_chain_head(v) \/ AnchorLost(v)
    PROVE  HistoryInv(m)'
<1> DEFINE old == ver[v]
           a == [head |-> old.head, sealed |-> old.sealed]
<1>1. /\ old.pc \in {"anchor", "record"}
      /\ UNCHANGED <<rows, nextId, lock, alterations, replica, checkpoint, accepted>>
      /\ anchors' \cup published' \subseteq anchors \cup published \cup {a}
  BY DEF anchor_head_to_s3, anchor_verified_chain_head, AnchorLost, unchangedByVerifier
<1>2. PICK r : Step(v, r) /\ r \in {[old EXCEPT !.pc = "record"], Idle("valid"), Idle(None)}
  BY DEF anchor_head_to_s3, anchor_verified_chain_head, AnchorLost
<1>3. VerOK(old, rows, accepted, alterations, m)
  BY DEF HistoryInv, VerifierInv
<1>4. TableInv' /\ Grows(rows, rows')
  BY <1>1, TableIdles DEF HistoryInv
<1>5. ReplicaInv'
  BY <1>1, <1>4, ReplicaStays DEF HistoryInv
<1>6. Anch(rows, old.head, old.sealed, m)
  BY <1>1, <1>3 DEF VerOK
<1>7. OutsideInv(m)'
  <2>1. \A b \in anchors \cup published \cup {a} : Anch(rows, b.head, b.sealed, m)
    BY <1>6 DEF HistoryInv, OutsideInv
  <2>2. checkpoint' # None => CpOK(checkpoint', rows', accepted')
    BY <1>1 DEF HistoryInv, OutsideInv
  <2>3. \A b \in anchors' \cup published' : Anch(rows', b.head, b.sealed, m)
    BY <2>1, <1>1
  <2> QED
    BY <2>2, <2>3 DEF OutsideInv
<1>8. VerOK(r, rows, accepted, alterations, m)
  <2>1. CASE r = [old EXCEPT !.pc = "record"]
    <3>1. IsVer(r) /\ r.pc = "record" /\ r.head = old.head /\ r.sealed = old.sealed
          /\ r.verdict = old.verdict
      BY <2>1, <1>3 DEF VerOK, IsVer, VerFields
    <3> QED
      BY <3>1, <1>3, <1>6 DEF VerOK
  <2>2. CASE r \in {Idle("valid"), Idle(None)}
    BY <2>2, IdleIsFine, ChainAssumption
  <2> QED
    BY <2>1, <2>2, <1>2
<1>9. VerifierInv(m)'
  BY <1>1, <1>2, <1>4, <1>8, OneVerifierMoves DEF HistoryInv
<1> QED
  BY <1>4, <1>5, <1>7, <1>9 DEF HistoryInv

(***************************************************************************)
(* The history invariant, for the ledger and for the siblings.             *)
(***************************************************************************)
LEMMA InitHistory == ASSUME NEW m, Init PROVE HistoryInv(m)
<1>1. ChainInv
  BY InitChain
<1>2. \A i \in Ids : rows[i] = NoRow /\ replica.rows[i] = NoRow /\ NoRow.st = "none"
  BY DEF Init, NoRow
<1>3. TableInv
  BY <1>1, <1>2 DEF Init, TableInv, Faithful, Unaltered, Linked, IsLive, RowStates
<1>4. ReplicaInv
  <2>1. replica = [rows |-> replica.rows, checkpoint |-> replica.checkpoint]
        /\ replica.checkpoint = None
    BY DEF Init
  <2> QED
    BY <2>1, <1>2 DEF ReplicaInv, Snap, Faithful, Unaltered, InTable
<1>5. OutsideInv(m)
  BY DEF Init, OutsideInv
<1>6. VerifierInv(m)
  <2>1. VerOK(Idle(None), rows, accepted, alterations, m)
    BY IdleIsFine, ChainAssumption
  <2> QED
    BY <2>1 DEF Init, VerifierInv
<1> QED
  BY <1>3, <1>4, <1>5, <1>6 DEF HistoryInv

\* A step of the table alone.
LEMMA TableMoves ==
    ASSUME NEW m, HistoryInv(m), TableInv', Grows(rows, rows'), accepted' = accepted,
           alterations' = 0 => alterations = 0,
           UNCHANGED <<checkpoint, anchors, published, replica, ver>>
    PROVE  HistoryInv(m)'
  BY ReplicaStays, OutsideStays, VerifiersStay DEF HistoryInv

LEMMA WriterMoves ==
    ASSUME NEW m, HistoryInv(m), NEW w \in Writers,
           Begin(w) \/ Commit(w) \/ Rollback(w) \/ \E p : append_sealed_ledger_event(w, p)
    PROVE  HistoryInv(m)'
<1>1. /\ UNCHANGED <<checkpoint, anchors, published, replica, ver>>
      /\ accepted' = accepted /\ alterations' = alterations
  BY DEF Begin, Commit, Rollback, EndTransaction, append_sealed_ledger_event
<1>2. CASE Begin(w)
  <2>1. TableInv' /\ Grows(rows, rows')
    BY <1>2, TableIdles DEF Begin, HistoryInv
  <2> QED
    BY <2>1, <1>1, TableMoves
<1>3. CASE Commit(w) \/ Rollback(w)
  <2>1. TableInv' /\ Grows(rows, rows')
    BY <1>3, TableEnds DEF Commit, Rollback, HistoryInv
  <2> QED
    BY <2>1, <1>1, TableMoves
<1>4. ASSUME NEW p, append_sealed_ledger_event(w, p)
      PROVE  HistoryInv(m)'
  <2>1. TableInv' /\ Grows(rows, rows')
    BY <1>4, TableAppends DEF HistoryInv
  <2> QED
    BY <2>1, <1>1, TableMoves
<1> QED
  BY <1>2, <1>3, <1>4

LEMMA TableChanges ==
    ASSUME NEW m, HistoryInv(m), (\E c : run_retention(c)) \/ (\E i \in Ids : Alter(i))
    PROVE  HistoryInv(m)'
<1>1. ASSUME NEW c, run_retention(c)
      PROVE  HistoryInv(m)'
  <2>1. /\ UNCHANGED <<checkpoint, anchors, published, replica, ver>>
        /\ accepted' = accepted /\ alterations' = alterations
    BY <1>1 DEF run_retention
  <2>2. TableInv' /\ Grows(rows, rows')
    BY <1>1, TableArchives DEF HistoryInv
  <2> QED
    BY <2>1, <2>2, TableMoves
<1>2. ASSUME NEW i \in Ids, Alter(i)
      PROVE  HistoryInv(m)'
  <2>1. UNCHANGED <<checkpoint, anchors, published, replica, ver>> /\ accepted' = accepted
    BY <1>2 DEF Alter
  <2>2. TableInv' /\ Grows(rows, rows') /\ alterations' # 0
    BY <1>2, TableIsAltered DEF HistoryInv
  <2> QED
    BY <2>1, <2>2, TableMoves
<1> QED
  BY <1>1, <1>2

LEMMA ReplicateMoves ==
    ASSUME NEW m, HistoryInv(m), Replicate
    PROVE  HistoryInv(m)'
<1>1. /\ replica' = [rows |-> Committed, checkpoint |-> checkpoint]
      /\ UNCHANGED <<rows, nextId, lock, checkpoint, anchors, published, ver, accepted, alterations>>
  BY DEF Replicate
<1>2. TableInv' /\ Grows(rows, rows')
  BY <1>1, TableIdles DEF HistoryInv
<1>3. OutsideInv(m)' /\ VerifierInv(m)'
  BY <1>1, <1>2, OutsideStays, VerifiersStay DEF HistoryInv
<1>4. ReplicaInv'
  <2>1. replica'.rows = Committed /\ replica'.checkpoint = checkpoint
    BY <1>1
  <2>2. Snap(Committed, rows) /\ Faithful(Committed) /\ Unaltered(Committed, alterations)
    BY CommittedView DEF HistoryInv
  <2>3. checkpoint # None => CpOK(checkpoint, rows, accepted)
    BY DEF HistoryInv, OutsideInv
  <2> QED
    BY <2>1, <2>2, <2>3, <1>1 DEF ReplicaInv
<1> QED
  BY <1>2, <1>3, <1>4 DEF HistoryInv

LEMMA StutterKeeps ==
    ASSUME NEW m, HistoryInv(m), UNCHANGED vars
    PROVE  HistoryInv(m)'
<1>1. UNCHANGED <<rows, nextId, lock, checkpoint, anchors, published, replica, ver, accepted, alterations>>
  BY DEF vars
<1>2. TableInv' /\ Grows(rows, rows')
  BY <1>1, TableIdles DEF HistoryInv
<1> QED
  BY <1>1, <1>2, TableMoves

LEMMA NextHistory ==
    ASSUME NEW m, HistoryInv(m), [Next]_vars
    PROVE  HistoryInv(m)'
<1>1. ASSUME NEW w \in Writers, WriterStep(w)
      PROVE  HistoryInv(m)'
  BY <1>1, WriterMoves DEF WriterStep
<1>2. ASSUME NEW v \in Verifiers, VerifierStep(v)
      PROVE  HistoryInv(m)'
  BY <1>2, CountMoves, HeadMoves, LoadMoves, BaseMoves, TailMoves, FullMoves, SaveMoves, AnchorMoves
  DEF VerifierStep
<1>3. CASE Replicate
  BY <1>3, ReplicateMoves
<1>4. CASE UNCHANGED vars
  BY <1>4, StutterKeeps
<1>5. CASE (\E c : run_retention(c)) \/ (\E i \in Ids : Alter(i))
  BY <1>5, TableChanges
<1> QED
  BY <1>1, <1>2, <1>3, <1>4, <1>5 DEF Next

LEMMA HistoryInvariant == ChainSpec => []HistoryInv("exact")
<1>1. Init => HistoryInv("exact")
  BY InitHistory
<1>2. HistoryInv("exact") /\ [Next]_vars => HistoryInv("exact")'
  BY NextHistory
<1> QED
  BY <1>1, <1>2, PTL DEF ChainSpec

\* Every archived row has been read by a verification that found it valid.
THEOREM ArchivedRowsWereVerified == ChainSpec => []ArchivedWereVerified
<1>1. HistoryInv("exact") => ArchivedWereVerified
  BY DEF HistoryInv, TableInv, ArchivedWereVerified, Archived
<1> QED
  BY <1>1, HistoryInvariant, PTL

LEMMA AlarmsAreTrue == ASSUME NEW m, HistoryInv(m) PROVE NoFalseAlarm
  BY DEF HistoryInv, TableInv, VerifierInv, VerOK, NoFalseAlarm, Archived, Arch

\* verify_ledger_chain never takes appends, rollbacks, a lagging replica or the
\* checkpoints of other verifications for tampering.
THEOREM NoFalseAlarms == ChainSpec => []NoFalseAlarm
<1>1. HistoryInv("exact") => NoFalseAlarm
  BY AlarmsAreTrue
<1> QED
  BY <1>1, HistoryInvariant, PTL

\* The hash of a row names the row, so the rows up to a hash are counted by Count.
LEMMA HashNamesRow ==
    ASSUME TableInv, NEW n \in Ids, InTable(rows, n), NEW h, rows[n].hash = h
    PROVE  HashId(h) = n /\ Cardinality(UpTo(h)) = Count(rows, n)
<1>1. h = <<n, rows[n].sealed, rows[n].prev>>
  BY DEF TableInv, Faithful, InTable
<1>2. HashId(h) = n
  BY <1>1 DEF HashId, GENESIS_HASH
<1>3. UpTo(h) = {i \in Ids : InTable(rows, i) /\ i <= n}
  BY <1>2 DEF UpTo, InTable
<1> QED
  BY <1>2, <1>3 DEF Count

LEMMA KnownIsHead ==
    ASSUME TableInv, NEW rec, NEW n, Known(rows, rec.head, rec.sealed, n)
    PROVE  IsHead(rec) /\ HashId(rec.head) = n
<1>1. n \in Ids /\ InTable(rows, n) /\ rows[n].hash = rec.head
  BY DEF Known
<1>2. HashId(rec.head) = n /\ Cardinality(UpTo(rec.head)) = Count(rows, n)
  BY <1>1, HashNamesRow
<1> QED
  BY <1>1, <1>2 DEF Known, IsHead, InTable, Archived, Arch

LEMMA CheckpointIsHead ==
    ASSUME NEW m, HistoryInv(m), checkpoint # None
    PROVE  IsHead(checkpoint) /\ HashId(checkpoint.head) = checkpoint.last
<1>1. Known(rows, checkpoint.head, checkpoint.sealed, checkpoint.last)
  BY DEF HistoryInv, OutsideInv, CpOK
<1> QED
  BY <1>1, KnownIsHead DEF HistoryInv

\* Checkpoints, anchors and published heads are the chain's history.
THEOREM HeadsStayHistory == ChainSpec => []HeadsAreHistory
<1>1. HistoryInv("exact") => HeadsAreHistory
  <2> SUFFICES ASSUME HistoryInv("exact")
               PROVE  HeadsAreHistory
    OBVIOUS
  <2>1. ASSUME NEW a \in anchors \cup published
        PROVE  IsHead(a)
    <3>1. Anch(rows, a.head, a.sealed, "exact")
      BY <2>1 DEF HistoryInv, OutsideInv
    <3>2. PICK n \in Ids : Known(rows, a.head, a.sealed, n)
      BY <3>1 DEF Anch, Known
    <3> QED
      BY <3>2, KnownIsHead DEF HistoryInv
  <2> QED
    BY <2>1, CheckpointIsHead DEF HeadsAreHistory
<1> QED
  BY <1>1, HistoryInvariant, PTL

\* A pass that checks the hashes of the rows above `from' rejects altered ones.
LEMMA AlteredBreaksPass ==
    ASSUME NEW view, Faithful(view), NEW r, RowsVerify(view, r), NEW i \in Altered(view)
    PROVE  ~ (i > r.from)
<1> SUFFICES ASSUME i > r.from
             PROVE  FALSE
  OBVIOUS
<1>1. i \in Ids /\ view[i].st = "present" /\ view[i].payload # view[i].sealed
  BY DEF Altered, Present
<1>2. i \in Tail(view, r.from)
  BY <1>1 DEF Tail, Present
<1>3. view[i].hash = <<i, view[i].payload, view[i].prev>>
  BY <1>2 DEF RowsVerify, RowVerifies, compute_row_hash
<1>4. view[i].hash = <<i, view[i].sealed, view[i].prev>>
  BY <1>1 DEF Faithful
<1> QED
  BY <1>1, <1>3, <1>4

\* A verification that reads an altered row never gets to save a checkpoint.
THEOREM AlteredRowsRejected == ChainSpec => AlteredRowsAreRejected
<1> DEFINE A == \A v \in Verifiers :
                   /\ ver[v].pc \in {"tail", "full"}
                   /\ ver'[v].pc = "save"
                   => \A i \in Altered(View(v)) : i <= ver[v].from
<1>1. HistoryInv("exact") /\ [Next]_vars => [A]_vars
  <2> SUFFICES ASSUME HistoryInv("exact"), Next, NEW v \in Verifiers,
                      ver[v].pc \in {"tail", "full"}, ver'[v].pc = "save",
                      NEW i \in Altered(View(v))
               PROVE  i <= ver[v].from
    OBVIOUS
  <2>1. /\ VerOK(ver[v], rows, accepted, alterations, "exact")
        /\ ver = [w \in Verifiers |-> ver[w]]
    BY DEF HistoryInv, VerifierInv
  <2>2. ver'[v] # ver[v]
    OBVIOUS
  <2>3. VerifierStep(v)
    <3>1. ASSUME NEW w \in Verifiers, VerifierStep(w)
          PROVE  w = v
      <4>1. PICK r : ver' = [ver EXCEPT ![w] = r]
        BY <3>1 DEF VerifierStep, VerifyCount, head_hash, load_checkpoint, VerifyBase,
           VerifyTail, VerifyFull, _persist_checkpoint, anchor_head_to_s3,
           anchor_verified_chain_head, AnchorLost, Step
      <4> QED
        BY <4>1, <2>1, <2>2
    <3>2. ASSUME NEW w \in Writers, WriterStep(w)
          PROVE  FALSE
      BY <3>2, <2>2 DEF WriterStep, Begin, append_sealed_ledger_event, Commit, Rollback,
         EndTransaction
    <3>3. ~ Replicate /\ (\A c : ~ run_retention(c)) /\ (\A k \in Ids : ~ Alter(k))
      BY <2>2 DEF Replicate, run_retention, Alter
    <3> QED
      BY <3>1, <3>2, <3>3 DEF Next
  <2>4. PICK r : RowsVerify(View(v), r) /\ r.from = ver[v].from
    <3>1. CASE VerifyTail(v)
      <4> DEFINE full == [Idle(None) EXCEPT !.pc = "full", !.kind = ver[v].kind, !.total = ver[v].total]
      <4>1. full.pc = "full"
        BY DEF Idle
      <4>2. RowsVerify(View(v), ver[v]) \/ ver' = [ver EXCEPT ![v] = full]
        BY <3>1 DEF VerifyTail, Step
      <4> HIDE DEF full
      <4> QED
        BY <4>1, <4>2, <2>1
    <3>2. CASE VerifyFull(v)
      <4>1. PICK r : r = [ver[v] EXCEPT !.head = GENESIS_HASH]
        OBVIOUS
      <4>2. r.from = ver[v].from
        BY <4>1, <2>1 DEF VerOK, IsVer, VerFields
      <4>3. RowsVerify(View(v), r) \/ ver' = [ver EXCEPT ![v] = Idle("invalid")]
        BY <3>2, <4>1 DEF VerifyFull, Step
      <4> QED
        BY <4>2, <4>3, <2>1 DEF Idle
    <3> QED
      BY <3>1, <3>2, <2>3 DEF VerifierStep, VerifyCount, head_hash, load_checkpoint, VerifyBase,
         _persist_checkpoint, anchor_head_to_s3, anchor_verified_chain_head, AnchorLost
  <2>5. ~ (i > ver[v].from)
    <3>1. Faithful(View(v))
      BY SessionView DEF HistoryInv
    <3> QED
      BY <3>1, <2>4, AlteredBreaksPass
  <2>6. i \in Nat /\ ver[v].from \in Nat
    BY <2>1 DEF VerOK, Based, Known, Altered, Present, Ids
  <2> QED
    BY <2>5, <2>6
<1> QED
  BY <1>1, HistoryInvariant, PTL DEF ChainSpec, AlteredRowsAreRejected

(***************************************************************************)
(* The sibling chains                                                      *)
(***************************************************************************)
SiblingInv == IF governor = "finance" THEN HistoryInv("exact") ELSE HistoryInv("atleast")

LEMMA SharedMoves ==
    ASSUME NEW m, HistoryInv(m), SharedStep \/ UNCHANGED vars
    PROVE  HistoryInv(m)'
  BY WriterMoves, TableChanges, StutterKeeps DEF SharedStep

LEMMA SiblingAppends ==
    ASSUME NEW m, HistoryInv(m), NEW w \in Writers, NEW p,
           append_decision_event(w, p) \/ append_claim_event(w, p) \/ append_security_event(w, p)
    PROVE  HistoryInv(m)'
<1>1. append_sealed_ledger_event(w, p)
  BY DEF append_decision_event, append_claim_event, append_security_event, AppendRow,
     seal_decision_event, seal_claim_event, seal_security_event, append_sealed_ledger_event
<1> QED
  BY <1>1, WriterMoves

LEMMA FinanceMoves ==
    ASSUME HistoryInv("exact"), FinanceStep
    PROVE  HistoryInv("exact")'
<1>1. ASSUME NEW v \in Verifiers, verify_decision_chain(v) \/ anchor_verified_decision_head(v)
      PROVE  HistoryInv("exact")'
  BY <1>1, CountMoves, HeadMoves, LoadMoves, BaseMoves, TailMoves, FullMoves, SaveMoves, AnchorMoves
  DEF verify_decision_chain, _verify_decision_rows, anchor_verified_decision_head, decision_head_to_s3
<1> QED
  BY <1>1, SiblingAppends DEF FinanceStep

LEMMA ClaimMoves ==
    ASSUME HistoryInv("atleast"), InsuranceStep \/ CybersecurityStep
    PROVE  HistoryInv("atleast")'
<1>1. ASSUME NEW v \in Verifiers, verify_claim_chain(v) \/ verify_security_chain(v)
      PROVE  HistoryInv("atleast")'
  BY <1>1, CountMoves, HeadMoves, LoadMoves, BaseMoves, ClaimTailMoves, FullMoves, SaveMoves
  DEF verify_claim_chain, verify_security_chain, security_tail
<1>2. ASSUME NEW v \in Verifiers, anchor_claim_head(v) \/ anchor_security_head(v)
      PROVE  HistoryInv("atleast")'
  BY <1>2, AnchorMoves
  DEF anchor_claim_head, claim_head_to_s3, anchor_security_head, security_head_to_s3
<1> QED
  BY <1>1, <1>2, SiblingAppends DEF InsuranceStep, CybersecurityStep

LEMMA SiblingInvariant == SiblingSpec => []SiblingInv
<1>1. SiblingInit => SiblingInv
  BY InitHistory DEF SiblingInit, SiblingInv
<1>2. SiblingInv /\ [SiblingNext]_siblingVars => SiblingInv'
  <2> SUFFICES ASSUME SiblingInv, [SiblingNext]_siblingVars
               PROVE  SiblingInv'
    OBVIOUS
  <2>1. governor' = governor
    BY DEF SiblingNext, siblingVars
  <2>2. CASE governor = "finance"
    <3>1. FinanceStep \/ SharedStep \/ UNCHANGED vars
      BY <2>2 DEF SiblingNext, siblingVars
    <3> QED
      BY <2>1, <2>2, <3>1, FinanceMoves, SharedMoves DEF SiblingInv
  <2>3. CASE governor # "finance"
    <3>1. InsuranceStep \/ CybersecurityStep \/ SharedStep \/ UNCHANGED vars
      BY <2>3 DEF SiblingNext, siblingVars
    <3> QED
      BY <2>1, <2>3, <3>1, ClaimMoves, SharedMoves DEF SiblingInv
  <2> QED
    BY <2>2, <2>3
<1> QED
  BY <1>1, <1>2, PTL DEF SiblingSpec

\* The tables of the siblings are chains in id order as well, and their
\* retention jobs delete verified rows only.
THEOREM SiblingChainsKeepOrder ==
    SiblingSpec => [](CommitsInIdOrder /\ ChainIsLinear /\ ArchivedWereVerified)
<1>1. SiblingInv => CommitsInIdOrder /\ ChainIsLinear /\ ArchivedWereVerified
  <2> SUFFICES ASSUME TableInv
               PROVE  CommitsInIdOrder /\ ChainIsLinear /\ ArchivedWereVerified
    BY DEF SiblingInv, HistoryInv
  <2> QED
    BY LinearFromOrder DEF TableInv, ChainInv, ChainOrder, ArchivedWereVerified, Archived
<1> QED
  BY <1>1, SiblingInvariant, PTL

\* No verification of a sibling takes concurrency for tampering either.
THEOREM NoFalseAlarmsInSiblings == SiblingSpec => []NoFalseAlarm
<1>1. SiblingInv => NoFalseAlarm
  BY AlarmsAreTrue DEF SiblingInv
<1> QED
  BY <1>1, SiblingInvariant, PTL

\* The checkpoint of every governor names a row and counts the rows up to it.
THEOREM CheckpointsStayExact == SiblingSpec => []CheckpointsAreExact
<1>1. SiblingInv => CheckpointsAreExact
  BY CheckpointIsHead DEF SiblingInv, CheckpointsAreExact
<1> QED
  BY <1>1, SiblingInvariant, PTL

\* Anchors name committed rows; finance counts exactly, the others may count
\* rows that came after the head they name, never fewer.
THEOREM AnchorsStayHistory == SiblingSpec => []AnchorsAreHistory
<1>1. SiblingInv => AnchorsAreHistory
  <2> SUFFICES ASSUME SiblingInv, NEW a \in anchors \cup published
               PROVE  /\ \E i \in Ids : rows[i].st \in {"present", "archived"} /\ rows[i].hash = a.head
                      /\ Archived = {} =>
                            IF governor = "finance" THEN a.sealed = Cardinality(UpTo(a.head))
                            ELSE a.sealed >= Cardinality(UpTo(a.head))
    BY DEF AnchorsAreHistory
  <2>1. TableInv /\ Anch(rows, a.head, a.sealed, IF governor = "finance" THEN "exact" ELSE "atleast")
    BY DEF SiblingInv, HistoryInv, OutsideInv
  <2>2. PICK n \in Ids :
           /\ InTable(rows, n) /\ rows[n].hash = a.head
           /\ Arch(rows) = {} => a.sealed = Count(rows, n)
                                 \/ (governor # "finance" /\ a.sealed >= Count(rows, n))
    BY <2>1 DEF Anch
  <2>3. Cardinality(UpTo(a.head)) = Count(rows, n)
    BY <2>1, <2>2, HashNamesRow
  <2>4. a.sealed \in Nat
    BY <2>1 DEF Anch
  <2> QED
    BY <2>2, <2>3, <2>4 DEF InTable, Archived, Arch
<1> QED
  BY <1>1, SiblingInvariant, PTL
=============================================================================
