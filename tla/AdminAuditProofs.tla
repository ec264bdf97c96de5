--------------------------- MODULE AdminAuditProofs ---------------------------
(***************************************************************************)
(* The operator log keeps what was recorded undisturbed on its chain, and  *)
(* a clear goes unrecorded only where a fault may lose its row, for any    *)
(* number of sidecars, requests and faults, in each of the four governors. *)
(***************************************************************************)
EXTENDS AdminAudit, LedgerSumsProofs, FiniteSetTheorems

RowFields == {"st", "what", "covers", "before"}

ReqFields == {"pc", "what", "id", "prev", "before"}

IsRecord(r, fields) == DOMAIN r = fields /\ r = [x \in fields |-> r[x]]

AdminTypes ==
    /\ governor \in Governors
    /\ log = [i \in Ids |-> log[i]]
    /\ \A i \in Ids : IsRecord(log[i], RowFields) /\ log[i].st \in {"none", "pending", "committed"}
    /\ nextId \in Nat \ {0}
    /\ req = [a \in Admins |-> req[a]]
    /\ clears \in Nat /\ faults \in Nat

\* A request in state r has an uncommitted row in the log of governor g ...
RowPlace(r, g) ==
    \/ r.pc \in {"seal", "commit"}
    \/ r.pc = "read" /\ g # "finance"
    \/ r.pc = "anchor" /\ g = "ledger"

HasRow(a) == RowPlace(req[a], governor)

\* ... and has read the hash it will chain its row to.
ReadPlace(r, g) == r.pc = "seal" \/ (r.pc = "insert" /\ g = "finance")

\* Requests own their rows, know only committed rows, and what they chain to
\* is no older than any of those.
RequestOK(r, g, committed) ==
    /\ IsRecord(r, ReqFields) /\ r.pc \in Places
    /\ ~ RowPlace(r, g) => r.id = 0
    /\ r.before \subseteq committed
    /\ r.pc = "anchor" => r.what = "anchor" /\ g # "finance"
    /\ ReadPlace(r, g) => \/ r.prev = 0 /\ r.before = {}
                          \/ r.prev \in committed /\ \A j \in r.before : j <= r.prev

OwnsRow(r, t) ==
    r.id \in Ids /\ t[r.id].st = "pending" /\ t[r.id].what = r.what /\ t[r.id].before = r.before

RequestInv ==
    /\ \A a \in Admins : RequestOK(req[a], governor, Committed)
    /\ \A a \in Admins : HasRow(a) => OwnsRow(req[a], log)
    /\ \A a, b \in Admins : HasRow(a) /\ HasRow(b) /\ req[a].id = req[b].id => a = b

\* Ids grow with time: what a row found committed has a smaller id.
LogInv ==
    \A i \in Ids : log[i].st # "none" =>
        i < nextId /\ log[i].before \subseteq Committed /\ \A j \in log[i].before : j < i

AdminInv == AdminTypes /\ RequestInv /\ LogInv

Sealed(k) ==
    k \in Committed \/ \E a \in Admins : HasRow(a) /\ req[a].id = k /\ req[a].pc \in {"commit", "anchor"}

\* Quiet, as far as committed rows go.  Rows that are rolled back can only
\* make more rows quiet; this weaker notion does not depend on them.
QuietAmongCommitted(i) ==
    \A j \in Committed : j # i => j \in log[i].before \/ i \in log[j].before

CoverInv ==
    \A i \in Committed, k \in Ids :
        Sealed(k) /\ QuietAmongCommitted(i) /\ i \in log[k].before => i \in log[k].covers

CommittedClears == {i \in Committed : log[i].what = "clear"}

Clearing == {a \in Admins : req[a].pc \in {"local", "redis"}}

RecordingClears == {a \in Recording : req[a].what = "clear"}

\* Ledger and finance: every clear, made or about to be made, has its row.
\* The siblings: every clear made has its row, or a request that is recording
\* it, or was lost to a fault.
ClearInv ==
    IF AuditFirst THEN clears + Cardinality(Clearing) <= Cardinality(CommittedClears)
    ELSE clears <= Cardinality(CommittedClears) + faults + Cardinality(RecordingClears)

\* LastHash picks the greatest committed id.
LEMMA LastCommitted ==
    ASSUME NEW a, Committed # {}
    PROVE  LastHash(a) \in Committed /\ \A j \in Committed : j <= LastHash(a)
<1> DEFINE T == {MaxRows - y : y \in Committed}
<1>0. MaxRows \in Nat /\ \A y \in Committed : y \in Nat /\ y <= MaxRows
  BY AdminAssumption DEF Committed, Ids
<1>1. T \in SUBSET Nat /\ T # {}
  BY <1>0
<1>2. PICK m \in T : \A k \in T : m <= k
  BY <1>1, MinNat
<1>3. PICK x \in Committed : m = MaxRows - x
  BY <1>2
<1>4. \A y \in Committed : x >= y
  <2> TAKE y \in Committed
  <2>1. m <= MaxRows - y
    BY <1>2
  <2> QED
    BY <2>1, <1>0, <1>3
<1>5. LastHash(a) \in Committed /\ \A j \in Committed : LastHash(a) >= j
  BY <1>4, Zenon DEF LastHash
<1> QED
  BY <1>0, <1>5

LEMMA AdminInitially == Init => AdminInv
<1> SUFFICES ASSUME Init PROVE AdminInv
  OBVIOUS
<1>1. \A i \in Ids : log[i] = NoRow
  BY DEF Init
<1>2. IsRecord(NoRow, RowFields) /\ NoRow.st = "none"
  BY DEF NoRow, IsRecord, RowFields
<1>3. \A a \in Admins : req[a] = Idle
  BY DEF Init
<1>4. \A g : RequestOK(Idle, g, Committed) /\ ~ RowPlace(Idle, g)
  BY DEF RequestOK, RowPlace, ReadPlace, Idle, IsRecord, ReqFields, Places
<1>5. AdminTypes
  BY <1>1, <1>2 DEF Init, AdminTypes
<1> QED
  BY <1>1, <1>2, <1>3, <1>4, <1>5 DEF AdminInv, RequestInv, LogInv, HasRow

\* A request moves on; the log does not change.
LEMMA RequestMoves ==
    ASSUME AdminInv, NEW a \in Admins, NEW r, req' = [req EXCEPT ![a] = r],
           UNCHANGED <<governor, log, nextId>>, clears' \in Nat, faults' \in Nat,
           RequestOK(r, governor, Committed),
           RowPlace(r, governor) =>
              HasRow(a) /\ r.id = req[a].id /\ r.what = req[a].what /\ r.before = req[a].before
    PROVE  AdminInv'
<1>1. Committed' = Committed
  BY DEF Committed
<1>2. req' = [b \in Admins |-> req'[b]] /\ \A b \in Admins : req'[b] = IF b = a THEN r ELSE req[b]
  BY DEF AdminInv, AdminTypes
<1>3. AdminTypes'
  BY <1>2 DEF AdminInv, AdminTypes
<1>4. LogInv'
  BY <1>1 DEF AdminInv, LogInv
<1>5. RequestInv'
  <2>1. \A b \in Admins : RequestOK(req'[b], governor', Committed')
    BY <1>1, <1>2 DEF AdminInv, RequestInv
  <2>2. \A b \in Admins : HasRow(b)' => HasRow(b) /\ req'[b].id = req[b].id
                             /\ req'[b].what = req[b].what /\ req'[b].before = req[b].before
    BY <1>2 DEF HasRow
  <2>3. \A b \in Admins : HasRow(b)' => OwnsRow(req'[b], log')
    BY <2>2 DEF AdminInv, RequestInv, OwnsRow
  <2>4. \A b, c \in Admins : HasRow(b)' /\ HasRow(c)' /\ req'[b].id = req'[c].id => b = c
    BY <2>2 DEF AdminInv, RequestInv
  <2> QED
    BY <2>1, <2>3, <2>4 DEF RequestInv
<1> QED
  BY <1>3, <1>4, <1>5 DEF AdminInv

\* The request ends and its row is committed, or dropped.
LEMMA RequestEnds ==
    ASSUME AdminInv, NEW a \in Admins, HasRow(a), NEW r, req' = [req EXCEPT ![a] = r],
           NEW row, log' = [log EXCEPT ![req[a].id] = row], IsRecord(row, RowFields),
           UNCHANGED <<governor, nextId>>, clears' \in Nat, faults' \in Nat,
           RequestOK(r, governor, Committed), ~ RowPlace(r, governor),
           \/ row.st = "none"
           \/ row.st = "committed" /\ row.before = log[req[a].id].before
    PROVE  AdminInv' /\ Committed \subseteq Committed'
<1> DEFINE k == req[a].id
<1>1. k \in Ids /\ log[k].st = "pending"
  BY DEF AdminInv, RequestInv, OwnsRow
<1>2. log' = [i \in Ids |-> log'[i]] /\ \A i \in Ids : log'[i] = IF i = k THEN row ELSE log[i]
  BY <1>1 DEF AdminInv, AdminTypes
<1>3. req' = [b \in Admins |-> req'[b]] /\ \A b \in Admins : req'[b] = IF b = a THEN r ELSE req[b]
  BY DEF AdminInv, AdminTypes
<1>4. Committed \subseteq Committed'
  BY <1>1, <1>2 DEF Committed
<1>5. AdminTypes'
  BY <1>2, <1>3 DEF AdminInv, AdminTypes
<1>6. LogInv'
  BY <1>1, <1>2, <1>4 DEF AdminInv, LogInv
<1>7. RequestInv'
  <2>1. \A b \in Admins : RequestOK(req'[b], governor', Committed')
    BY <1>3, <1>4 DEF AdminInv, RequestInv, RequestOK
  <2>2. \A b \in Admins : HasRow(b)' => b # a /\ HasRow(b) /\ req'[b] = req[b] /\ req[b].id # k
    BY <1>3 DEF HasRow, AdminInv, RequestInv
  <2>3. \A b \in Admins : HasRow(b)' => OwnsRow(req'[b], log')
    BY <2>2, <1>2 DEF AdminInv, RequestInv, OwnsRow
  <2>4. \A b, c \in Admins : HasRow(b)' /\ HasRow(c)' /\ req'[b].id = req'[c].id => b = c
    BY <2>2 DEF AdminInv, RequestInv
  <2> QED
    BY <2>1, <2>3, <2>4 DEF RequestInv
<1> QED
  BY <1>4, <1>5, <1>6, <1>7 DEF AdminInv

\* Rows sealed before keep what they cover; fewer rows become quiet.
LEMMA CoverKept ==
    ASSUME AdminInv, CoverInv, Committed \subseteq Committed',
           \A k \in Ids : Sealed(k)' =>
               Sealed(k) /\ log'[k].before = log[k].before /\ log'[k].covers = log[k].covers
    PROVE  CoverInv'
<1> SUFFICES ASSUME NEW i \in Committed', NEW k \in Ids, Sealed(k)', QuietAmongCommitted(i)',
                    i \in log'[k].before
             PROVE  i \in log'[k].covers
  BY DEF CoverInv
<1>1. Sealed(k) /\ i \in log[k].before /\ log'[k].covers = log[k].covers
  OBVIOUS
<1>2. log[k].st # "none"
  BY <1>1 DEF Sealed, Committed, AdminInv, RequestInv, OwnsRow
<1>3. i \in Committed
  BY <1>1, <1>2 DEF AdminInv, LogInv
<1>4. \A j \in Committed : log'[j].before = log[j].before
  BY DEF Sealed, Committed
<1>5. QuietAmongCommitted(i)
  BY <1>3, <1>4 DEF QuietAmongCommitted
<1> QED
  BY <1>1, <1>3, <1>5 DEF CoverInv

LEMMA SealedStays ==
    ASSUME AdminInv, CoverInv, NEW a \in Admins, NEW r, req' = [req EXCEPT ![a] = r],
           UNCHANGED <<governor, log>>,
           RowPlace(r, governor) /\ r.pc \in {"commit", "anchor"} =>
               HasRow(a) /\ req[a].pc \in {"commit", "anchor"} /\ r.id = req[a].id
    PROVE  CoverInv'
<1>1. \A b \in Admins : req'[b] = IF b = a THEN r ELSE req[b]
  BY DEF AdminInv, AdminTypes
<1>2. Committed' = Committed
  BY DEF Committed
<1>3. \A k \in Ids : Sealed(k)' => Sealed(k)
  BY <1>1, <1>2 DEF Sealed, HasRow
<1> QED
  BY <1>2, <1>3, CoverKept

LEMMA SealedEnds ==
    ASSUME AdminInv, CoverInv, NEW a \in Admins, HasRow(a), NEW r, req' = [req EXCEPT ![a] = r],
           ~ RowPlace(r, governor), NEW row, log' = [log EXCEPT ![req[a].id] = row],
           UNCHANGED governor, Committed \subseteq Committed',
           \/ row.st = "none"
           \/ /\ row.st = "committed" /\ req[a].pc = "commit"
              /\ row.before = log[req[a].id].before /\ row.covers = log[req[a].id].covers
    PROVE  CoverInv'
<1> DEFINE k == req[a].id
<1>1. k \in Ids /\ log[k].st = "pending"
  BY DEF AdminInv, RequestInv, OwnsRow
<1>2. \A i \in Ids : log'[i] = IF i = k THEN row ELSE log[i]
  BY <1>1 DEF AdminInv, AdminTypes
<1>3. \A b \in Admins : req'[b] = IF b = a THEN r ELSE req[b]
  BY DEF AdminInv, AdminTypes
<1>4. \A b \in Admins : HasRow(b)' => b # a /\ HasRow(b) /\ req'[b] = req[b] /\ req[b].id # k
  BY <1>3 DEF HasRow, AdminInv, RequestInv
<1>5. ASSUME NEW i \in Ids, Sealed(i)'
      PROVE  Sealed(i) /\ log'[i].before = log[i].before /\ log'[i].covers = log[i].covers
  <2>1. CASE i = k
    <3>1. i \in Committed'
      BY <2>1, <1>4, <1>5 DEF Sealed
    <3>2. row.st = "committed"
      BY <2>1, <3>1, <1>2 DEF Committed
    <3> QED
      BY <2>1, <3>2, <1>2 DEF Sealed
  <2>2. CASE i # k
    BY <2>2, <1>2, <1>4, <1>5 DEF Sealed, Committed
  <2> QED
    BY <2>1, <2>2
<1> QED
  BY <1>5, CoverKept

(***************************************************************************)
(* The actions                                                             *)
(***************************************************************************)
\* What a route may begin with in which governor.
Starts(what, pc) ==
    \/ AuditFirst /\ what = "clear" /\ pc = StartOfRecord
    \/ ~ AuditFirst /\ what = "clear" /\ pc = "local"
    \/ governor = "ledger" /\ what = "anchor" /\ pc = "insert"
    \/ ~ AuditFirst /\ what = "anchor" /\ pc = "anchor"

LEMMA BeginKeeps ==
    ASSUME AdminInv, CoverInv, NEW a \in Admins, NEW what, NEW pc, Starts(what, pc),
           Begin(a, what, pc)
    PROVE  AdminInv' /\ CoverInv'
<1>1. PICK r : r = [Idle EXCEPT !.what = what, !.pc = pc, !.before = Committed]
  OBVIOUS
<1>2. r = [pc |-> pc, what |-> what, id |-> 0, prev |-> 0, before |-> Committed]
  BY <1>1 DEF Idle
<1>3. /\ req' = [req EXCEPT ![a] = r]
      /\ UNCHANGED <<governor, log, nextId, clears, faults>>
  BY <1>1 DEF Begin
<1>4. /\ governor \in {"ledger", "finance", "insurance", "cybersecurity"}
      /\ pc \in {"insert", "read", "local", "anchor"}
      /\ governor = "finance" => pc = "read"
      /\ governor # "finance" => pc # "read"
      /\ pc = "anchor" => what = "anchor" /\ governor \notin {"ledger", "finance"}
  BY AdminAssumption DEF AdminInv, AdminTypes, Starts, AuditFirst, StartOfRecord
<1>5. RequestOK(r, governor, Committed) /\ ~ RowPlace(r, governor)
  BY <1>2, <1>4 DEF RequestOK, RowPlace, ReadPlace, IsRecord, ReqFields, Places
<1>6. AdminInv'
  BY <1>3, <1>5, RequestMoves DEF AdminInv, AdminTypes
<1> QED
  BY <1>3, <1>5, <1>6, SealedStays

LEMMA InsertKeeps ==
    ASSUME AdminInv, CoverInv, NEW a \in Admins, INSERT(a)
    PROVE  AdminInv' /\ CoverInv'
<1> DEFINE n == nextId
           row == [st |-> "pending", what |-> req[a].what, covers |-> {}, before |-> req[a].before]
<1>1. PICK r : r = [req[a] EXCEPT !.id = n, !.pc = IF governor = "finance" THEN "seal" ELSE "read"]
  OBVIOUS
<1>2. /\ req[a].pc = "insert" /\ n \in Ids
      /\ log' = [log EXCEPT ![n] = row]
      /\ nextId' = n + 1
      /\ req' = [req EXCEPT ![a] = r]
      /\ UNCHANGED <<governor, clears, faults>>
  BY <1>1 DEF INSERT
<1>3. RequestOK(req[a], governor, Committed) /\ ~ HasRow(a)
  BY <1>2 DEF AdminInv, RequestInv, HasRow, RowPlace
<1>4. IsRecord(r, ReqFields) /\ r.id = n /\ r.what = req[a].what /\ r.before = req[a].before
      /\ r.prev = req[a].prev /\ r.pc = IF governor = "finance" THEN "seal" ELSE "read"
  BY <1>1, <1>3 DEF RequestOK, IsRecord, ReqFields
<1>5. \A i \in Ids : i \in Nat /\ (log[i].st # "none" => i < n)
  BY DEF AdminInv, LogInv, Ids
<1>6. log' = [i \in Ids |-> log'[i]] /\ \A i \in Ids : log'[i] = IF i = n THEN row ELSE log[i]
  BY <1>2 DEF AdminInv, AdminTypes
<1>7. req' = [b \in Admins |-> req'[b]] /\ \A b \in Admins : req'[b] = IF b = a THEN r ELSE req[b]
  BY <1>2 DEF AdminInv, AdminTypes
<1>8. log[n].st = "none"
  BY <1>2, <1>5
<1>9. IsRecord(row, RowFields) /\ row.st = "pending" /\ row.what = req[a].what /\ row.before = req[a].before
  BY DEF IsRecord, RowFields
<1> HIDE DEF row
<1>10. Committed' = Committed
  BY <1>6, <1>8, <1>9 DEF Committed
<1>11. AdminTypes'
  BY <1>2, <1>6, <1>7, <1>9 DEF AdminInv, AdminTypes
<1>12. LogInv'
  <2>1. \A j \in Committed : j \in Ids /\ j < n
    BY <1>5 DEF Committed
  <2>2. req[a].before \subseteq Committed
    BY <1>3 DEF RequestOK
  <2> QED
    BY <2>1, <2>2, <1>2, <1>5, <1>6, <1>9, <1>10 DEF AdminInv, LogInv
<1>13. RequestInv'
  <2>1. \A b \in Admins : HasRow(b) => req[b].id \in Ids /\ req[b].id # n
    BY <1>8 DEF AdminInv, RequestInv, OwnsRow
  <2>2. RequestOK(r, governor, Committed) /\ RowPlace(r, governor)
    <3>1. ReadPlace(r, governor) => ReadPlace(req[a], governor)
      BY <1>2, <1>4 DEF ReadPlace
    <3> QED
      BY <3>1, <1>3, <1>4 DEF RequestOK, RowPlace, Places
  <2>3. \A b \in Admins : RequestOK(req'[b], governor', Committed')
    BY <2>2, <1>2, <1>7, <1>10 DEF AdminInv, RequestInv
  <2>4. \A b \in Admins : HasRow(b)' => b = a \/ HasRow(b)
    BY <1>2, <1>7 DEF HasRow
  <2>5. \A b \in Admins : HasRow(b)' => OwnsRow(req'[b], log')
    BY <2>1, <2>4, <1>2, <1>4, <1>6, <1>7, <1>9 DEF AdminInv, RequestInv, OwnsRow
  <2>6. \A b, c \in Admins : HasRow(b)' /\ HasRow(c)' /\ req'[b].id = req'[c].id => b = c
    BY <2>1, <2>4, <1>4, <1>7 DEF AdminInv, RequestInv
  <2> QED
    BY <2>3, <2>5, <2>6 DEF RequestInv
<1>14. CoverInv'
  <2>1. \A i \in Ids : Sealed(i)' => Sealed(i) /\ i # n
    <3>1. \A b \in Admins : req'[b].pc \in {"commit", "anchor"} => b # a
      BY <1>4, <1>7
    <3>2. \A b \in Admins : HasRow(b)' /\ b # a => HasRow(b) /\ req'[b] = req[b] /\ req[b].id # n
      BY <1>2, <1>7, <1>8 DEF HasRow, AdminInv, RequestInv, OwnsRow
    <3>3. n \notin Committed
      BY <1>8 DEF Committed
    <3> QED
      BY <3>1, <3>2, <3>3, <1>10 DEF Sealed
  <2> QED
    BY <2>1, <1>6, <1>10, CoverKept
<1> QED
  BY <1>11, <1>12, <1>13, <1>14 DEF AdminInv

LEMMA ReadKeeps ==
    ASSUME AdminInv, CoverInv, NEW a \in Admins, ReadLastHash(a)
    PROVE  AdminInv' /\ CoverInv'
<1>1. PICK r : r = [req[a] EXCEPT !.prev = LastHash(a),
                                  !.pc = IF governor = "finance" THEN "insert" ELSE "seal"]
  OBVIOUS
<1>2. /\ req[a].pc = "read" /\ req' = [req EXCEPT ![a] = r]
      /\ UNCHANGED <<governor, log, nextId, clears, faults>>
  BY <1>1 DEF ReadLastHash
<1>3. RequestOK(req[a], governor, Committed)
  BY DEF AdminInv, RequestInv
<1>4. IsRecord(r, ReqFields) /\ r.id = req[a].id /\ r.what = req[a].what /\ r.before = req[a].before
      /\ r.prev = LastHash(a) /\ r.pc = IF governor = "finance" THEN "insert" ELSE "seal"
  BY <1>1, <1>3 DEF RequestOK, IsRecord, ReqFields
<1>5. \/ r.prev = 0 /\ r.before = {}
      \/ r.prev \in Committed /\ \A j \in r.before : j <= r.prev
  <2>1. r.before \subseteq Committed
    BY <1>3, <1>4 DEF RequestOK
  <2>2. CASE Committed = {}
    BY <2>1, <2>2, <1>4 DEF LastHash
  <2>3. CASE Committed # {}
    BY <2>1, <2>3, <1>4, LastCommitted
  <2> QED
    BY <2>2, <2>3
<1>6. RowPlace(r, governor) <=> HasRow(a)
  BY <1>2, <1>4 DEF HasRow, RowPlace
<1>7. RequestOK(r, governor, Committed)
  BY <1>3, <1>4, <1>5, <1>6 DEF RequestOK, Places, HasRow
<1>8. AdminInv'
  BY <1>2, <1>4, <1>6, <1>7, RequestMoves DEF AdminInv, AdminTypes
<1> QED
  BY <1>2, <1>4, <1>8, SealedStays

\* The seal.  The row it chains to is committed and no older than anything
\* committed when the action began, so it is a quiet row itself or was begun
\* after it and, by induction, covers it.
LEMMA SealKeeps ==
    ASSUME AdminInv, CoverInv, NEW a \in Admins, _seal_admin_audit_row(a)
    PROVE  AdminInv' /\ CoverInv'
<1> DEFINE k == req[a].id
           p == req[a].prev
           cov == IF p = 0 THEN {} ELSE {p} \cup log[p].covers
           next == IF governor = "ledger" /\ req[a].what = "anchor" THEN "anchor" ELSE "commit"
<1>1. PICK r : r = [req[a] EXCEPT !.pc = next]
  OBVIOUS
<1>2. PICK row : row = [log[k] EXCEPT !.covers = cov]
  OBVIOUS
<1>3. /\ req[a].pc = "seal" /\ log' = [log EXCEPT ![k] = row] /\ req' = [req EXCEPT ![a] = r]
      /\ UNCHANGED <<governor, nextId, clears, faults>>
  BY <1>1, <1>2 DEF _seal_admin_audit_row, Goto
<1>4. HasRow(a) /\ OwnsRow(req[a], log) /\ RequestOK(req[a], governor, Committed)
  BY <1>3 DEF AdminInv, RequestInv, HasRow, RowPlace
<1>5. k \in Ids /\ log[k].st = "pending" /\ log[k].what = req[a].what /\ log[k].before = req[a].before
  BY <1>4 DEF OwnsRow
<1> HIDE DEF cov, next, k, p
<1>6. IsRecord(row, RowFields) /\ row.st = "pending" /\ row.what = log[k].what
      /\ row.before = log[k].before /\ row.covers = cov
  BY <1>2, <1>5 DEF AdminInv, AdminTypes, IsRecord, RowFields
<1>7. IsRecord(r, ReqFields) /\ r.id = k /\ r.what = req[a].what /\ r.before = req[a].before
      /\ r.pc = next /\ r.prev = p
  BY <1>1, <1>4 DEF RequestOK, IsRecord, ReqFields, k, p
<1>8. log' = [i \in Ids |-> log'[i]] /\ \A i \in Ids : log'[i] = IF i = k THEN row ELSE log[i]
  BY <1>3, <1>5 DEF AdminInv, AdminTypes, k
<1>9. req' = [b \in Admins |-> req'[b]] /\ \A b \in Admins : req'[b] = IF b = a THEN r ELSE req[b]
  BY <1>3 DEF AdminInv, AdminTypes
<1>10. Committed' = Committed /\ k \notin Committed
  BY <1>5, <1>6, <1>8 DEF Committed
<1>11. AdminInv'
  <2>1. AdminTypes'
    BY <1>3, <1>6, <1>8, <1>9 DEF AdminInv, AdminTypes
  <2>2. LogInv'
    BY <1>3, <1>5, <1>6, <1>8, <1>10 DEF AdminInv, LogInv
  <2>3. RequestOK(r, governor, Committed) /\ RowPlace(r, governor)
    BY <1>4, <1>7 DEF RequestOK, RowPlace, ReadPlace, Places, next
  <2>4. \A b \in Admins : RequestOK(req'[b], governor', Committed')
    BY <2>3, <1>3, <1>9, <1>10 DEF AdminInv, RequestInv
  <2>5. \A b \in Admins : HasRow(b)' => HasRow(b) /\ req'[b].id = req[b].id
                             /\ req'[b].what = req[b].what /\ req'[b].before = req[b].before
    BY <1>3, <1>4, <1>7, <1>9 DEF HasRow, k
  <2>6. \A b \in Admins : HasRow(b)' => OwnsRow(req'[b], log')
    BY <2>5, <1>5, <1>6, <1>8 DEF AdminInv, RequestInv, OwnsRow
  <2>7. \A b, c \in Admins : HasRow(b)' /\ HasRow(c)' /\ req'[b].id = req'[c].id => b = c
    BY <2>5 DEF AdminInv, RequestInv
  <2> QED
    BY <2>1, <2>2, <2>4, <2>6, <2>7 DEF AdminInv, RequestInv
<1>12. CoverInv'
  <2> SUFFICES ASSUME NEW i \in Committed, NEW j \in Ids, Sealed(j)', QuietAmongCommitted(i)',
                      i \in log'[j].before
               PROVE  i \in log'[j].covers
    BY <1>10 DEF CoverInv
  <2>1. \A c \in Committed : log'[c] = log[c]
    BY <1>8, <1>10 DEF Committed
  <2>2. QuietAmongCommitted(i)
    BY <2>1, <1>10 DEF QuietAmongCommitted
  <2>3. CASE j # k
    <3>1. Sealed(j)
      BY <2>3, <1>3, <1>7, <1>9, <1>10 DEF Sealed, HasRow
    <3> QED
      BY <2>2, <2>3, <3>1, <1>8 DEF CoverInv
  <2>4. CASE j = k
    <3>1. i \in req[a].before /\ log'[j].covers = cov
      BY <2>4, <1>5, <1>6, <1>8
    <3>2. p \in Committed /\ i <= p
      BY <3>1, <1>3, <1>4 DEF RequestOK, ReadPlace, p
    <3>3. p # 0 /\ i \in Nat /\ p \in Nat
      BY <3>2 DEF Committed, Ids
    <3>4. cov = {p} \cup log[p].covers
      BY <3>3 DEF cov
    <3>5. CASE i # p
      <4>1. p \notin log[i].before
        BY <3>2, <3>3, <3>5 DEF AdminInv, LogInv, Committed, Ids
      <4>2. i \in log[p].before
        BY <4>1, <2>2, <3>2, <3>5 DEF QuietAmongCommitted
      <4>3. i \in log[p].covers
        BY <4>2, <2>2, <3>2 DEF CoverInv, Sealed, Committed
      <4> QED
        BY <4>3, <3>1, <3>4
    <3> QED
      BY <3>1, <3>4, <3>5
  <2> QED
    BY <2>3, <2>4
<1> QED
  BY <1>11, <1>12

LEMMA CommitKeeps ==
    ASSUME AdminInv, CoverInv, NEW a \in Admins, CommitAudit(a)
    PROVE  AdminInv' /\ CoverInv'
<1> DEFINE k == req[a].id
<1>1. PICK r : r = IF AuditFirst /\ req[a].what = "clear" THEN [Idle EXCEPT !.pc = "local"] ELSE Idle
  OBVIOUS
<1>2. PICK row : row = [log[k] EXCEPT !.st = "committed"]
  OBVIOUS
<1>3. /\ req[a].pc = "commit" /\ log' = [log EXCEPT ![k] = row] /\ req' = [req EXCEPT ![a] = r]
      /\ UNCHANGED <<governor, nextId, clears, faults>>
  BY <1>1, <1>2 DEF CommitAudit, CommitRow
<1>4. HasRow(a) /\ OwnsRow(req[a], log)
  BY <1>3 DEF AdminInv, RequestInv, HasRow, RowPlace
<1>5. IsRecord(row, RowFields) /\ row.st = "committed" /\ row.before = log[k].before
      /\ row.covers = log[k].covers
  BY <1>2, <1>4 DEF OwnsRow, AdminInv, AdminTypes, IsRecord, RowFields
<1>6. RequestOK(r, governor, Committed) /\ ~ RowPlace(r, governor)
  <2>1. r = [pc |-> "local", what |-> "clear", id |-> 0, prev |-> 0, before |-> {}]
        \/ r = [pc |-> "idle", what |-> "clear", id |-> 0, prev |-> 0, before |-> {}]
    BY <1>1 DEF Idle
  <2> QED
    BY <2>1 DEF RequestOK, RowPlace, ReadPlace, IsRecord, ReqFields, Places
<1>7. AdminInv' /\ Committed \subseteq Committed'
  BY <1>3, <1>4, <1>5, <1>6, RequestEnds DEF AdminInv, AdminTypes
<1> QED
  BY <1>3, <1>4, <1>5, <1>6, <1>7, SealedEnds

\* An idle request, after whatever became of it.
LEMMA IdleRequest == \A g, c : RequestOK(Idle, g, c) /\ ~ RowPlace(Idle, g)
  BY DEF RequestOK, RowPlace, ReadPlace, Idle, IsRecord, ReqFields, Places

\* The request is over and its uncommitted row, if there is one, is gone.
LEMMA DropKeeps ==
    ASSUME AdminInv, CoverInv, NEW a \in Admins, req' = [req EXCEPT ![a] = Idle],
           log' = IF req[a].id = 0 THEN log ELSE [log EXCEPT ![req[a].id] = NoRow],
           UNCHANGED <<governor, nextId>>, clears' \in Nat, faults' \in Nat
    PROVE  AdminInv' /\ CoverInv'
<1>1. CASE req[a].id = 0
  BY <1>1, IdleRequest, RequestMoves, SealedStays
<1>2. CASE req[a].id # 0
  <2>1. HasRow(a)
    BY <1>2 DEF AdminInv, RequestInv, RequestOK, HasRow
  <2>2. IsRecord(NoRow, RowFields) /\ NoRow.st = "none"
    BY DEF NoRow, IsRecord, RowFields
  <2>3. AdminInv' /\ Committed \subseteq Committed'
    BY <1>2, <2>1, <2>2, IdleRequest, RequestEnds
  <2> QED
    BY <1>2, <2>1, <2>2, <2>3, IdleRequest, SealedEnds
<1> QED
  BY <1>1, <1>2

LEMMA AnchorKeeps ==
    ASSUME AdminInv, CoverInv, NEW a \in Admins, AnchorOutcome(a)
    PROVE  AdminInv' /\ CoverInv'
<1>1. req[a].pc = "anchor" /\ UNCHANGED <<governor, nextId, clears, faults>>
  BY DEF AnchorOutcome
<1>2. CASE DropRow(a) /\ req' = [req EXCEPT ![a] = Idle]
  BY <1>1, <1>2, DropKeeps DEF DropRow, AdminInv, AdminTypes
<1>3. CASE ~ (DropRow(a) /\ req' = [req EXCEPT ![a] = Idle])
  <2>1. PICK r : r = IF governor = "ledger" THEN [req[a] EXCEPT !.pc = "commit"]
                     ELSE [req[a] EXCEPT !.pc = "insert", !.before = Committed]
    OBVIOUS
  <2>2. log' = log /\ req' = [req EXCEPT ![a] = r]
    BY <1>3, <2>1 DEF AnchorOutcome
  <2>3. RequestOK(req[a], governor, Committed) /\ governor # "finance"
    BY <1>1 DEF AdminInv, RequestInv, RequestOK
  <2>4. CASE governor = "ledger"
    <3>1. IsRecord(r, ReqFields) /\ r.pc = "commit" /\ r.id = req[a].id /\ r.what = req[a].what
          /\ r.before = req[a].before
      BY <2>1, <2>3, <2>4 DEF RequestOK, IsRecord, ReqFields
    <3>2. HasRow(a) /\ RequestOK(r, governor, Committed)
      BY <1>1, <2>3, <2>4, <3>1 DEF HasRow, RequestOK, RowPlace, ReadPlace, Places
    <3>3. AdminInv'
      BY <1>1, <2>2, <3>1, <3>2, RequestMoves DEF AdminInv, AdminTypes
    <3> QED
      BY <1>1, <2>2, <3>1, <3>2, <3>3, SealedStays
  <2>5. CASE governor # "ledger"
    <3>1. IsRecord(r, ReqFields) /\ r.pc = "insert" /\ r.id = req[a].id /\ r.what = req[a].what
          /\ r.before = Committed
      BY <2>1, <2>3, <2>5 DEF RequestOK, IsRecord, ReqFields
    <3>2. ~ RowPlace(r, governor) /\ RequestOK(r, governor, Committed)
      BY <1>1, <2>3, <2>5, <3>1 DEF RequestOK, RowPlace, ReadPlace, Places
    <3>3. AdminInv'
      BY <1>1, <2>2, <3>2, RequestMoves DEF AdminInv, AdminTypes
    <3> QED
      BY <1>1, <2>2, <3>2, <3>3, SealedStays
  <2> QED
    BY <2>4, <2>5
<1> QED
  BY <1>2, <1>3

LEMMA ClearKeeps ==
    ASSUME AdminInv, CoverInv, NEW a \in Admins, clear_diagnostic_mode(a)
    PROVE  AdminInv' /\ CoverInv'
<1>1. CASE ClearLocal(a)
  <2>1. PICK r : r = [req[a] EXCEPT !.pc = "redis"]
    OBVIOUS
  <2>2. /\ req[a].pc = "local" /\ req' = [req EXCEPT ![a] = r]
        /\ UNCHANGED <<governor, log, nextId, clears, faults>>
    BY <1>1, <2>1 DEF ClearLocal, Goto
  <2>3. RequestOK(req[a], governor, Committed)
    BY DEF AdminInv, RequestInv
  <2>4. IsRecord(r, ReqFields) /\ r.pc = "redis" /\ r.id = req[a].id /\ r.before = req[a].before
    BY <2>1, <2>3 DEF RequestOK, IsRecord, ReqFields
  <2>5. ~ RowPlace(r, governor) /\ RequestOK(r, governor, Committed)
    BY <2>2, <2>3, <2>4 DEF RequestOK, RowPlace, ReadPlace, Places
  <2>6. AdminInv'
    BY <2>2, <2>5, RequestMoves DEF AdminInv, AdminTypes
  <2> QED
    BY <2>2, <2>5, <2>6, SealedStays
<1>2. CASE ClearPublished(a)
  <2>1. PICK r : r = IF AuditFirst THEN Idle
                     ELSE [Idle EXCEPT !.pc = StartOfRecord, !.before = Committed]
    OBVIOUS
  <2>2. /\ req' = [req EXCEPT ![a] = r] /\ clears' = clears + 1
        /\ UNCHANGED <<governor, log, nextId, faults>>
    BY <1>2, <2>1 DEF ClearPublished
  <2>3. ~ RowPlace(r, governor) /\ RequestOK(r, governor, Committed)
    <3>1. CASE AuditFirst
      BY <2>1, <3>1, IdleRequest
    <3>2. CASE ~ AuditFirst
      <4>1. r = [pc |-> "insert", what |-> "clear", id |-> 0, prev |-> 0, before |-> Committed]
            /\ governor # "finance"
        BY <2>1, <3>2 DEF Idle, StartOfRecord, AuditFirst
      <4> QED
        BY <4>1 DEF RequestOK, RowPlace, ReadPlace, IsRecord, ReqFields, Places
    <3> QED
      BY <3>1, <3>2
  <2>4. AdminInv'
    BY <2>2, <2>3, RequestMoves DEF AdminInv, AdminTypes
  <2> QED
    BY <2>2, <2>3, <2>4, SealedStays
<1> QED
  BY <1>1, <1>2 DEF clear_diagnostic_mode

LEMMA QuietKeeps ==
    ASSUME AdminInv, CoverInv, UNCHANGED <<governor, log, nextId, req>>, clears' \in Nat, faults' \in Nat
    PROVE  AdminInv' /\ CoverInv'
<1>1. Committed' = Committed
  BY DEF Committed
<1>2. \A a \in Admins : HasRow(a)' <=> HasRow(a)
  BY DEF HasRow
<1>3. AdminInv'
  BY <1>1, <1>2 DEF AdminInv, AdminTypes, RequestInv, LogInv
<1>4. \A k \in Ids : Sealed(k)' <=> Sealed(k)
  BY <1>1, <1>2 DEF Sealed
<1> QED
  BY <1>1, <1>3, <1>4, CoverKept

LEMMA CrashKeeps ==
    ASSUME AdminInv, CoverInv, NEW p \in Processes, Crash(p)
    PROVE  AdminInv' /\ CoverInv'
<1>1. UNCHANGED <<governor, nextId>> /\ clears' \in Nat /\ faults' \in Nat
  BY DEF Crash, AdminInv, AdminTypes
<1>2. CASE p \in Admins
  BY <1>1, <1>2, DropKeeps DEF Crash, DropRow
<1>3. CASE p \notin Admins
  BY <1>1, <1>3, QuietKeeps DEF Crash
<1> QED
  BY <1>2, <1>3

LEMMA FailureKeeps ==
    ASSUME AdminInv, CoverInv, NEW a \in Admins, SessionFails(a)
    PROVE  AdminInv' /\ CoverInv'
<1>1. UNCHANGED <<governor, nextId>> /\ clears' \in Nat /\ faults' \in Nat
  BY DEF SessionFails, AdminInv, AdminTypes
<1> QED
  BY <1>1, DropKeeps DEF SessionFails, DropRow

\* What a step is, whichever governor takes it.
LEMMA Steps ==
    ASSUME Next
    PROVE  \/ \E a \in Admins : \/ \E what, pc : Starts(what, pc) /\ Begin(a, what, pc)
                                \/ record_admin_action(a) \/ AnchorOutcome(a)
                                \/ clear_diagnostic_mode(a)
           \/ enter_diagnostic_mode
           \/ \E p \in Processes : Crash(p)
<1>1. ASSUME NEW a \in Admins, governor \in {"ledger", "finance"}, audited_clear(a)
      PROVE  Starts("clear", StartOfRecord) /\ Begin(a, "clear", StartOfRecord)
  BY <1>1 DEF audited_clear, Starts, AuditFirst
<1>2. ASSUME NEW a \in Admins, governor \in {"insurance", "cybersecurity"}, clear_then_audit(a)
      PROVE  Starts("clear", "local") /\ Begin(a, "clear", "local")
  BY <1>2 DEF clear_then_audit, Starts, AuditFirst
<1>3. ASSUME NEW a \in Admins, governor \in {"ledger", "insurance", "cybersecurity"}, anchor_head(a)
      PROVE  \E pc : Starts("anchor", pc) /\ Begin(a, "anchor", pc)
  BY <1>3 DEF anchor_head, Starts, AuditFirst
<1>4. CASE governor = "ledger" /\ \E a \in Admins : LedgerRoutes(a)
  BY <1>1, <1>3, <1>4 DEF LedgerRoutes
<1>5. CASE governor = "finance" /\ \E a \in Admins : FinanceRoutes(a)
  BY <1>1, <1>5 DEF FinanceRoutes, finance_record_admin_action, finance_clear_diagnostic_mode
<1>6. CASE governor = "insurance" /\ \E a \in Admins : InsuranceRoutes(a)
  BY <1>2, <1>3, <1>6 DEF InsuranceRoutes, insurance_record_admin_action, insurance_clear_diagnostic_mode
<1>7. CASE governor = "cybersecurity" /\ \E a \in Admins : CybersecurityRoutes(a)
  BY <1>2, <1>3, <1>7
     DEF CybersecurityRoutes, cybersecurity_record_admin_action, cybersecurity_clear_diagnostic_mode
<1> QED
  BY <1>4, <1>5, <1>6, <1>7 DEF Next

LEMMA AdminStep ==
    ASSUME AdminInv, CoverInv, [Next]_vars
    PROVE  AdminInv' /\ CoverInv'
<1>1. CASE UNCHANGED vars
  BY <1>1, QuietKeeps DEF vars, AdminInv, AdminTypes
<1>2. ASSUME NEW a \in Admins, record_admin_action(a)
      PROVE  AdminInv' /\ CoverInv'
  BY <1>2, InsertKeeps, ReadKeeps, SealKeeps, CommitKeeps, FailureKeeps DEF record_admin_action
<1>3. CASE enter_diagnostic_mode
  BY <1>3, QuietKeeps DEF enter_diagnostic_mode, AdminInv, AdminTypes
<1> QED
  BY <1>1, <1>2, <1>3, Steps, BeginKeeps, AnchorKeeps, ClearKeeps, CrashKeeps

LEMMA AdminInvariant == Spec => [](AdminInv /\ CoverInv)
<1>1. Init => AdminInv /\ CoverInv
  <2> SUFFICES ASSUME Init PROVE CoverInv
    BY AdminInitially
  <2>1. Committed = {}
    BY DEF Init, NoRow, Committed
  <2> QED
    BY <2>1 DEF CoverInv
<1>2. (AdminInv /\ CoverInv) /\ [Next]_vars => (AdminInv /\ CoverInv)'
  BY AdminStep
<1> QED
  BY <1>1, <1>2, PTL DEF Spec

\* In each of the governors, however requests overlap, fail and die: an action
\* that record_admin_action recorded while it recorded no other is covered by
\* the hash of every action begun after it was committed.
THEOREM QuietActionsStay == Spec => []QuietActionsStayOnChain
<1>1. AdminInv /\ CoverInv => QuietActionsStayOnChain
  <2> SUFFICES ASSUME AdminInv, CoverInv, NEW i \in Committed, NEW k \in Committed, Quiet(i),
                      i \in log[k].before
               PROVE  i \in log[k].covers
    BY DEF QuietActionsStayOnChain
  <2>1. QuietAmongCommitted(i)
    BY DEF Quiet, QuietAmongCommitted, Committed
  <2>2. Sealed(k) /\ k \in Ids
    BY DEF Sealed, Committed
  <2> QED
    BY <2>1, <2>2 DEF CoverInv
<1> QED
  BY <1>1, AdminInvariant, PTL

(***************************************************************************)
(* No clear without its row                                                *)
(***************************************************************************)
LEMMA FiniteHere == \A S : S \subseteq Ids \/ S \subseteq Admins => IsFiniteSet(S) /\ Cardinality(S) \in Nat
<1>1. IsFiniteSet(Ids) /\ IsFiniteSet(Admins)
  BY AdminAssumption, FS_Interval DEF Ids
<1> QED
  BY <1>1, FS_Subset, FS_CardinalityType

LEMMA ClearSetsAreFinite ==
    /\ CommittedClears \subseteq Ids /\ Clearing \subseteq Admins /\ RecordingClears \subseteq Admins
    /\ CommittedClears' \subseteq Ids /\ Clearing' \subseteq Admins /\ RecordingClears' \subseteq Admins
  BY DEF CommittedClears, Committed, Clearing, RecordingClears, Recording

\* Rows are never taken back, nothing new is about to clear, and no recording
\* of a clear is given up.
LEMMA ClearKept ==
    ASSUME AdminInv, ClearInv, governor' = governor, clears' = clears, faults' = faults,
           CommittedClears \subseteq CommittedClears',
           AuditFirst => Clearing' \subseteq Clearing,
           ~ AuditFirst => RecordingClears \subseteq RecordingClears'
    PROVE  ClearInv'
<1>0. IsFiniteSet(CommittedClears') /\ IsFiniteSet(RecordingClears')
      /\ Cardinality(CommittedClears') \in Nat /\ Cardinality(Clearing') \in Nat
      /\ Cardinality(RecordingClears') \in Nat
  BY ClearSetsAreFinite, FiniteHere
<1>1. Cardinality(CommittedClears) <= Cardinality(CommittedClears')
  BY <1>0, FS_Subset
<1>2. CASE AuditFirst
  <2>1. Cardinality(Clearing') <= Cardinality(Clearing)
    BY <1>2, ClearSetsAreFinite, FiniteHere, FS_Subset
  <2> QED
    BY <1>0, <1>1, <1>2, <2>1, ClearSetsAreFinite, FiniteHere DEF ClearInv, AuditFirst, AdminInv, AdminTypes
<1>3. CASE ~ AuditFirst
  <2>1. Cardinality(RecordingClears) <= Cardinality(RecordingClears')
    BY <1>0, <1>3, FS_Subset
  <2> QED
    BY <1>0, <1>1, <1>3, <2>1, ClearSetsAreFinite, FiniteHere DEF ClearInv, AuditFirst, AdminInv, AdminTypes
<1> QED
  BY <1>2, <1>3

\* What a request does to the two sets of requests.
LEMMA RequestSets ==
    ASSUME AdminInv, NEW a \in Admins, NEW r, req' = [req EXCEPT ![a] = r]
    PROVE  /\ Clearing' = IF r.pc \in {"local", "redis"} THEN Clearing \cup {a} ELSE Clearing \ {a}
           /\ RecordingClears' = IF r.pc \in {"insert", "read", "seal", "commit"} /\ r.what = "clear"
                                 THEN RecordingClears \cup {a} ELSE RecordingClears \ {a}
<1>1. \A b \in Admins : req'[b] = IF b = a THEN r ELSE req[b]
  BY DEF AdminInv, AdminTypes
<1> QED
  BY <1>1 DEF Clearing, RecordingClears, Recording

\* A row that is not committed yet says nothing about clears.
LEMMA OtherRowKept ==
    ASSUME AdminInv, NEW k, k \notin Committed, NEW row, log' = [log EXCEPT ![k] = row]
    PROVE  CommittedClears \subseteq CommittedClears'
<1>1. \A i \in Committed : i \in Ids /\ log'[i] = log[i]
  BY DEF AdminInv, AdminTypes, Committed
<1> QED
  BY <1>1 DEF CommittedClears, Committed

LEMMA SameRows ==
    ASSUME log' = log
    PROVE  CommittedClears' = CommittedClears
  BY DEF CommittedClears, Committed

LEMMA BeginClears ==
    ASSUME AdminInv, ClearInv, NEW a \in Admins, NEW what, NEW pc, Starts(what, pc),
           Begin(a, what, pc)
    PROVE  ClearInv'
<1>1. PICK r : r = [Idle EXCEPT !.what = what, !.pc = pc, !.before = Committed]
  OBVIOUS
<1>2. r.pc = pc /\ r.what = what
  BY <1>1 DEF Idle
<1>3. /\ req[a].pc = "idle" /\ req' = [req EXCEPT ![a] = r]
      /\ UNCHANGED <<governor, log, clears, faults>>
  BY <1>1 DEF Begin
<1>4. AuditFirst => pc \notin {"local", "redis"}
  BY DEF Starts, AuditFirst, StartOfRecord
<1>5. Clearing' = IF pc \in {"local", "redis"} THEN Clearing \cup {a} ELSE Clearing \ {a}
  BY <1>2, <1>3, RequestSets
<1>6. RecordingClears \subseteq RecordingClears' \cup {a} /\ a \notin RecordingClears
  BY <1>3, RequestSets DEF RecordingClears, Recording
<1> QED
  BY <1>3, <1>4, <1>5, <1>6, SameRows, ClearKept

LEMMA InsertClears ==
    ASSUME AdminInv, ClearInv, NEW a \in Admins, INSERT(a)
    PROVE  ClearInv'
<1>1. PICK r : r = [req[a] EXCEPT !.id = nextId,
                                  !.pc = IF governor = "finance" THEN "seal" ELSE "read"]
  OBVIOUS
<1>2. req[a].pc = "insert" /\ req' = [req EXCEPT ![a] = r] /\ UNCHANGED <<governor, clears, faults>>
  BY <1>1 DEF INSERT
<1>3. r.pc \in {"seal", "read"} /\ r.what = req[a].what
  BY <1>1 DEF AdminInv, RequestInv, RequestOK, IsRecord, ReqFields
<1>4. CommittedClears \subseteq CommittedClears'
  <2>1. nextId \notin Committed
    BY DEF Committed, AdminInv, AdminTypes, LogInv
  <2> QED
    BY <2>1, OtherRowKept DEF INSERT
<1>5. Clearing' \subseteq Clearing /\ RecordingClears \subseteq RecordingClears'
  <2>1. a \in RecordingClears => req[a].what = "clear"
    BY DEF RecordingClears
  <2> QED
    BY <2>1, <1>2, <1>3, RequestSets
<1> QED
  BY <1>2, <1>4, <1>5, ClearKept

LEMMA ReadClears ==
    ASSUME AdminInv, ClearInv, NEW a \in Admins, ReadLastHash(a)
    PROVE  ClearInv'
<1>1. PICK r : r = [req[a] EXCEPT !.prev = LastHash(a),
                                  !.pc = IF governor = "finance" THEN "insert" ELSE "seal"]
  OBVIOUS
<1>2. req[a].pc = "read" /\ req' = [req EXCEPT ![a] = r]
      /\ UNCHANGED <<governor, log, clears, faults>>
  BY <1>1 DEF ReadLastHash
<1>3. r.pc \in {"insert", "seal"} /\ r.what = req[a].what
  BY <1>1 DEF AdminInv, RequestInv, RequestOK, IsRecord, ReqFields
<1>4. Clearing' \subseteq Clearing /\ RecordingClears \subseteq RecordingClears'
  <2>1. a \in RecordingClears => req[a].what = "clear"
    BY DEF RecordingClears
  <2> QED
    BY <2>1, <1>2, <1>3, RequestSets
<1> QED
  BY <1>2, <1>4, SameRows, ClearKept

LEMMA SealClears ==
    ASSUME AdminInv, ClearInv, NEW a \in Admins, _seal_admin_audit_row(a)
    PROVE  ClearInv'
<1>1. PICK r : r = [req[a] EXCEPT !.pc =
                       IF governor = "ledger" /\ req[a].what = "anchor" THEN "anchor" ELSE "commit"]
  OBVIOUS
<1>2. PICK row : row = [log[req[a].id] EXCEPT !.covers =
                  IF req[a].prev = 0 THEN {} ELSE {req[a].prev} \cup log[req[a].prev].covers]
  OBVIOUS
<1>3. /\ req[a].pc = "seal" /\ req' = [req EXCEPT ![a] = r] /\ log' = [log EXCEPT ![req[a].id] = row]
      /\ UNCHANGED <<governor, clears, faults>>
  BY <1>1, <1>2 DEF _seal_admin_audit_row, Goto
<1>4. r.what = req[a].what /\ r.pc \in {"anchor", "commit"} /\ (r.pc = "anchor" => r.what # "clear")
  BY <1>1 DEF AdminInv, RequestInv, RequestOK, IsRecord, ReqFields
<1>5. req[a].id \notin Committed
  BY <1>3 DEF AdminInv, RequestInv, HasRow, RowPlace, OwnsRow, Committed
<1>6. Clearing' \subseteq Clearing /\ RecordingClears \subseteq RecordingClears'
  BY <1>3, <1>4, RequestSets DEF RecordingClears
<1> QED
  BY <1>3, <1>5, <1>6, OtherRowKept, ClearKept

\* The row of a clear is there from here on: the ledger and finance may clear,
\* the siblings are done recording.
LEMMA CommitClears ==
    ASSUME AdminInv, ClearInv, NEW a \in Admins, CommitAudit(a)
    PROVE  ClearInv'
<1> DEFINE k == req[a].id
<1>1. PICK r : r = IF AuditFirst /\ req[a].what = "clear" THEN [Idle EXCEPT !.pc = "local"] ELSE Idle
  OBVIOUS
<1>2. PICK row : row = [log[k] EXCEPT !.st = "committed"]
  OBVIOUS
<1>3. /\ req[a].pc = "commit" /\ log' = [log EXCEPT ![k] = row] /\ req' = [req EXCEPT ![a] = r]
      /\ UNCHANGED <<governor, clears, faults>>
  BY <1>1, <1>2 DEF CommitAudit, CommitRow
<1>4. OwnsRow(req[a], log)
  BY <1>3 DEF AdminInv, RequestInv, HasRow, RowPlace
<1>5. k \in Ids /\ k \notin Committed
  BY <1>4 DEF OwnsRow, Committed
<1>6. row.st = "committed" /\ row.what = req[a].what
  BY <1>2, <1>4 DEF OwnsRow, AdminInv, AdminTypes, IsRecord, RowFields
<1>7. r.pc = IF AuditFirst /\ req[a].what = "clear" THEN "local" ELSE "idle"
  BY <1>1 DEF Idle
<1>8. CommittedClears \subseteq CommittedClears'
  BY <1>3, <1>5, OtherRowKept
<1>9. CASE req[a].what # "clear"
  <2>1. Clearing' \subseteq Clearing /\ RecordingClears' = RecordingClears
    BY <1>3, <1>7, <1>9, RequestSets DEF RecordingClears
  <2> QED
    BY <1>3, <1>8, <2>1, ClearKept
<1>10. CASE req[a].what = "clear"
  <2>1. k \notin CommittedClears /\ CommittedClears' = CommittedClears \cup {k}
    <3>1. \A i \in Ids : log'[i] = IF i = k THEN row ELSE log[i]
      BY <1>3, <1>5 DEF AdminInv, AdminTypes
    <3> QED
      BY <3>1, <1>5, <1>6, <1>10 DEF CommittedClears, Committed
  <2>2. Cardinality(CommittedClears') = Cardinality(CommittedClears) + 1
    BY <2>1, ClearSetsAreFinite, FiniteHere, FS_AddElement
  <2>3. CASE AuditFirst
    <3>1. a \notin Clearing /\ Clearing' = Clearing \cup {a}
      BY <1>3, <1>7, <1>10, <2>3, RequestSets DEF Clearing
    <3>2. Cardinality(Clearing') = Cardinality(Clearing) + 1
      BY <3>1, ClearSetsAreFinite, FiniteHere, FS_AddElement
    <3> QED
      BY <1>3, <2>2, <2>3, <3>2, ClearSetsAreFinite, FiniteHere DEF ClearInv, AuditFirst, AdminInv, AdminTypes
  <2>4. CASE ~ AuditFirst
    <3>1. a \in RecordingClears /\ RecordingClears' = RecordingClears \ {a}
      BY <1>3, <1>7, <1>10, <2>4, RequestSets DEF RecordingClears, Recording
    <3>2. Cardinality(RecordingClears') = Cardinality(RecordingClears) - 1
      BY <3>1, ClearSetsAreFinite, FiniteHere, FS_RemoveElement
    <3> QED
      BY <1>3, <2>2, <2>4, <3>2, ClearSetsAreFinite, FiniteHere DEF ClearInv, AuditFirst, AdminInv, AdminTypes
  <2> QED
    BY <2>3, <2>4
<1> QED
  BY <1>9, <1>10

LEMMA AnchorClears ==
    ASSUME AdminInv, ClearInv, NEW a \in Admins, AnchorOutcome(a)
    PROVE  ClearInv'
<1>1. req[a].pc = "anchor" /\ req[a].what = "anchor" /\ UNCHANGED <<governor, clears, faults>>
  BY DEF AnchorOutcome, AdminInv, RequestInv, RequestOK
<1>2. PICK r : req' = [req EXCEPT ![a] = r] /\ r.pc \notin {"local", "redis"}
  <2>1. PICK r : /\ req' = [req EXCEPT ![a] = r]
                 /\ \/ r = Idle
                    \/ r = [req[a] EXCEPT !.pc = "commit"]
                    \/ r = [req[a] EXCEPT !.pc = "insert", !.before = Committed]
    BY DEF AnchorOutcome
  <2>2. r.pc \in {"idle", "commit", "insert"}
    <3>1. IsRecord(req[a], ReqFields)
      BY DEF AdminInv, RequestInv, RequestOK
    <3>2. [req[a] EXCEPT !.pc = "commit"].pc = "commit"
          /\ [req[a] EXCEPT !.pc = "insert", !.before = Committed].pc = "insert"
      BY <3>1 DEF IsRecord, ReqFields
    <3>3. Idle.pc = "idle"
      BY DEF Idle
    <3> QED
      BY <2>1, <3>2, <3>3
  <2> QED
    BY <2>1, <2>2
<1>3. CommittedClears \subseteq CommittedClears'
  <2>1. req[a].id # 0 => req[a].id \notin Committed
    BY DEF AdminInv, RequestInv, RequestOK, HasRow, OwnsRow, Committed
  <2> QED
    BY <2>1, SameRows, OtherRowKept DEF AnchorOutcome, DropRow
<1>4. Clearing' \subseteq Clearing /\ RecordingClears \subseteq RecordingClears'
  BY <1>1, <1>2, RequestSets DEF RecordingClears, Recording
<1> QED
  BY <1>1, <1>3, <1>4, ClearKept

LEMMA ClearClears ==
    ASSUME AdminInv, ClearInv, NEW a \in Admins, clear_diagnostic_mode(a)
    PROVE  ClearInv'
<1>1. CASE ClearLocal(a)
  <2>1. PICK r : r = [req[a] EXCEPT !.pc = "redis"]
    OBVIOUS
  <2>2. /\ req[a].pc = "local" /\ req' = [req EXCEPT ![a] = r]
        /\ UNCHANGED <<governor, log, clears, faults>>
    BY <1>1, <2>1 DEF ClearLocal, Goto
  <2>3. Clearing' \subseteq Clearing /\ RecordingClears \subseteq RecordingClears'
    BY <2>2, RequestSets DEF Clearing, RecordingClears, Recording
  <2> QED
    BY <2>2, <2>3, SameRows, ClearKept
<1>2. CASE ClearPublished(a)
  <2>1. PICK r : r = IF AuditFirst THEN Idle
                     ELSE [Idle EXCEPT !.pc = StartOfRecord, !.before = Committed]
    OBVIOUS
  <2>2. /\ req[a].pc = "redis" /\ req' = [req EXCEPT ![a] = r] /\ clears' = clears + 1
        /\ UNCHANGED <<governor, log, faults>>
    BY <1>2, <2>1 DEF ClearPublished
  <2>3. CASE AuditFirst
    <3>1. r.pc = "idle"
      BY <2>1, <2>3 DEF Idle
    <3>2. a \in Clearing /\ Clearing' = Clearing \ {a}
      BY <2>2, <3>1, RequestSets DEF Clearing
    <3>3. Cardinality(Clearing') = Cardinality(Clearing) - 1
      BY <3>2, ClearSetsAreFinite, FiniteHere, FS_RemoveElement
    <3>4. CommittedClears' = CommittedClears
      BY <2>2, SameRows
    <3> QED
      BY <2>2, <2>3, <3>3, <3>4, ClearSetsAreFinite, FiniteHere DEF ClearInv, AuditFirst, AdminInv, AdminTypes
  <2>4. CASE ~ AuditFirst
    <3>1. r.pc \in {"insert", "read"} /\ r.what = "clear"
      BY <2>1, <2>4 DEF Idle, StartOfRecord
    <3>2. a \notin RecordingClears /\ RecordingClears' = RecordingClears \cup {a}
      BY <2>2, <3>1, RequestSets DEF RecordingClears, Recording
    <3>3. Cardinality(RecordingClears') = Cardinality(RecordingClears) + 1
      BY <3>2, ClearSetsAreFinite, FiniteHere, FS_AddElement
    <3>4. CommittedClears' = CommittedClears
      BY <2>2, SameRows
    <3> QED
      BY <2>2, <2>4, <3>3, <3>4, ClearSetsAreFinite, FiniteHere DEF ClearInv, AuditFirst, AdminInv, AdminTypes
  <2> QED
    BY <2>3, <2>4
<1> QED
  BY <1>1, <1>2 DEF clear_diagnostic_mode

\* A fault loses the recording of at most one clear.
LEMMA FaultClears ==
    ASSUME AdminInv, ClearInv, NEW p, UNCHANGED <<governor, clears>>, faults' = faults + 1,
           CommittedClears \subseteq CommittedClears', Clearing' \subseteq Clearing,
           RecordingClears \subseteq RecordingClears' \cup {p}
    PROVE  ClearInv'
<1>1. Cardinality(CommittedClears) <= Cardinality(CommittedClears')
      /\ Cardinality(Clearing') <= Cardinality(Clearing)
  BY ClearSetsAreFinite, FiniteHere, FS_Subset
<1>2. Cardinality(RecordingClears) <= Cardinality(RecordingClears') + 1
  <2>1. IsFiniteSet(RecordingClears' \cup {p})
        /\ Cardinality(RecordingClears' \cup {p}) <= Cardinality(RecordingClears') + 1
    <3>1. IsFiniteSet(RecordingClears') /\ Cardinality(RecordingClears') \in Nat
      BY ClearSetsAreFinite, FiniteHere
    <3> QED
      BY <3>1, FS_AddElement
  <2>2. Cardinality(RecordingClears) <= Cardinality(RecordingClears' \cup {p})
    BY <2>1, FS_Subset
  <2>3. Cardinality(RecordingClears' \cup {p}) \in Nat
    BY <2>1, FS_CardinalityType
  <2> QED
    BY <2>1, <2>2, <2>3, ClearSetsAreFinite, FiniteHere
<1> QED
  BY <1>1, <1>2, ClearSetsAreFinite, FiniteHere DEF ClearInv, AuditFirst, AdminInv, AdminTypes

\* The request of a ends without its row.
LEMMA DropClears ==
    ASSUME AdminInv, ClearInv, NEW a \in Admins, UNCHANGED <<governor, clears>>,
           faults' = faults + 1, DropRow(a), req' = [req EXCEPT ![a] = Idle]
    PROVE  ClearInv'
<1>1. req[a].id # 0 => req[a].id \notin Committed
  BY DEF AdminInv, RequestInv, RequestOK, HasRow, OwnsRow, Committed
<1>2. CommittedClears \subseteq CommittedClears'
  BY <1>1, SameRows, OtherRowKept DEF DropRow
<1>3. Idle.pc = "idle"
  BY DEF Idle
<1>4. Clearing' \subseteq Clearing /\ RecordingClears \subseteq RecordingClears' \cup {a}
  BY <1>3, RequestSets
<1> QED
  BY <1>2, <1>4, FaultClears

LEMMA FailureClears ==
    ASSUME AdminInv, ClearInv, NEW a \in Admins, SessionFails(a)
    PROVE  ClearInv'
  BY DropClears DEF SessionFails

LEMMA CrashClears ==
    ASSUME AdminInv, ClearInv, NEW p \in Processes, Crash(p)
    PROVE  ClearInv'
<1>1. UNCHANGED <<governor, clears>> /\ faults' = faults + 1
  BY DEF Crash
<1>2. CASE p \in Admins
  BY <1>1, <1>2, DropClears DEF Crash, DropRow
<1>3. CASE p \notin Admins
  <2>1. UNCHANGED <<log, req>>
    BY <1>3 DEF Crash
  <2>2. CommittedClears' = CommittedClears /\ Clearing' = Clearing /\ RecordingClears' = RecordingClears
    BY <2>1, SameRows DEF Clearing, RecordingClears, Recording
  <2> QED
    BY <1>1, <2>2, FaultClears
<1> QED
  BY <1>2, <1>3

LEMMA ClearStep ==
    ASSUME AdminInv, ClearInv, [Next]_vars
    PROVE  ClearInv'
<1>1. CASE UNCHANGED vars
  BY <1>1, SameRows, ClearKept DEF vars, Clearing, RecordingClears, Recording
<1>2. ASSUME NEW a \in Admins, record_admin_action(a)
      PROVE  ClearInv'
  BY <1>2, InsertClears, ReadClears, SealClears, CommitClears, FailureClears DEF record_admin_action
<1>3. CASE enter_diagnostic_mode
  BY <1>3, SameRows, ClearKept DEF enter_diagnostic_mode, Clearing, RecordingClears, Recording
<1> QED
  BY <1>1, <1>2, <1>3, Steps, BeginClears, AnchorClears, ClearClears, CrashClears

\* In the ledger and in finance every /diagnostic/clear that took effect has its
\* committed audit row, whatever dies or fails in between; in insurance and
\* cybersecurity every one has its row, is still being recorded, or lost its
\* process or its database session after clearing.
THEOREM ClearsStayAudited == Spec => []ClearsAreAudited
<1>1. Init => AdminInv /\ ClearInv
  <2> SUFFICES ASSUME Init PROVE ClearInv
    BY AdminInitially
  <2>1. Clearing = {}
    BY DEF Init, Idle, Clearing
  <2>2. Cardinality(Clearing) = 0 /\ clears = 0 /\ faults = 0
    BY <2>1, FS_EmptySet DEF Init
  <2> QED
    BY <2>2, ClearSetsAreFinite, FiniteHere DEF ClearInv
<1>2. (AdminInv /\ CoverInv /\ ClearInv) /\ [Next]_vars => (AdminInv /\ CoverInv /\ ClearInv)'
  BY AdminStep, ClearStep
<1>3. ASSUME AdminInv, ClearInv
      PROVE  ClearsAreAudited
  <2>1. clears <= Cardinality(CommittedClears) + IF AuditFirst THEN 0 ELSE faults + Cardinality(RecordingClears)
    BY <1>3, ClearSetsAreFinite, FiniteHere DEF ClearInv, AdminInv, AdminTypes
  <2> QED
    BY <2>1 DEF ClearsAreAudited, CommittedClears, RecordingClears
<1> QED
  BY <1>1, <1>2, <1>3, AdminInvariant, PTL DEF Spec
=============================================================================
