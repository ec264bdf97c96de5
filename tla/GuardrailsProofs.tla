--------------------------- MODULE GuardrailsProofs ---------------------------
(***************************************************************************)
(* The in-flight counter of the guardrails, for any number of processes,   *)
(* request threads, keys and limits, in each of the three governors: it    *)
(* caps what is in flight, it does not leak, and what does leak expires.   *)
(***************************************************************************)
EXTENDS Guardrails, FiniteSetTheorems, TLAPS

ReqFields == {"pc", "key", "bumped"}

RedisFields == {"rate", "ops", "inflight", "ttl"}

IsRecord(r, fields) == DOMAIN r = fields /\ r = [x \in fields |-> r[x]]

\* A request in governor g, when the rows are t: it has a key, and is in its
\* transaction without a slot only because the ledger found the row of its key.
RequestOK(r, g, t) ==
    /\ IsRecord(r, ReqFields) /\ r.bumped \in BOOLEAN
    /\ r.pc # "idle" => r.key \in Keys
    /\ r.pc = "db" /\ ~ r.bumped => g = "ledger" /\ t[r.key] # "none"

GuardTypes ==
    /\ IsRecord(redis, RedisFields) /\ redis.inflight \in Int
    /\ degraded = [s \in Sidecars |-> degraded[s]]
    /\ req = [w \in Workers |-> req[w]]
    /\ row = [k \in Keys |-> row[k]]
    /\ \A k \in Keys : row[k] \in {"none", "open", "settled", "expired"}
    /\ \A w \in Workers : RequestOK(req[w], governor, row)

\* Only a failure of Redis makes a process use its own limiter.
RedisTrusted ==
    "redis_failed" \notin incidents =>
        /\ \A s \in Sidecars : ~ degraded[s]
        /\ \A w \in Workers : req[w].pc # "fallback"

GuardInv == GuardTypes /\ RedisTrusted

\* The counter went up for request r, and r has not brought it down yet.
HasSlot(r) == r.pc \in {"expire", "undo", "release"} \/ (r.pc = "db" /\ r.bumped)

\* Request r was admitted, or will be once its key has a time to live.
InFlight(r) == (r.pc = "db" /\ r.bumped) \/ (r.pc = "expire" /\ MaxInflight # 0)

Slotted == {w \in Workers : HasSlot(req[w])}

Flying == {w \in Workers : InFlight(req[w])}

\* Rows whose slot was not returned yet.
Charged == {k \in Keys : row[k] \in {"open", "expired"}}

\* While nothing was freed twice the counter covers every slot that is out ...
CapInv ==
    incidents \cap {"redis_failed", "freed"} = {} =>
        /\ Cardinality(Charged) + Cardinality(Slotted) <= redis.inflight
        /\ Cardinality(Open) + Cardinality(Flying) <= MaxInflight
        /\ \A w \in Workers : req[w].pc # "zero"

\* ... and while none was lost it covers nothing else.
SlotInv ==
    incidents \cap {"redis_failed", "crash", "kept"} = {} =>
        redis.inflight <= Cardinality(Open) + Cardinality(Slotted)

Inv == GuardInv /\ CapInv /\ SlotInv /\ LeaksExpire

Slots(r) == IF HasSlot(r) THEN 1 ELSE 0

Flights(r) == IF InFlight(r) THEN 1 ELSE 0

(***************************************************************************)
(* Counting                                                                *)
(***************************************************************************)
LEMMA FiniteHere ==
    \A S : S \subseteq Workers \/ S \subseteq Keys => IsFiniteSet(S) /\ Cardinality(S) \in Nat
  BY GuardrailsAssumption, FS_Subset, FS_CardinalityType

LEMMA SetsHere ==
    /\ Slotted \subseteq Workers /\ Flying \subseteq Workers /\ Open \subseteq Keys /\ Charged \subseteq Keys
    /\ Slotted' \subseteq Workers /\ Flying' \subseteq Workers /\ Open' \subseteq Keys /\ Charged' \subseteq Keys
  BY DEF Slotted, Flying, Open, Charged

LEMMA CountsAreNumbers ==
    /\ Cardinality(Slotted) \in Nat /\ Cardinality(Flying) \in Nat
    /\ Cardinality(Open) \in Nat /\ Cardinality(Charged) \in Nat
    /\ Cardinality(Slotted') \in Nat /\ Cardinality(Flying') \in Nat
    /\ Cardinality(Open') \in Nat /\ Cardinality(Charged') \in Nat
    /\ MaxInflight \in Nat
  BY SetsHere, FiniteHere, GuardrailsAssumption

\* An element comes or goes.
LEMMA MemberCounts ==
    ASSUME NEW S, NEW T, NEW x, IsFiniteSet(S), NEW i \in {0, 1}, NEW j \in {0, 1},
           x \in S <=> i = 1, T = IF j = 1 THEN S \cup {x} ELSE S \ {x}
    PROVE  Cardinality(T) = Cardinality(S) + j - i
<1>1. Cardinality(S) \in Nat
  BY FS_CardinalityType
<1>2. CASE j = 1
  BY <1>1, <1>2, FS_AddElement
<1>3. CASE j = 0
  BY <1>1, <1>3, FS_RemoveElement
<1> QED
  BY <1>2, <1>3

\* One request moves.
LEMMA RequestCounts ==
    ASSUME GuardTypes, NEW w \in Workers, NEW r, req' = [req EXCEPT ![w] = r]
    PROVE  /\ Cardinality(Slotted') = Cardinality(Slotted) + Slots(r) - Slots(req[w])
           /\ Cardinality(Flying') = Cardinality(Flying) + Flights(r) - Flights(req[w])
<1>1. \A v \in Workers : req'[v] = IF v = w THEN r ELSE req[v]
  BY DEF GuardTypes
<1>2. Slotted' = IF HasSlot(r) THEN Slotted \cup {w} ELSE Slotted \ {w}
  <2>1. \A v \in Workers : HasSlot(req'[v]) <=> IF v = w THEN HasSlot(r) ELSE HasSlot(req[v])
    BY <1>1
  <2> QED
    BY <2>1 DEF Slotted
<1>3. Flying' = IF InFlight(r) THEN Flying \cup {w} ELSE Flying \ {w}
  <2>1. \A v \in Workers : InFlight(req'[v]) <=> IF v = w THEN InFlight(r) ELSE InFlight(req[v])
    BY <1>1
  <2> QED
    BY <2>1 DEF Flying
<1>4. (w \in Slotted <=> HasSlot(req[w])) /\ (w \in Flying <=> InFlight(req[w]))
  BY DEF Slotted, Flying
<1>5. IsFiniteSet(Slotted) /\ IsFiniteSet(Flying)
  BY SetsHere, FiniteHere
<1>6. Cardinality(Slotted') = Cardinality(Slotted) + Slots(r) - Slots(req[w])
  <2>1. Slots(r) \in {0, 1} /\ Slots(req[w]) \in {0, 1}
        /\ (Slots(r) = 1 <=> HasSlot(r)) /\ (Slots(req[w]) = 1 <=> HasSlot(req[w]))
    BY DEF Slots
  <2> QED
    BY <2>1, <1>2, <1>4, <1>5, MemberCounts
<1>7. Cardinality(Flying') = Cardinality(Flying) + Flights(r) - Flights(req[w])
  <2>1. Flights(r) \in {0, 1} /\ Flights(req[w]) \in {0, 1}
        /\ (Flights(r) = 1 <=> InFlight(r)) /\ (Flights(req[w]) = 1 <=> InFlight(req[w]))
    BY DEF Flights
  <2> QED
    BY <2>1, <1>3, <1>4, <1>5, MemberCounts
<1> QED
  BY <1>6, <1>7

\* One row changes its status.
LEMMA RowCounts ==
    ASSUME GuardTypes, NEW k \in Keys, NEW v, row' = [row EXCEPT ![k] = v]
    PROVE  /\ Cardinality(Open') = Cardinality(Open) + (IF v = "open" THEN 1 ELSE 0)
                                     - (IF row[k] = "open" THEN 1 ELSE 0)
           /\ Cardinality(Charged') = Cardinality(Charged) + (IF v \in {"open", "expired"} THEN 1 ELSE 0)
                                        - (IF row[k] \in {"open", "expired"} THEN 1 ELSE 0)
<1>1. \A j \in Keys : row'[j] = IF j = k THEN v ELSE row[j]
  BY DEF GuardTypes
<1>2. Open' = IF v = "open" THEN Open \cup {k} ELSE Open \ {k}
  BY <1>1 DEF Open
<1>3. Charged' = IF v \in {"open", "expired"} THEN Charged \cup {k} ELSE Charged \ {k}
  BY <1>1 DEF Charged
<1>4. (k \in Open <=> row[k] = "open") /\ (k \in Charged <=> row[k] \in {"open", "expired"})
  BY DEF Open, Charged
<1>5. IsFiniteSet(Open) /\ IsFiniteSet(Charged)
  BY SetsHere, FiniteHere
<1>6. Cardinality(Open') = Cardinality(Open) + (IF v = "open" THEN 1 ELSE 0)
                             - (IF row[k] = "open" THEN 1 ELSE 0)
  <2> DEFINE j == IF v = "open" THEN 1 ELSE 0
             i == IF row[k] = "open" THEN 1 ELSE 0
  <2>1. i \in {0, 1} /\ j \in {0, 1} /\ (k \in Open <=> i = 1)
        /\ Open' = IF j = 1 THEN Open \cup {k} ELSE Open \ {k}
    BY <1>2, <1>4
  <2> HIDE DEF i, j
  <2>2. Cardinality(Open') = Cardinality(Open) + j - i
    BY <2>1, <1>5, MemberCounts
  <2> QED
    BY <2>2 DEF i, j
<1>7. Cardinality(Charged') = Cardinality(Charged) + (IF v \in {"open", "expired"} THEN 1 ELSE 0)
                                - (IF row[k] \in {"open", "expired"} THEN 1 ELSE 0)
  <2> DEFINE j == IF v \in {"open", "expired"} THEN 1 ELSE 0
             i == IF row[k] \in {"open", "expired"} THEN 1 ELSE 0
  <2>1. i \in {0, 1} /\ j \in {0, 1} /\ (k \in Charged <=> i = 1)
        /\ Charged' = IF j = 1 THEN Charged \cup {k} ELSE Charged \ {k}
    BY <1>3, <1>4
  <2> HIDE DEF i, j
  <2>2. Cardinality(Charged') = Cardinality(Charged) + j - i
    BY <2>1, <1>5, MemberCounts
  <2> QED
    BY <2>2 DEF i, j
<1> QED
  BY <1>6, <1>7

LEMMA SameRows ==
    ASSUME row' = row
    PROVE  Open' = Open /\ Charged' = Charged
  BY DEF Open, Charged

(***************************************************************************)
(* One request moves: what is left to show of each part of the invariant   *)
(***************************************************************************)
LEMMA RequestKept ==
    ASSUME GuardInv, NEW w \in Workers, NEW r, req' = [req EXCEPT ![w] = r],
           governor' = governor, incidents \subseteq incidents',
           degraded' = [s \in Sidecars |-> degraded'[s]],
           degraded' = degraded \/ "redis_failed" \in incidents',
           IsRecord(redis', RedisFields), redis'.inflight \in Int,
           row' = [k \in Keys |-> row'[k]],
           \A k \in Keys : row'[k] \in {"none", "open", "settled", "expired"},
           \A k \in Keys : row[k] # "none" => row'[k] # "none",
           RequestOK(r, governor, row'), r.pc # "fallback" \/ degraded[Host[w]] \/ "redis_failed" \in incidents'
    PROVE  GuardInv'
<1>1. req' = [v \in Workers |-> req'[v]] /\ \A v \in Workers : req'[v] = IF v = w THEN r ELSE req[v]
  BY DEF GuardInv, GuardTypes
<1>2. \A v \in Workers : RequestOK(req[v], governor, row')
  BY DEF GuardInv, GuardTypes, RequestOK
<1>3. \A v \in Workers : RequestOK(req'[v], governor', row')
  BY <1>1, <1>2
<1>4. GuardTypes'
  BY <1>1, <1>3 DEF GuardInv, GuardTypes
<1>5. Host[w] \in Sidecars
  BY GuardrailsAssumption
<1>6. RedisTrusted'
  BY <1>1, <1>5 DEF GuardInv, RedisTrusted
<1> QED
  BY <1>4, <1>6 DEF GuardInv

LEMMA CapKept ==
    ASSUME GuardInv, CapInv, NEW w \in Workers, NEW r, req' = [req EXCEPT ![w] = r],
           incidents \subseteq incidents', redis'.inflight \in Int,
           incidents' \cap {"redis_failed", "freed"} = {} =>
               /\ Cardinality(Charged') + Slots(r) - Slots(req[w]) - redis'.inflight
                     <= Cardinality(Charged) - redis.inflight
               /\ Cardinality(Open') + Flights(r) - Flights(req[w]) <= Cardinality(Open)
               /\ r.pc # "zero"
    PROVE  CapInv'
<1> SUFFICES ASSUME incidents' \cap {"redis_failed", "freed"} = {}
             PROVE  /\ Cardinality(Charged') + Cardinality(Slotted') <= redis'.inflight
                    /\ Cardinality(Open') + Cardinality(Flying') <= MaxInflight
                    /\ \A v \in Workers : req'[v].pc # "zero"
  BY DEF CapInv
<1>1. incidents \cap {"redis_failed", "freed"} = {}
  OBVIOUS
<1>2. \A v \in Workers : req'[v] = IF v = w THEN r ELSE req[v]
  BY DEF GuardInv, GuardTypes
<1>3. Slots(r) \in {0, 1} /\ Slots(req[w]) \in {0, 1} /\ Flights(r) \in {0, 1} /\ Flights(req[w]) \in {0, 1}
  BY DEF Slots, Flights
<1>4. redis.inflight \in Int
  BY DEF GuardInv, GuardTypes
<1>5. Cardinality(Charged') + Cardinality(Slotted') <= redis'.inflight
  <2>1. Cardinality(Slotted') = Cardinality(Slotted) + Slots(r) - Slots(req[w])
    BY RequestCounts DEF GuardInv
  <2>2. Cardinality(Charged) + Cardinality(Slotted) <= redis.inflight
    BY <1>1 DEF CapInv
  <2> QED
    BY <2>1, <2>2, <1>3, <1>4, CountsAreNumbers
<1>6. Cardinality(Open') + Cardinality(Flying') <= MaxInflight
  <2>1. Cardinality(Flying') = Cardinality(Flying) + Flights(r) - Flights(req[w])
    BY RequestCounts DEF GuardInv
  <2>2. Cardinality(Open) + Cardinality(Flying) <= MaxInflight
    BY <1>1 DEF CapInv
  <2> QED
    BY <2>1, <2>2, <1>3, CountsAreNumbers
<1> QED
  BY <1>1, <1>2, <1>5, <1>6 DEF CapInv

LEMMA SlotKept ==
    ASSUME GuardInv, SlotInv, NEW w \in Workers, NEW r, req' = [req EXCEPT ![w] = r],
           incidents \subseteq incidents', redis'.inflight \in Int,
           incidents' \cap {"redis_failed", "crash", "kept"} = {} =>
               redis'.inflight - redis.inflight
                  <= Cardinality(Open') - Cardinality(Open) + Slots(r) - Slots(req[w])
    PROVE  SlotInv'
<1> SUFFICES ASSUME incidents' \cap {"redis_failed", "crash", "kept"} = {}
             PROVE  redis'.inflight <= Cardinality(Open') + Cardinality(Slotted')
  BY DEF SlotInv
<1>1. incidents \cap {"redis_failed", "crash", "kept"} = {}
  OBVIOUS
<1>2. Slots(r) \in {0, 1} /\ Slots(req[w]) \in {0, 1} /\ redis.inflight \in Int
  BY DEF Slots, GuardInv, GuardTypes
<1>3. Cardinality(Slotted') = Cardinality(Slotted) + Slots(r) - Slots(req[w])
  BY RequestCounts DEF GuardInv
<1>4. redis.inflight <= Cardinality(Open) + Cardinality(Slotted)
  BY <1>1 DEF SlotInv
<1> QED
  BY <1>2, <1>3, <1>4, CountsAreNumbers

LEMMA LeakKept ==
    ASSUME GuardInv, LeaksExpire, NEW w \in Workers, NEW r, req' = [req EXCEPT ![w] = r],
           incidents \subseteq incidents',
           incidents' \cap {"redis_failed", "crash"} = {} =>
               \/ redis'.ttl \/ r.pc \in {"expire", "zero"}
               \/ ~ (redis'.inflight > 0)
               \/ /\ req[w].pc \notin {"expire", "zero"} /\ redis'.ttl = redis.ttl
                  /\ redis.inflight > 0
    PROVE  LeaksExpire'
<1>1. \A v \in Workers : req'[v] = IF v = w THEN r ELSE req[v]
  BY DEF GuardInv, GuardTypes
<1> SUFFICES ASSUME incidents' \cap {"redis_failed", "crash"} = {}, redis'.inflight > 0, ~ redis'.ttl
             PROVE  At({"expire", "zero"})' # {}
  BY DEF LeaksExpire
<1>2. CASE r.pc \in {"expire", "zero"}
  <2>1. w \in At({"expire", "zero"})'
    BY <1>1, <1>2 DEF At
  <2> QED
    BY <2>1
<1>3. CASE req[w].pc \notin {"expire", "zero"} /\ redis'.ttl = redis.ttl /\ redis.inflight > 0
  <2>1. PICK v \in Workers : v # w /\ req[v].pc \in {"expire", "zero"}
    BY <1>3 DEF LeaksExpire, At
  <2>2. v \in At({"expire", "zero"})'
    BY <1>1, <2>1 DEF At
  <2> QED
    BY <2>2
<1> QED
  BY <1>2, <1>3

(***************************************************************************)
(* Where a request goes                                                    *)
(***************************************************************************)
LEMMA IdleOK == Idle.pc = "idle" /\ \A g, t : RequestOK(Idle, g, t)
<1>1. PICK k : Idle = [pc |-> "idle", key |-> k, bumped |-> FALSE]
  BY DEF Idle
<1>2. Idle.pc = "idle" /\ Idle.bumped = FALSE /\ IsRecord(Idle, ReqFields)
  BY <1>1 DEF IsRecord, ReqFields
<1> QED
  BY <1>2 DEF RequestOK

LEMMA Goes ==
    ASSUME GuardTypes, NEW w \in Workers, NEW pc, Goto(w, pc), pc # "db", req[w].pc # "idle"
    PROVE  \E r : req' = [req EXCEPT ![w] = r] /\ r.pc = pc /\ RequestOK(r, governor, row)
<1>1. PICK r : r = [req[w] EXCEPT !.pc = pc]
  OBVIOUS
<1>2. req' = [req EXCEPT ![w] = r]
  BY <1>1 DEF Goto
<1>3. RequestOK(req[w], governor, row)
  BY DEF GuardTypes
<1>4. IsRecord(r, ReqFields) /\ r.pc = pc /\ r.key = req[w].key /\ r.bumped = req[w].bumped
  BY <1>1, <1>3 DEF RequestOK, IsRecord, ReqFields
<1>5. RequestOK(r, governor, row)
  BY <1>3, <1>4 DEF RequestOK
<1> QED
  BY <1>2, <1>4, <1>5

LEMMA Admits ==
    ASSUME GuardTypes, NEW w \in Workers, Admit(w), req[w].pc # "idle"
    PROVE  \E r : req' = [req EXCEPT ![w] = r] /\ r.pc = "db" /\ r.bumped = TRUE
                  /\ RequestOK(r, governor, row)
<1>1. PICK r : r = [req[w] EXCEPT !.pc = "db", !.bumped = TRUE]
  OBVIOUS
<1>2. req' = [req EXCEPT ![w] = r]
  BY <1>1 DEF Admit
<1>3. RequestOK(req[w], governor, row)
  BY DEF GuardTypes
<1>4. IsRecord(r, ReqFields) /\ r.pc = "db" /\ r.key = req[w].key /\ r.bumped = TRUE
  BY <1>1, <1>3 DEF RequestOK, IsRecord, ReqFields
<1>5. RequestOK(r, governor, row)
  BY <1>3, <1>4 DEF RequestOK
<1> QED
  BY <1>2, <1>4, <1>5

LEMMA Refused ==
    ASSUME GuardTypes, NEW w \in Workers, Refuse(w), req[w].pc # "idle"
    PROVE  \E r : /\ req' = [req EXCEPT ![w] = r] /\ RequestOK(r, governor, row)
                  /\ incidents \subseteq incidents'
                  /\ \/ r.pc = "idle" /\ governor = "ledger"
                     \/ r.pc = "release" /\ "freed" \in incidents'
<1>1. CASE governor = "ledger"
  BY <1>1, IdleOK DEF Refuse, Finish, Ledger
<1>2. CASE governor # "ledger"
  BY <1>2, Goes DEF Refuse, Ledger, Incidents
<1> QED
  BY <1>1, <1>2

\* A request that is not being admitted moves; the rows stay.
LEMMA WorkerMoves ==
    ASSUME Inv, NEW w \in Workers, NEW r, req' = [req EXCEPT ![w] = r],
           UNCHANGED <<governor, degraded, row>>, incidents \subseteq incidents',
           IsRecord(redis', RedisFields), redis'.inflight \in Int, RequestOK(r, governor, row),
           r.pc # "fallback" \/ degraded[Host[w]],
           incidents' \cap {"redis_failed", "freed"} = {} =>
               /\ Slots(r) - Slots(req[w]) <= redis'.inflight - redis.inflight
               /\ Flights(r) <= Flights(req[w])
               /\ r.pc # "zero",
           incidents' \cap {"redis_failed", "crash", "kept"} = {} =>
               redis'.inflight - redis.inflight <= Slots(r) - Slots(req[w]),
           incidents' \cap {"redis_failed", "crash"} = {} =>
               \/ redis'.ttl \/ r.pc \in {"expire", "zero"}
               \/ ~ (redis'.inflight > 0)
               \/ /\ req[w].pc \notin {"expire", "zero"} /\ redis'.ttl = redis.ttl
                  /\ redis.inflight > 0
    PROVE  Inv'
<1>1. redis.inflight \in Int /\ Open' = Open /\ Charged' = Charged
  BY SameRows DEF Inv, GuardInv, GuardTypes
<1>2. Slots(r) \in {0, 1} /\ Slots(req[w]) \in {0, 1} /\ Flights(r) \in {0, 1} /\ Flights(req[w]) \in {0, 1}
  BY DEF Slots, Flights
<1>3. GuardInv'
  <2>1. row' = [k \in Keys |-> row'[k]] /\ (\A k \in Keys : row'[k] \in {"none", "open", "settled", "expired"})
        /\ degraded' = [s \in Sidecars |-> degraded'[s]]
    BY DEF Inv, GuardInv, GuardTypes
  <2> QED
    BY <2>1, RequestKept DEF Inv
<1>4. CapInv'
  <2>1. ASSUME incidents' \cap {"redis_failed", "freed"} = {}
        PROVE  /\ Cardinality(Charged') + Slots(r) - Slots(req[w]) - redis'.inflight
                     <= Cardinality(Charged) - redis.inflight
               /\ Cardinality(Open') + Flights(r) - Flights(req[w]) <= Cardinality(Open)
    <3>1. Slots(r) - Slots(req[w]) <= redis'.inflight - redis.inflight /\ Flights(r) <= Flights(req[w])
      BY <2>1
    <3> QED
      BY <1>1, <1>2, <3>1, CountsAreNumbers
  <2> QED
    BY <2>1, CapKept DEF Inv
<1>5. SlotInv'
  <2>1. ASSUME incidents' \cap {"redis_failed", "crash", "kept"} = {}
        PROVE  redis'.inflight - redis.inflight
                 <= Cardinality(Open') - Cardinality(Open) + Slots(r) - Slots(req[w])
    <3>1. redis'.inflight - redis.inflight <= Slots(r) - Slots(req[w])
      BY <2>1
    <3> QED
      BY <1>1, <1>2, <3>1, CountsAreNumbers
  <2> QED
    BY <2>1, SlotKept DEF Inv
<1>6. LeaksExpire'
  BY LeakKept DEF Inv
<1> QED
  BY <1>3, <1>4, <1>5, <1>6 DEF Inv

\* Steps that neither take nor return a slot.
LEMMA NoSlotMoves ==
    ASSUME Inv, NEW w \in Workers, NEW r, req' = [req EXCEPT ![w] = r],
           UNCHANGED <<governor, degraded, row>>, incidents \subseteq incidents',
           IsRecord(redis', RedisFields), redis'.inflight = redis.inflight, redis'.ttl = redis.ttl,
           RequestOK(r, governor, row), r.pc # "fallback" \/ degraded[Host[w]],
           ~ HasSlot(req[w]), req[w].pc # "zero", r.pc # "zero",
           HasSlot(r) => r.pc = "release" /\ "freed" \in incidents'
    PROVE  Inv'
<1>1. redis'.inflight \in Int /\ redis.inflight \in Int
  BY DEF Inv, GuardInv, GuardTypes
<1>2. Slots(req[w]) = 0 /\ Flights(req[w]) = 0 /\ Flights(r) = 0 /\ Slots(r) \in {0, 1}
      /\ ("freed" \notin incidents' => Slots(r) = 0)
  BY DEF Slots, Flights, HasSlot, InFlight
<1>3. /\ redis'.inflight - redis.inflight <= Slots(r) - Slots(req[w])
      /\ "freed" \notin incidents' => Slots(r) - Slots(req[w]) <= redis'.inflight - redis.inflight
      /\ Flights(r) <= Flights(req[w])
  BY <1>1, <1>2
<1>4. req[w].pc \notin {"expire", "zero"}
  BY DEF HasSlot
<1> QED
  BY <1>1, <1>3, <1>4, WorkerMoves

(***************************************************************************)
(* The actions                                                             *)
(***************************************************************************)
LEMMA ReserveKeeps ==
    ASSUME Inv, NEW w \in Workers, NEW k \in Keys, reserve(w, k)
    PROVE  Inv'
<1>1. PICK r : r = [pc |-> IF row[k] # "none" THEN "db"
                           ELSE IF degraded[Host[w]] THEN "fallback" ELSE "rate",
                    key |-> k, bumped |-> FALSE]
  OBVIOUS
<1>2. /\ governor = "ledger" /\ req[w].pc = "idle" /\ req' = [req EXCEPT ![w] = r]
      /\ UNCHANGED <<governor, degraded, row, incidents, redis>>
  BY <1>1 DEF reserve, Ledger
<1>3. IsRecord(r, ReqFields) /\ r.bumped = FALSE /\ r.key = k
      /\ r.pc \in {"db", "fallback", "rate"}
      /\ (r.pc = "fallback" => degraded[Host[w]]) /\ (r.pc = "db" => row[k] # "none")
  BY <1>1 DEF IsRecord, ReqFields
<1>4. RequestOK(r, governor, row) /\ ~ HasSlot(r)
  BY <1>2, <1>3 DEF RequestOK, HasSlot
<1>5. ~ HasSlot(req[w])
  BY <1>2 DEF HasSlot
<1>6. IsRecord(redis', RedisFields)
  BY <1>2 DEF Inv, GuardInv, GuardTypes
<1> QED
  BY <1>2, <1>3, <1>4, <1>5, <1>6, NoSlotMoves

LEMMA CrystallizeKeeps ==
    ASSUME Inv, NEW w \in Workers, NEW k \in Keys, crystallize(w, k)
    PROVE  Inv'
<1>1. PICK r : r = [pc |-> "breaker", key |-> k, bumped |-> FALSE]
  OBVIOUS
<1>2. /\ req[w].pc = "idle" /\ req' = [req EXCEPT ![w] = r]
      /\ UNCHANGED <<governor, degraded, row, incidents, redis>>
  BY <1>1 DEF crystallize
<1>3. RequestOK(r, governor, row) /\ ~ HasSlot(r) /\ r.pc = "breaker"
  BY <1>1 DEF RequestOK, HasSlot, IsRecord, ReqFields
<1>4. ~ HasSlot(req[w])
  BY <1>2 DEF HasSlot
<1>5. IsRecord(redis', RedisFields)
  BY <1>2 DEF Inv, GuardInv, GuardTypes
<1> QED
  BY <1>2, <1>3, <1>4, <1>5, NoSlotMoves

LEMMA RefuseKeeps ==
    ASSUME Inv, NEW w \in Workers, Refuse(w), UNCHANGED <<governor, degraded, row>>,
           IsRecord(redis', RedisFields), redis'.inflight = redis.inflight, redis'.ttl = redis.ttl,
           req[w].pc \in {"breaker", "rate", "card", "fallback"}
    PROVE  Inv'
<1>1. GuardTypes /\ req[w].pc # "idle"
  BY DEF Inv, GuardInv
<1>2. PICK r : /\ req' = [req EXCEPT ![w] = r] /\ RequestOK(r, governor, row)
               /\ incidents \subseteq incidents'
               /\ r.pc = "idle" \/ (r.pc = "release" /\ "freed" \in incidents')
  BY <1>1, Refused
<1>3. ~ HasSlot(req[w]) /\ (HasSlot(r) => r.pc = "release" /\ "freed" \in incidents')
  BY <1>2 DEF HasSlot
<1> QED
  BY <1>2, <1>3, NoSlotMoves

LEMMA CircuitKeeps ==
    ASSUME Inv, NEW w \in Workers, RedisCircuit(w)
    PROVE  Inv'
<1>1. /\ req[w].pc = "breaker" /\ UNCHANGED <<governor, degraded, row, redis>>
      /\ IsRecord(redis', RedisFields) /\ GuardTypes
  BY DEF RedisCircuit, Inv, GuardInv, GuardTypes
<1>2. CASE Refuse(w)
  BY <1>1, <1>2, RefuseKeeps
<1>3. CASE Check(w) /\ UNCHANGED incidents
  <2>1. PICK r : /\ req' = [req EXCEPT ![w] = r] /\ RequestOK(r, governor, row)
                 /\ r.pc = IF degraded[Host[w]] THEN "fallback" ELSE "rate"
    BY <1>1, <1>3, Goes DEF Check
  <2>2. ~ HasSlot(req[w]) /\ ~ HasSlot(r)
    BY <1>1, <2>1 DEF HasSlot
  <2> QED
    BY <1>1, <1>3, <2>1, <2>2, NoSlotMoves
<1> QED
  BY <1>2, <1>3 DEF RedisCircuit

LEMMA Commands ==
    ASSUME GuardTypes, NEW w \in Workers, req[w].pc \in RedisPlaces
    PROVE  /\ IsRecord(Command(w), RedisFields) /\ Command(w).inflight \in Int
           /\ req[w].pc \in {"rate", "depth", "card"} =>
                 Command(w).inflight = redis.inflight /\ Command(w).ttl = redis.ttl
           /\ req[w].pc = "take" =>
                 Command(w).inflight = redis.inflight + 1 /\ Command(w).ttl = redis.ttl
           /\ req[w].pc = "expire" =>
                 Command(w).inflight = redis.inflight /\ Command(w).ttl = TRUE
           /\ req[w].pc \in {"undo", "release"} =>
                 Command(w).inflight = redis.inflight - 1 /\ Command(w).ttl = redis.ttl
           /\ req[w].pc = "zero" => Command(w).inflight = 0 /\ Command(w).ttl = TRUE
<1>1. IsRecord(redis, RedisFields) /\ redis.inflight \in Int
  BY DEF GuardTypes
<1>2. CASE req[w].pc = "rate"
  BY <1>1, <1>2 DEF Command, IsRecord, RedisFields
<1>3. CASE req[w].pc = "depth"
  BY <1>1, <1>3 DEF Command, IsRecord, RedisFields
<1>4. CASE req[w].pc = "card"
  BY <1>1, <1>4 DEF Command
<1>5. CASE req[w].pc = "take"
  BY <1>1, <1>5 DEF Command, IsRecord, RedisFields
<1>6. CASE req[w].pc = "expire"
  BY <1>1, <1>6 DEF Command, IsRecord, RedisFields
<1>7. CASE req[w].pc \in {"undo", "release"}
  <2>1. Command(w) = [redis EXCEPT !.inflight = @ - 1]
    BY <1>7 DEF Command
  <2> QED
    BY <1>1, <1>7, <2>1 DEF IsRecord, RedisFields
<1>8. CASE req[w].pc = "zero"
  <2>1. Command(w) = [redis EXCEPT !.inflight = 0, !.ttl = TRUE]
    BY <1>8 DEF Command
  <2>2. PICK c : c = [redis EXCEPT !.inflight = 0, !.ttl = TRUE]
    OBVIOUS
  <2>3. IsRecord(c, RedisFields) /\ c.inflight = 0 /\ c.ttl = TRUE
    BY <1>1, <2>2 DEF IsRecord, RedisFields
  <2> QED
    BY <1>8, <2>1, <2>2, <2>3
<1> QED
  BY <1>2, <1>3, <1>4, <1>5, <1>6, <1>7, <1>8 DEF RedisPlaces

LEMMA CheckKeeps ==
    ASSUME Inv, NEW w \in Workers, CheckRate(w) \/ AddToTrace(w) \/ CheckDepth(w)
    PROVE  Inv'
<1>1. /\ req[w].pc \in {"rate", "depth", "card"} /\ redis' = Command(w)
      /\ UNCHANGED <<governor, degraded, row>> /\ GuardTypes
  BY DEF CheckRate, AddToTrace, CheckDepth, Inv, GuardInv
<1>2. IsRecord(redis', RedisFields) /\ redis'.inflight = redis.inflight /\ redis'.ttl = redis.ttl
  BY <1>1, Commands DEF RedisPlaces
<1>3. CASE Refuse(w) /\ req[w].pc \in {"rate", "card"}
  BY <1>1, <1>2, <1>3, RefuseKeeps
<1>4. CASE (\E pc \in {"depth", "card", "take"} : Goto(w, pc)) /\ UNCHANGED incidents
  <2>1. PICK r : req' = [req EXCEPT ![w] = r] /\ RequestOK(r, governor, row)
                 /\ r.pc \in {"depth", "card", "take"}
    BY <1>1, <1>4, Goes
  <2>2. ~ HasSlot(req[w]) /\ ~ HasSlot(r)
    BY <1>1, <2>1 DEF HasSlot
  <2> QED
    BY <1>1, <1>2, <1>4, <2>1, <2>2, NoSlotMoves
<1> QED
  BY <1>3, <1>4 DEF CheckRate, AddToTrace, CheckDepth

LEMMA Contained ==
    /\ Cardinality(Open') <= Cardinality(Charged')
    /\ Cardinality(Flying') <= Cardinality(Slotted')
<1>1. Open' \subseteq Charged'
  BY DEF Open, Charged
<1>2. \A r : InFlight(r) => HasSlot(r)
  BY DEF InFlight, HasSlot
<1>3. Flying' \subseteq Slotted'
  BY <1>2 DEF Flying, Slotted
<1> QED
  BY <1>1, <1>3, SetsHere, FiniteHere, FS_Subset

\* INCR admits a request only while what is in flight stays below the cap: the
\* counter covers every slot that is out, this one included.
LEMMA TakeKeeps ==
    ASSUME Inv, NEW w \in Workers, TakeSlot(w)
    PROVE  Inv'
<1>1. /\ req[w].pc = "take" /\ redis' = Command(w) /\ GuardTypes
      /\ UNCHANGED <<governor, degraded, row, incidents>>
  BY DEF TakeSlot, Admitted, Inv, GuardInv
<1>2. IsRecord(redis', RedisFields) /\ redis'.inflight = redis.inflight + 1 /\ redis'.ttl = redis.ttl
      /\ redis.inflight \in Int /\ redis'.inflight \in Int
  BY <1>1, Commands DEF RedisPlaces, GuardTypes
<1>3. PICK r : /\ req' = [req EXCEPT ![w] = r] /\ RequestOK(r, governor, row)
               /\ \/ r.pc = "expire" /\ redis'.inflight = 1
                  \/ r.pc = "undo"
                  \/ r.pc = "db" /\ r.bumped = TRUE /\ redis'.inflight <= MaxInflight
               /\ r.pc # "expire" => redis'.inflight # 1
  <2>1. CASE redis'.inflight = 1
    <3>1. Goto(w, "expire")
      BY <2>1 DEF TakeSlot
    <3> QED
      BY <1>1, <2>1, <3>1, Goes
  <2>2. CASE redis'.inflight # 1 /\ redis'.inflight > MaxInflight
    <3>1. Goto(w, "undo")
      BY <2>2 DEF TakeSlot
    <3> QED
      BY <1>1, <2>2, <3>1, Goes
  <2>3. CASE redis'.inflight # 1 /\ ~ (redis'.inflight > MaxInflight)
    <3>1. Admit(w)
      BY <2>3 DEF TakeSlot, Admitted
    <3>2. redis'.inflight <= MaxInflight
      BY <1>2, <2>3, CountsAreNumbers
    <3> QED
      BY <1>1, <2>3, <3>1, <3>2, Admits
  <2> QED
    BY <2>1, <2>2, <2>3
<1>4. GuardInv'
  <2>1. row' = [k \in Keys |-> row'[k]] /\ (\A k \in Keys : row'[k] \in {"none", "open", "settled", "expired"})
        /\ degraded' = [s \in Sidecars |-> degraded'[s]]
    BY <1>1 DEF GuardTypes
  <2> QED
    BY <1>1, <1>2, <1>3, <2>1, RequestKept DEF Inv
<1>5. Open' = Open /\ Charged' = Charged
  BY <1>1, SameRows
<1>6. Slots(req[w]) = 0 /\ Flights(req[w]) = 0 /\ Slots(r) = 1 /\ Flights(r) \in {0, 1}
  BY <1>1, <1>3 DEF Slots, Flights, HasSlot, InFlight
<1>7. CapInv'
  <2>1. CASE Flights(r) = 0
    <3>1. /\ Cardinality(Charged') + Slots(r) - Slots(req[w]) - redis'.inflight
               <= Cardinality(Charged) - redis.inflight
          /\ Cardinality(Open') + Flights(r) - Flights(req[w]) <= Cardinality(Open)
      BY <1>2, <1>5, <1>6, <2>1, CountsAreNumbers
    <3> QED
      BY <1>1, <1>2, <1>3, <3>1, CapKept DEF Inv
  <2>2. CASE Flights(r) = 1
    <3> SUFFICES ASSUME incidents' \cap {"redis_failed", "freed"} = {}
                 PROVE  /\ Cardinality(Charged') + Cardinality(Slotted') <= redis'.inflight
                        /\ Cardinality(Open') + Cardinality(Flying') <= MaxInflight
                        /\ \A v \in Workers : req'[v].pc # "zero"
      BY DEF CapInv
    <3>1. /\ Cardinality(Charged) + Cardinality(Slotted) <= redis.inflight
          /\ \A v \in Workers : req[v].pc # "zero"
      BY <1>1 DEF Inv, CapInv
    <3>2. Cardinality(Slotted') = Cardinality(Slotted) + 1
      <4>1. Cardinality(Slotted') = Cardinality(Slotted) + Slots(r) - Slots(req[w])
        BY <1>1, <1>3, RequestCounts
      <4> QED
        BY <1>6, <4>1, CountsAreNumbers
    <3>3. redis'.inflight <= MaxInflight
      BY <1>3, <2>2, CountsAreNumbers DEF Flights, InFlight
    <3>4. \A v \in Workers : req'[v].pc # "zero"
      BY <1>1, <1>3, <3>1 DEF GuardTypes
    <3> QED
      BY <1>2, <1>5, <3>1, <3>2, <3>3, <3>4, Contained, CountsAreNumbers
  <2> QED
    BY <1>6, <2>1, <2>2
<1>8. SlotInv'
  <2>1. redis'.inflight - redis.inflight
           <= Cardinality(Open') - Cardinality(Open) + Slots(r) - Slots(req[w])
    BY <1>2, <1>5, <1>6, CountsAreNumbers
  <2> QED
    BY <1>1, <1>2, <1>3, <2>1, SlotKept DEF Inv
<1>9. LeaksExpire'
  <2>1. redis'.inflight > 0 /\ r.pc # "expire" => redis.inflight > 0
    BY <1>2, <1>3
  <2> QED
    BY <1>1, <1>2, <1>3, <2>1, LeakKept DEF Inv
<1> QED
  BY <1>4, <1>7, <1>8, <1>9 DEF Inv

LEMMA ExpiryKeeps ==
    ASSUME Inv, NEW w \in Workers, SetExpiry(w)
    PROVE  Inv'
<1>1. /\ req[w].pc = "expire" /\ redis' = Command(w) /\ GuardTypes
      /\ UNCHANGED <<governor, degraded, row, incidents>>
  BY DEF SetExpiry, Admitted, Inv, GuardInv
<1>2. IsRecord(redis', RedisFields) /\ redis'.inflight = redis.inflight /\ redis'.ttl = TRUE
      /\ redis.inflight \in Int
  BY <1>1, Commands DEF RedisPlaces, GuardTypes
<1>3. PICK r : /\ req' = [req EXCEPT ![w] = r] /\ RequestOK(r, governor, row)
               /\ r.pc = "undo" \/ (r.pc = "db" /\ r.bumped = TRUE /\ MaxInflight # 0)
  <2>1. CASE 1 > MaxInflight
    <3>1. Goto(w, "undo")
      BY <2>1 DEF SetExpiry
    <3> QED
      BY <1>1, <3>1, Goes
  <2>2. CASE ~ (1 > MaxInflight)
    <3>1. Admit(w) /\ MaxInflight # 0
      BY <2>2 DEF SetExpiry, Admitted
    <3> QED
      BY <1>1, <3>1, Admits
  <2> QED
    BY <2>1, <2>2
<1>4. Slots(r) = 1 /\ Slots(req[w]) = 1 /\ Flights(r) <= Flights(req[w])
  BY <1>1, <1>3 DEF Slots, Flights, HasSlot, InFlight
<1>5. /\ Slots(r) - Slots(req[w]) <= redis'.inflight - redis.inflight
      /\ redis'.inflight - redis.inflight <= Slots(r) - Slots(req[w])
      /\ redis'.inflight \in Int
  BY <1>2, <1>4
<1> QED
  BY <1>1, <1>2, <1>3, <1>4, <1>5, WorkerMoves

LEMMA UndoKeeps ==
    ASSUME Inv, NEW w \in Workers, UndoSlot(w)
    PROVE  Inv'
<1>1. /\ req[w].pc = "undo" /\ redis' = Command(w) /\ GuardTypes
      /\ UNCHANGED <<governor, degraded, row>>
  BY DEF UndoSlot, Inv, GuardInv
<1>2. IsRecord(redis', RedisFields) /\ redis'.inflight = redis.inflight - 1 /\ redis'.ttl = redis.ttl
      /\ redis.inflight \in Int /\ redis'.inflight \in Int
  BY <1>1, Commands DEF RedisPlaces, GuardTypes
<1>3. PICK r : /\ req' = [req EXCEPT ![w] = r] /\ RequestOK(r, governor, row)
               /\ incidents \subseteq incidents'
               /\ r.pc = "idle" \/ (r.pc = "release" /\ "freed" \in incidents')
  BY <1>1, Refused DEF UndoSlot
<1>4. Slots(req[w]) = 1 /\ Flights(r) = 0 /\ Flights(req[w]) = 0 /\ Slots(r) \in {0, 1}
      /\ ("freed" \notin incidents' => Slots(r) = 0)
  BY <1>1, <1>3 DEF Slots, Flights, HasSlot, InFlight
<1>5. /\ redis'.inflight - redis.inflight <= Slots(r) - Slots(req[w])
      /\ incidents' \cap {"redis_failed", "freed"} = {} =>
            Slots(r) - Slots(req[w]) <= redis'.inflight - redis.inflight
      /\ redis'.inflight > 0 => redis.inflight > 0
  <2>1. redis'.inflight - redis.inflight = -1
    BY <1>2
  <2> QED
    BY <1>2, <1>4, <2>1
<1>6. Flights(r) <= Flights(req[w])
  BY <1>4
<1> QED
  BY <1>1, <1>2, <1>3, <1>5, <1>6, WorkerMoves

LEMMA ReleaseKeeps ==
    ASSUME Inv, NEW w \in Workers, release_reserve(w)
    PROVE  Inv'
<1>1. req[w].pc = "release" /\ GuardTypes /\ UNCHANGED <<governor, degraded, row, incidents>>
  BY DEF release_reserve, Inv, GuardInv
<1>2. Slots(req[w]) = 1 /\ Flights(req[w]) = 0 /\ w \in Slotted
  BY <1>1 DEF Slots, Flights, HasSlot, InFlight, Slotted
<1>3. CASE degraded[Host[w]]
  <2>1. "redis_failed" \in incidents
    BY <1>3, GuardrailsAssumption DEF Inv, GuardInv, RedisTrusted
  <2>2. req' = [req EXCEPT ![w] = Idle] /\ redis' = redis
    BY <1>3 DEF release_reserve, Finish
  <2>3. IsRecord(redis', RedisFields) /\ redis'.inflight \in Int
    BY <1>1, <2>2 DEF GuardTypes
  <2> QED
    BY <1>1, <2>1, <2>2, <2>3, IdleOK, WorkerMoves
<1>4. CASE ~ degraded[Host[w]]
  <2>1. redis' = Command(w)
    BY <1>4 DEF release_reserve
  <2>2. IsRecord(redis', RedisFields) /\ redis'.inflight = redis.inflight - 1 /\ redis'.ttl = redis.ttl
        /\ redis.inflight \in Int /\ redis'.inflight \in Int
    BY <1>1, <2>1, Commands DEF RedisPlaces, GuardTypes
  <2>3. PICK r : /\ req' = [req EXCEPT ![w] = r] /\ RequestOK(r, governor, row)
                 /\ r.pc = "idle" \/ (r.pc = "zero" /\ redis'.inflight < 0)
    <3>1. CASE redis'.inflight < 0
      BY <1>1, <1>4, <3>1, Goes DEF release_reserve
    <3>2. CASE ~ (redis'.inflight < 0)
      BY <1>4, <3>2, IdleOK DEF release_reserve, Finish
    <3> QED
      BY <3>1, <3>2
  <2>4. Slots(r) = 0 /\ Flights(r) = 0
    BY <2>3 DEF Slots, Flights, HasSlot, InFlight
  <2>5. /\ Slots(r) - Slots(req[w]) <= redis'.inflight - redis.inflight
        /\ redis'.inflight - redis.inflight <= Slots(r) - Slots(req[w])
        /\ Flights(r) <= Flights(req[w])
        /\ redis'.inflight > 0 => redis.inflight > 0
    BY <1>2, <2>2, <2>4
  <2>6. incidents' \cap {"redis_failed", "freed"} = {} => r.pc # "zero"
    <3> SUFFICES ASSUME incidents' \cap {"redis_failed", "freed"} = {}
                 PROVE  ~ (redis'.inflight < 0)
      BY <2>3
    <3>1. Cardinality(Charged) + Cardinality(Slotted) <= redis.inflight
      BY <1>1 DEF Inv, CapInv
    <3>2. Cardinality(Slotted) # 0
      BY <1>2, SetsHere, FiniteHere, FS_EmptySet
    <3> QED
      BY <2>2, <3>1, <3>2, CountsAreNumbers
  <2> QED
    BY <1>1, <2>2, <2>3, <2>5, <2>6, WorkerMoves
<1> QED
  BY <1>3, <1>4

LEMMA ResetKeeps ==
    ASSUME Inv, NEW w \in Workers, ResetCounter(w)
    PROVE  Inv'
<1>1. /\ req[w].pc = "zero" /\ GuardTypes /\ UNCHANGED <<governor, degraded, row, incidents>>
      /\ redis' = Command(w) /\ req' = [req EXCEPT ![w] = Idle]
  BY DEF ResetCounter, Inv, GuardInv, Finish
<1>2. IsRecord(redis', RedisFields) /\ redis'.inflight = 0 /\ redis'.ttl = TRUE
  BY <1>1, Commands DEF RedisPlaces
<1>3. incidents' \cap {"redis_failed", "freed"} # {}
  BY <1>1 DEF Inv, CapInv
<1>4. GuardInv'
  <2>1. row' = [k \in Keys |-> row'[k]] /\ (\A k \in Keys : row'[k] \in {"none", "open", "settled", "expired"})
        /\ degraded' = [s \in Sidecars |-> degraded'[s]]
        /\ redis'.inflight \in Int /\ Idle.pc # "fallback"
    BY <1>1, <1>2, IdleOK DEF GuardTypes
  <2> QED
    BY <1>1, <1>2, <2>1, IdleOK, RequestKept DEF Inv
<1>5. SlotInv'
  BY <1>2, CountsAreNumbers DEF SlotInv
<1> QED
  BY <1>2, <1>3, <1>4, <1>5 DEF Inv, CapInv, LeaksExpire

\* Once Redis has failed nothing more is promised.
LEMMA FailedKeeps ==
    ASSUME GuardInv', "redis_failed" \in incidents'
    PROVE  Inv'
  BY DEF Inv, CapInv, SlotInv, LeaksExpire

LEMMA FaultKeeps ==
    ASSUME Inv, NEW w \in Workers, RedisFault(w)
    PROVE  Inv'
<1>1. /\ req[w].pc \in RedisPlaces /\ GuardTypes /\ UNCHANGED <<governor, row>>
      /\ redis' \in {redis, Command(w)} /\ degraded' = [degraded EXCEPT ![Host[w]] = TRUE]
      /\ incidents \subseteq incidents' /\ "redis_failed" \in incidents'
  BY DEF RedisFault, Inv, GuardInv, Incidents
<1>2. /\ degraded' = [s \in Sidecars |-> degraded'[s]] /\ row' = [k \in Keys |-> row'[k]]
      /\ \A k \in Keys : row'[k] \in {"none", "open", "settled", "expired"}
  BY <1>1, GuardrailsAssumption DEF GuardTypes
<1>3. IsRecord(redis', RedisFields) /\ redis'.inflight \in Int
  BY <1>1, Commands DEF GuardTypes
<1>4. PICK r : req' = [req EXCEPT ![w] = r] /\ RequestOK(r, governor, row)
  <2>1. CASE req[w].pc \in {"release", "zero"}
    BY <2>1, IdleOK DEF RedisFault, Finish
  <2>2. CASE req[w].pc \notin {"release", "zero"}
    <3>1. Goto(w, "fallback") /\ req[w].pc # "idle"
      BY <1>1, <2>2 DEF RedisFault, RedisPlaces
    <3> QED
      BY <1>1, <3>1, Goes
  <2> QED
    BY <2>1, <2>2
<1>5. GuardInv'
  BY <1>1, <1>2, <1>3, <1>4, RequestKept DEF Inv
<1> QED
  BY <1>1, <1>5, FailedKeeps

LEMMA FallbackKeeps ==
    ASSUME Inv, NEW w \in Workers, check_fallback(w)
    PROVE  Inv'
<1>1. /\ req[w].pc = "fallback" /\ GuardTypes /\ UNCHANGED <<governor, row, redis, degraded>>
      /\ Refuse(w) \/ (Admit(w) /\ UNCHANGED incidents)
  BY DEF check_fallback, Inv, GuardInv
<1>2. "redis_failed" \in incidents
  BY <1>1 DEF Inv, GuardInv, RedisTrusted
<1>3. PICK r : req' = [req EXCEPT ![w] = r] /\ RequestOK(r, governor, row) /\ incidents \subseteq incidents'
  <2>1. CASE Refuse(w)
    BY <1>1, <2>1, Refused
  <2>2. CASE Admit(w) /\ UNCHANGED incidents
    BY <1>1, <2>2, Admits
  <2> QED
    BY <1>1, <2>1, <2>2
<1>4. /\ degraded' = [s \in Sidecars |-> degraded'[s]] /\ row' = [k \in Keys |-> row'[k]]
      /\ \A k \in Keys : row'[k] \in {"none", "open", "settled", "expired"}
      /\ IsRecord(redis', RedisFields) /\ redis'.inflight \in Int
  BY <1>1 DEF GuardTypes
<1>5. GuardInv'
  BY <1>1, <1>2, <1>3, <1>4, RequestKept DEF Inv
<1> QED
  BY <1>2, <1>3, <1>5, FailedKeeps

\* What does not touch requests, rows and the counter.
LEMMA QuietKeeps ==
    ASSUME Inv, UNCHANGED <<governor, degraded, req, row>>, incidents \subseteq incidents',
           IsRecord(redis', RedisFields), redis'.inflight = redis.inflight, redis'.ttl = redis.ttl
    PROVE  Inv'
<1>1. Slotted' = Slotted /\ Flying' = Flying /\ Open' = Open /\ Charged' = Charged
      /\ At({"expire", "zero"})' = At({"expire", "zero"})
  BY DEF Slotted, Flying, Open, Charged, At
<1>2. GuardTypes'
  BY DEF Inv, GuardInv, GuardTypes
<1>3. RedisTrusted'
  BY DEF Inv, GuardInv, RedisTrusted
<1> QED
  BY <1>1, <1>2, <1>3 DEF Inv, GuardInv, CapInv, SlotInv, LeaksExpire

LEMMA RefillKeeps ==
    ASSUME Inv, _refill_tokens
    PROVE  Inv'
<1>1. PICK c : c = [redis EXCEPT !.rate = 0]
  OBVIOUS
<1>2. redis' = c /\ UNCHANGED <<governor, degraded, req, row, incidents>>
  BY <1>1 DEF _refill_tokens
<1>3. IsRecord(redis, RedisFields)
  BY DEF Inv, GuardInv, GuardTypes
<1>4. IsRecord(c, RedisFields) /\ c.inflight = redis.inflight /\ c.ttl = redis.ttl
  BY <1>1, <1>3 DEF IsRecord, RedisFields
<1> QED
  BY <1>2, <1>4, QuietKeeps

LEMMA IdleCounts == Slots(Idle) = 0 /\ Flights(Idle) = 0
  BY IdleOK DEF Slots, Flights, HasSlot, InFlight

\* A request returns its slot, or goes on without one; no key, row or counter
\* changes.
LEMMA AnswerKeeps ==
    ASSUME Inv, NEW w \in Workers, NEW r, req' = [req EXCEPT ![w] = r], r.pc \in {"idle", "release"},
           UNCHANGED <<governor, degraded, row, redis>>, incidents \subseteq incidents',
           RequestOK(r, governor, row), req[w].pc = "db",
           \/ r.pc = "release" /\ req[w].bumped = TRUE
           \/ r.pc = "idle" /\ (req[w].bumped = FALSE \/ "kept" \in incidents')
    PROVE  Inv'
<1>1. IsRecord(redis', RedisFields) /\ redis'.inflight \in Int /\ redis'.inflight = redis.inflight
      /\ redis'.ttl = redis.ttl
  BY DEF Inv, GuardInv, GuardTypes
<1>2. /\ Slots(r) <= Slots(req[w]) /\ Flights(r) <= Flights(req[w])
      /\ "kept" \notin incidents' => Slots(r) = Slots(req[w])
      /\ Slots(r) \in {0, 1} /\ Slots(req[w]) \in {0, 1}
  BY DEF Slots, Flights, HasSlot, InFlight
<1>3. Slots(r) - Slots(req[w]) <= redis'.inflight - redis.inflight
      /\ ("kept" \notin incidents' => redis'.inflight - redis.inflight <= Slots(r) - Slots(req[w]))
  BY <1>1, <1>2
<1> QED
  BY <1>1, <1>2, <1>3, WorkerMoves

LEMMA CrystallizeOperationKeeps ==
    ASSUME Inv, NEW w \in Workers, crystallize_operation(w)
    PROVE  Inv'
<1>1. /\ req[w].pc = "db" /\ governor # "ledger" /\ GuardTypes /\ Goto(w, "release")
      /\ UNCHANGED <<governor, degraded, row, redis, incidents>>
  BY DEF crystallize_operation, Ledger, Inv, GuardInv
<1>2. req[w].bumped = TRUE
  BY <1>1 DEF GuardTypes, RequestOK
<1>3. PICK r : req' = [req EXCEPT ![w] = r] /\ r.pc = "release" /\ RequestOK(r, governor, row)
  BY <1>1, Goes
<1> QED
  BY <1>1, <1>2, <1>3, AnswerKeeps

\* The new row takes over the slot of the request that wrote it.
LEMMA OpenKeeps ==
    ASSUME Inv, NEW w \in Workers, req[w].pc = "db", row[req[w].key] = "none",
           row' = [row EXCEPT ![req[w].key] = "open"], Finish(w),
           UNCHANGED <<governor, degraded, redis, incidents>>
    PROVE  Inv'
<1> DEFINE k == req[w].key
<1>1. /\ req' = [req EXCEPT ![w] = Idle] /\ GuardTypes /\ redis.inflight \in Int
      /\ IsRecord(redis', RedisFields)
      /\ redis'.inflight \in Int /\ redis'.inflight = redis.inflight /\ redis'.ttl = redis.ttl
  BY DEF Finish, Inv, GuardInv, GuardTypes
<1>2. k \in Keys /\ req[w].bumped = TRUE
  BY <1>1 DEF GuardTypes, RequestOK
<1>3. row' = [j \in Keys |-> row'[j]] /\ \A j \in Keys : row'[j] = IF j = k THEN "open" ELSE row[j]
  BY <1>1, <1>2 DEF GuardTypes
<1>4. degraded' = [s \in Sidecars |-> degraded'[s]]
  BY <1>1 DEF GuardTypes
<1>5. GuardInv'
  <2>1. (\A j \in Keys : row[j] # "none" => row'[j] # "none")
        /\ (\A j \in Keys : row'[j] \in {"none", "open", "settled", "expired"}) /\ Idle.pc # "fallback"
    BY <1>1, <1>3, IdleOK DEF GuardTypes
  <2> QED
    BY <1>1, <1>3, <1>4, <2>1, IdleOK, RequestKept DEF Inv
<1>6. Slots(req[w]) = 1 /\ Flights(req[w]) = 1
  BY <1>2 DEF Slots, Flights, HasSlot, InFlight
<1>7. /\ Cardinality(Open') = Cardinality(Open) + 1
      /\ Cardinality(Charged') = Cardinality(Charged) + 1
  <2>1. /\ Cardinality(Open') = Cardinality(Open) + 1 - 0
        /\ Cardinality(Charged') = Cardinality(Charged) + 1 - 0
    BY <1>1, <1>2, RowCounts
  <2> QED
    BY <2>1, CountsAreNumbers
<1>8. CapInv'
  <2>1. /\ Cardinality(Charged') + Slots(Idle) - Slots(req[w]) - redis'.inflight
             <= Cardinality(Charged) - redis.inflight
        /\ Cardinality(Open') + Flights(Idle) - Flights(req[w]) <= Cardinality(Open)
    BY <1>1, <1>6, <1>7, IdleCounts, CountsAreNumbers
  <2>2. Idle.pc # "zero"
    BY IdleOK
  <2> QED
    BY <1>1, <2>1, <2>2, CapKept DEF Inv
<1>9. SlotInv'
  <2>1. redis'.inflight - redis.inflight
           <= Cardinality(Open') - Cardinality(Open) + Slots(Idle) - Slots(req[w])
    BY <1>1, <1>6, <1>7, IdleCounts, CountsAreNumbers
  <2> QED
    BY <1>1, <2>1, SlotKept DEF Inv
<1>10. LeaksExpire'
  BY <1>1, LeakKept DEF Inv
<1> QED
  BY <1>5, <1>8, <1>9, <1>10 DEF Inv

LEMMA ReserveOperationKeeps ==
    ASSUME Inv, NEW w \in Workers, reserve_operation(w)
    PROVE  Inv'
<1>1. req[w].pc = "db" /\ GuardTypes /\ UNCHANGED <<governor, degraded, redis>>
  BY DEF reserve_operation, Inv, GuardInv
<1>2. req[w].bumped \in BOOLEAN
  BY DEF Inv, GuardInv, GuardTypes, RequestOK
<1>3. CASE /\ row[req[w].key] = "none" /\ row' = [row EXCEPT ![req[w].key] = "open"]
           /\ Finish(w) /\ UNCHANGED incidents
  BY <1>1, <1>3, OpenKeeps
<1>4. CASE Finish(w) /\ UNCHANGED row /\ Incidents(IF req[w].bumped THEN {"kept"} ELSE {})
  <2>1. /\ req' = [req EXCEPT ![w] = Idle] /\ incidents \subseteq incidents'
        /\ req[w].bumped = TRUE => "kept" \in incidents'
    BY <1>4 DEF Finish, Incidents
  <2> QED
    BY <1>1, <1>2, <1>4, <2>1, IdleOK, AnswerKeeps
<1>5. CASE ReserveFails(w) /\ UNCHANGED <<row, incidents>>
  <2>1. CASE req[w].bumped = TRUE
    <3>1. PICK r : req' = [req EXCEPT ![w] = r] /\ r.pc = "release" /\ RequestOK(r, governor, row)
      BY <1>1, <1>5, <2>1, Goes DEF ReserveFails, ReleaseIfBumped
    <3> QED
      BY <1>1, <1>5, <2>1, <3>1, AnswerKeeps
  <2>2. CASE req[w].bumped = FALSE
    <3>1. req' = [req EXCEPT ![w] = Idle]
      BY <1>5, <2>2 DEF ReserveFails, ReleaseIfBumped, Finish
    <3> QED
      BY <1>1, <1>5, <2>2, <3>1, IdleOK, AnswerKeeps
  <2> QED
    BY <1>2, <2>1, <2>2
<1> QED
  BY <1>3, <1>4, <1>5 DEF reserve_operation

\* The settled row hands its slot to the request that will return it.
LEMMA SettlementKeeps ==
    ASSUME Inv, NEW w \in Workers, NEW k \in Keys, apply_settlement(w, k)
    PROVE  Inv'
<1>1. PICK r : r = [pc |-> "release", key |-> k, bumped |-> FALSE]
  OBVIOUS
<1>2. /\ req[w].pc = "idle" /\ row[k] # "none" /\ row' = [row EXCEPT ![k] = "settled"]
      /\ incidents \subseteq incidents' /\ (row[k] = "settled" => "freed" \in incidents')
      /\ req' = [req EXCEPT ![w] = r] /\ UNCHANGED <<governor, degraded, redis>>
  BY <1>1 DEF apply_settlement, Incidents
<1>3. /\ GuardTypes /\ redis.inflight \in Int /\ IsRecord(redis', RedisFields)
      /\ redis'.inflight \in Int /\ redis'.inflight = redis.inflight /\ redis'.ttl = redis.ttl
      /\ degraded' = [s \in Sidecars |-> degraded'[s]]
  BY <1>2 DEF Inv, GuardInv, GuardTypes
<1>4. r.pc = "release" /\ RequestOK(r, governor, row')
  BY <1>1 DEF RequestOK, IsRecord, ReqFields
<1>5. row' = [j \in Keys |-> row'[j]] /\ \A j \in Keys : row'[j] = IF j = k THEN "settled" ELSE row[j]
  BY <1>2, <1>3 DEF GuardTypes
<1>6. GuardInv'
  <2>1. (\A j \in Keys : row[j] # "none" => row'[j] # "none")
        /\ (\A j \in Keys : row'[j] \in {"none", "open", "settled", "expired"}) /\ r.pc # "fallback"
    BY <1>3, <1>4, <1>5 DEF GuardTypes
  <2> QED
    BY <1>2, <1>3, <1>4, <1>5, <2>1, RequestKept DEF Inv
<1>7. Slots(req[w]) = 0 /\ Flights(req[w]) = 0 /\ Slots(r) = 1 /\ Flights(r) = 0
  BY <1>2, <1>4 DEF Slots, Flights, HasSlot, InFlight
<1>8. /\ Cardinality(Open') = Cardinality(Open) + 0 - (IF row[k] = "open" THEN 1 ELSE 0)
      /\ Cardinality(Charged') = Cardinality(Charged) + 0 - (IF row[k] \in {"open", "expired"} THEN 1 ELSE 0)
  <2>1. PICK v : v = "settled"
    OBVIOUS
  <2>2. row' = [row EXCEPT ![k] = v]
    BY <1>2, <2>1
  <2>3. /\ Cardinality(Open') = Cardinality(Open) + (IF v = "open" THEN 1 ELSE 0)
                                  - (IF row[k] = "open" THEN 1 ELSE 0)
        /\ Cardinality(Charged') = Cardinality(Charged) + (IF v \in {"open", "expired"} THEN 1 ELSE 0)
                                     - (IF row[k] \in {"open", "expired"} THEN 1 ELSE 0)
    BY <1>3, <2>2, RowCounts
  <2> QED
    BY <2>1, <2>3
<1>9. CapInv'
  <2>1. ASSUME incidents' \cap {"redis_failed", "freed"} = {}
        PROVE  /\ Cardinality(Charged') + Slots(r) - Slots(req[w]) - redis'.inflight
                     <= Cardinality(Charged) - redis.inflight
               /\ Cardinality(Open') + Flights(r) - Flights(req[w]) <= Cardinality(Open)
    <3>1. row[k] \in {"open", "expired"}
      BY <1>2, <1>3, <2>1 DEF GuardTypes
    <3> QED
      BY <1>3, <1>7, <1>8, <3>1, CountsAreNumbers
  <2> QED
    BY <1>2, <1>3, <1>4, <2>1, CapKept DEF Inv
<1>10. SlotInv'
  <2>1. redis'.inflight - redis.inflight
           <= Cardinality(Open') - Cardinality(Open) + Slots(r) - Slots(req[w])
    BY <1>3, <1>7, <1>8, CountsAreNumbers
  <2> QED
    BY <1>2, <1>3, <2>1, SlotKept DEF Inv
<1>11. LeaksExpire'
  BY <1>2, <1>3, LeakKept DEF Inv
<1> QED
  BY <1>6, <1>9, <1>10, <1>11 DEF Inv

LEMMA SweepKeeps ==
    ASSUME Inv, NEW k \in Keys, sweep(k)
    PROVE  Inv'
<1>1. /\ row[k] = "open" /\ row' = [row EXCEPT ![k] = "expired"] /\ incidents' = incidents \cup {"kept"}
      /\ UNCHANGED <<governor, redis, degraded, req>> /\ GuardTypes
  BY DEF sweep, Incidents, Inv, GuardInv
<1>2. row' = [j \in Keys |-> row'[j]] /\ \A j \in Keys : row'[j] = IF j = k THEN "expired" ELSE row[j]
  BY <1>1 DEF GuardTypes
<1>3. \A w \in Workers : RequestOK(req[w], governor, row')
  BY <1>1, <1>2 DEF GuardTypes, RequestOK
<1>4. GuardInv'
  <2>1. GuardTypes'
    BY <1>1, <1>2, <1>3 DEF GuardTypes
  <2> QED
    BY <1>1, <2>1 DEF Inv, GuardInv, RedisTrusted
<1>5. Slotted' = Slotted /\ Flying' = Flying /\ At({"expire", "zero"})' = At({"expire", "zero"})
  BY <1>1 DEF Slotted, Flying, At
<1>6. Charged' = Charged /\ Open' \subseteq Open
  BY <1>1, <1>2 DEF Charged, Open
<1>7. Cardinality(Open') <= Cardinality(Open)
  BY <1>6, SetsHere, FiniteHere, FS_Subset
<1>8. CapInv'
  <2> SUFFICES ASSUME incidents' \cap {"redis_failed", "freed"} = {}
               PROVE  /\ Cardinality(Charged') + Cardinality(Slotted') <= redis'.inflight
                      /\ Cardinality(Open') + Cardinality(Flying') <= MaxInflight
                      /\ \A w \in Workers : req'[w].pc # "zero"
    BY DEF CapInv
  <2>1. /\ Cardinality(Charged) + Cardinality(Slotted) <= redis.inflight
        /\ Cardinality(Open) + Cardinality(Flying) <= MaxInflight
        /\ \A w \in Workers : req[w].pc # "zero"
    BY <1>1 DEF Inv, CapInv
  <2> QED
    BY <1>1, <1>5, <1>6, <1>7, <2>1, CountsAreNumbers
<1> QED
  BY <1>1, <1>4, <1>5, <1>8 DEF Inv, SlotInv, LeaksExpire

LEMMA KeyExpiryKeeps ==
    ASSUME Inv, KeyExpires
    PROVE  Inv'
<1>1. PICK c : c = [redis EXCEPT !.inflight = 0, !.ttl = FALSE]
  OBVIOUS
<1>2. /\ redis' = c /\ UNCHANGED <<governor, degraded, req, row>> /\ incidents \subseteq incidents'
      /\ redis.inflight # 0 => "freed" \in incidents'
  BY <1>1 DEF KeyExpires
<1>3. IsRecord(redis, RedisFields)
  BY DEF Inv, GuardInv, GuardTypes
<1>4. IsRecord(c, RedisFields) /\ c.inflight = 0
  BY <1>1, <1>3 DEF IsRecord, RedisFields
<1>5. Slotted' = Slotted /\ Flying' = Flying /\ Open' = Open /\ Charged' = Charged
  BY <1>2 DEF Slotted, Flying, Open, Charged
<1>6. GuardInv'
  BY <1>2, <1>4 DEF Inv, GuardInv, GuardTypes, RedisTrusted
<1>7. CapInv'
  BY <1>2, <1>4, <1>5 DEF Inv, CapInv
<1>8. SlotInv'
  BY <1>2, <1>4, CountsAreNumbers DEF SlotInv
<1> QED
  BY <1>2, <1>4, <1>6, <1>7, <1>8 DEF Inv, LeaksExpire

LEMMA RestartKeeps ==
    ASSUME Inv, NEW s \in Sidecars, Restart(s)
    PROVE  Inv'
<1>1. PICK down \in BOOLEAN :
          /\ degraded' = [degraded EXCEPT ![s] = down]
          /\ incidents' = incidents \cup {"crash"} \cup IF down THEN {"redis_failed"} ELSE {}
  BY DEF Restart, Incidents
<1>2. /\ req' = [w \in Workers |-> IF Host[w] = s THEN Idle ELSE req[w]]
      /\ UNCHANGED <<governor, redis, row>> /\ GuardTypes
      /\ incidents \subseteq incidents' /\ "crash" \in incidents'
      /\ ("redis_failed" \notin incidents' => ~ down)
  BY <1>1 DEF Restart, Inv, GuardInv
<1>3. \A w \in Workers : req'[w] = Idle \/ req'[w] = req[w]
  BY <1>2
<1>4. GuardTypes'
  <2>1. \A w \in Workers : RequestOK(req'[w], governor', row')
    BY <1>2, <1>3, IdleOK DEF GuardTypes
  <2>2. req' = [w \in Workers |-> req'[w]]
    BY <1>2
  <2>3. degraded' = [t \in Sidecars |-> degraded'[t]]
    BY <1>1, <1>2 DEF GuardTypes
  <2> QED
    BY <1>2, <2>1, <2>2, <2>3 DEF GuardTypes
<1>5. RedisTrusted'
  <2> SUFFICES ASSUME "redis_failed" \notin incidents'
               PROVE  (\A t \in Sidecars : ~ degraded'[t]) /\ \A w \in Workers : req'[w].pc # "fallback"
    BY DEF RedisTrusted
  <2>1. (\A t \in Sidecars : ~ degraded[t]) /\ \A w \in Workers : req[w].pc # "fallback"
    BY <1>2 DEF Inv, GuardInv, RedisTrusted
  <2>2. \A t \in Sidecars : degraded'[t] = IF t = s THEN down ELSE degraded[t]
    BY <1>1, <1>2 DEF GuardTypes
  <2> QED
    BY <1>2, <1>3, <2>1, <2>2, IdleOK
<1>6. Slotted' \subseteq Slotted /\ Flying' \subseteq Flying
  BY <1>3, IdleOK DEF Slotted, Flying, HasSlot, InFlight
<1>7. Cardinality(Slotted') <= Cardinality(Slotted) /\ Cardinality(Flying') <= Cardinality(Flying)
  BY <1>6, SetsHere, FiniteHere, FS_Subset
<1>8. CapInv'
  <2> SUFFICES ASSUME incidents' \cap {"redis_failed", "freed"} = {}
               PROVE  /\ Cardinality(Charged') + Cardinality(Slotted') <= redis'.inflight
                      /\ Cardinality(Open') + Cardinality(Flying') <= MaxInflight
                      /\ \A w \in Workers : req'[w].pc # "zero"
    BY DEF CapInv
  <2>1. /\ Cardinality(Charged) + Cardinality(Slotted) <= redis.inflight
        /\ Cardinality(Open) + Cardinality(Flying) <= MaxInflight
        /\ \A w \in Workers : req[w].pc # "zero"
    BY <1>2 DEF Inv, CapInv
  <2>2. \A w \in Workers : req'[w].pc # "zero"
    BY <1>3, <2>1, IdleOK
  <2>3. Open' = Open /\ Charged' = Charged /\ redis'.inflight = redis.inflight /\ redis.inflight \in Int
    BY <1>2, SameRows DEF GuardTypes
  <2> QED
    BY <1>7, <2>1, <2>2, <2>3, CountsAreNumbers
<1> QED
  BY <1>2, <1>4, <1>5, <1>8 DEF Inv, GuardInv, SlotInv, LeaksExpire

(***************************************************************************)
(* The results                                                             *)
(***************************************************************************)
LEMMA Initially == Init => Inv
<1> SUFFICES ASSUME Init PROVE Inv
  OBVIOUS
<1>1. redis = [rate |-> 0, ops |-> {}, inflight |-> 0, ttl |-> FALSE] /\ incidents = {}
  BY DEF Init
<1>2. IsRecord(redis, RedisFields) /\ redis.inflight = 0
  BY <1>1 DEF IsRecord, RedisFields
<1>3. \A w \in Workers : req[w] = Idle
  BY DEF Init
<1>4. GuardInv
  BY <1>2, <1>3, IdleOK DEF Init, GuardInv, GuardTypes, RedisTrusted
<1>5. Slotted = {} /\ Flying = {}
  BY <1>3, IdleOK DEF Slotted, Flying, HasSlot, InFlight
<1>6. Open = {} /\ Charged = {}
  BY DEF Init, Open, Charged
<1>7. Cardinality({}) = 0
  BY FS_EmptySet
<1>8. CapInv
  BY <1>2, <1>3, <1>5, <1>6, <1>7, IdleOK, CountsAreNumbers DEF CapInv
<1>9. SlotInv
  BY <1>2, <1>5, <1>6, <1>7 DEF SlotInv
<1> QED
  BY <1>2, <1>4, <1>8, <1>9 DEF Inv, LeaksExpire

LEMMA GuardStep ==
    ASSUME Inv, [Next]_allVars
    PROVE  Inv'
<1>1. CASE UNCHANGED guardVars
  <2>1. IsRecord(redis, RedisFields) /\ UNCHANGED <<governor, redis, degraded, req, row, incidents>>
    BY <1>1 DEF guardVars, Inv, GuardInv, GuardTypes
  <2> QED
    BY <2>1, QuietKeeps
<1>2. ASSUME NEW w \in Workers, _check_redis(w)
      PROVE  Inv'
  BY <1>2, CheckKeeps, TakeKeeps, ExpiryKeeps, UndoKeeps DEF _check_redis
<1>3. ASSUME NEW w \in Workers, LedgerRoute(w)
      PROVE  Inv'
  BY <1>2, <1>3, ReserveKeeps, SettlementKeeps, FallbackKeeps, FaultKeeps, ReserveOperationKeeps,
     ReleaseKeeps, ResetKeeps DEF LedgerRoute
<1>4. ASSUME NEW w \in Workers, InsuranceRoute(w)
      PROVE  Inv'
  BY <1>2, <1>4, CrystallizeKeeps, CircuitKeeps, FallbackKeeps, FaultKeeps, CrystallizeOperationKeeps,
     ReleaseKeeps, ResetKeeps
     DEF InsuranceRoute, insurance_check, insurance_fallback, insurance_release
<1>5. ASSUME NEW w \in Workers, CybersecurityRoute(w)
      PROVE  Inv'
  BY <1>2, <1>5, CrystallizeKeeps, CircuitKeeps, FallbackKeeps, FaultKeeps, CrystallizeOperationKeeps,
     ReleaseKeeps, ResetKeeps
     DEF CybersecurityRoute, cybersecurity_check, cybersecurity_fallback, cybersecurity_release
<1>6. ASSUME NEW s \in Sidecars, _record_provider_failure(s)
      PROVE  Inv'
  <2>1. IsRecord(redis, RedisFields) /\ UNCHANGED <<governor, redis, degraded, req, row, incidents>>
    BY <1>6 DEF _record_provider_failure, Inv, GuardInv, GuardTypes
  <2> QED
    BY <2>1, QuietKeeps
<1>7. CASE Environment
  BY <1>1, <1>6, <1>7, RestartKeeps, SweepKeeps, RefillKeeps, KeyExpiryKeeps
     DEF Environment, _record_provider_success
<1> QED
  BY <1>1, <1>3, <1>4, <1>5, <1>7 DEF Next, allVars

LEMMA GuardrailsInvariant == Spec => []Inv
<1>1. Inv /\ [Next]_allVars => Inv'
  BY GuardStep
<1> QED
  BY <1>1, Initially, PTL DEF Spec

\* However requests, settlements, sweeps, restarts and retries interleave, no
\* more than max_user_inflight reservations are open or being written, in every
\* governor and for every limit, as long as Redis answers and no slot was
\* returned that was still in use.
THEOREM InflightStaysCapped == Spec => []InflightCap
<1>1. Inv => InflightCap
  <2> SUFFICES ASSUME Inv, incidents \cap {"redis_failed", "freed"} = {}
               PROVE  Cardinality(Open) + Cardinality(Holding) <= MaxInflight
    BY DEF InflightCap
  <2>1. Holding \subseteq Flying
    BY DEF Holding, At, Flying, InFlight
  <2>2. Cardinality(Holding) <= Cardinality(Flying) /\ Cardinality(Holding) \in Nat
    BY <2>1, SetsHere, FiniteHere, FS_Subset
  <2>3. Cardinality(Open) + Cardinality(Flying) <= MaxInflight
    BY DEF Inv, CapInv
  <2> QED
    BY <2>2, <2>3, CountsAreNumbers
<1> QED
  BY <1>1, GuardrailsInvariant, PTL

\* No route forgets a slot: while Redis and the processes hold and no slot was
\* kept for nobody, the counter is at most what is open, being written or about
\* to be returned.
THEOREM SlotsAreReturned == Spec => []SlotsReturned
<1>1. Inv => SlotsReturned
  <2> SUFFICES ASSUME Inv, incidents \cap {"redis_failed", "crash", "kept"} = {}
               PROVE  redis.inflight <= Cardinality(Open) + Cardinality(Holding)
                                        + Cardinality(At({"expire", "undo", "release"}))
    BY DEF SlotsReturned
  <2> DEFINE rest == At({"expire", "undo", "release"})
  <2>1. Slotted = Holding \cup rest /\ Holding \cap rest = {}
    BY DEF Slotted, HasSlot, Holding, At
  <2>2. IsFiniteSet(Holding) /\ IsFiniteSet(rest) /\ Cardinality(Holding) \in Nat /\ Cardinality(rest) \in Nat
    BY FiniteHere DEF Holding, At
  <2>3. Cardinality(Slotted) = Cardinality(Holding) + Cardinality(rest)
    BY <2>1, <2>2, FS_Union, FS_EmptySet
  <2>4. redis.inflight <= Cardinality(Open) + Cardinality(Slotted) /\ redis.inflight \in Int
    BY DEF Inv, SlotInv, GuardInv, GuardTypes
  <2> HIDE DEF rest
  <2>5. redis.inflight <= Cardinality(Open) + Cardinality(Holding) + Cardinality(rest)
    BY <2>2, <2>3, <2>4, CountsAreNumbers
  <2> QED
    BY <2>5 DEF rest
<1> QED
  BY <1>1, GuardrailsInvariant, PTL

\* INCR, EXPIRE, DECR and SET 0 are commands of different requests, and still
\* no positive counter is left without a time to live.
THEOREM LeakedSlotsExpire == Spec => []LeaksExpire
  BY GuardrailsInvariant, PTL DEF Inv
=============================================================================
