---------------------------- MODULE SiblingChains ----------------------------
(***************************************************************************)
(* The hash chains of the sibling governors: decision_events (finance),    *)
(* claim_events (insurance) and security_events (cybersecurity).  They are *)
(* copies of the ledger chain that have drifted apart.  Appends are the    *)
(* same statements over another table and another advisory lock.  Finance  *)
(* verifies as the ledger does.  Insurance and cybersecurity share a       *)
(* verification of their own: it trusts a checkpoint whose sealed_count    *)
(* does not add up, runs the full pass when the checkpoint's row is gone,  *)
(* and answers from the checkpoint, without saving one, when nothing lies  *)
(* above it.                                                               *)
(***************************************************************************)
EXTENDS LedgerChain

CONSTANT Governors   \* a subset of {"finance", "insurance", "cybersecurity"}

ASSUME GovernorsAssumption == Governors \subseteq {"finance", "insurance", "cybersecurity"}

VARIABLE governor    \* whose chain this is; it never changes

siblingVars == <<vars, governor>>

(***************************************************************************)
(* Appends                                                                 *)
(***************************************************************************)
\* INSERT with the current head as placeholder, then the seal replaces both
\* hashes, under the advisory lock of the governor.
seal_decision_event(w, i, payload) == seal_ledger_event(w, i, payload)

seal_claim_event(w, i, payload) == seal_ledger_event(w, i, payload)

seal_security_event(w, i, payload) == seal_ledger_event(w, i, payload)

AppendRow(w, row) ==
    /\ began[w] # 0 /\ nextId \in Ids
    /\ chain_append_lock(w)
    /\ lock' = w
    /\ rows' = [rows EXCEPT ![nextId] = row]
    /\ nextId' = nextId + 1
    /\ UNCHANGED <<began, clock, checkpoint, anchors, published, replica, ver, accepted,
                   alterations>>

append_decision_event(w, payload) == AppendRow(w, seal_decision_event(w, nextId, payload))

append_claim_event(w, payload) == AppendRow(w, seal_claim_event(w, nextId, payload))

append_security_event(w, payload) == AppendRow(w, seal_security_event(w, nextId, payload))

(***************************************************************************)
(* Finance: the statements of verify_ledger_chain.                         *)
(***************************************************************************)
_verify_decision_rows(v) == VerifyBase(v) \/ VerifyTail(v)

verify_decision_chain(v) ==
    \/ \E kind \in {"verify", "anchor"} : VerifyCount(v, kind)
    \/ head_hash(v)
    \/ load_checkpoint(v)
    \/ _verify_decision_rows(v)
    \/ VerifyFull(v)
    \/ _persist_checkpoint(v)

decision_head_to_s3(v) == anchor_head_to_s3(v)

\* The object is put before the row is inserted.
anchor_verified_decision_head(v) ==
    decision_head_to_s3(v) \/ anchor_verified_chain_head(v) \/ AnchorLost(v)

(***************************************************************************)
(* Insurance and cybersecurity                                             *)
(***************************************************************************)
_fetch_event_rows(view, from) == Tail(view, from)

\* _verify_rows reads on past the first break, to the same verdict.
ClaimRowsVerify(view, rec) ==
    \A i \in _fetch_event_rows(view, rec.from) :
        RowVerifies(view, _fetch_event_rows(view, rec.from), rec.base, i)

\* Nothing has been appended since the checkpoint: its sealed_count is not
\* compared with the number of rows.
ClaimUpToDate(rec, cp) == cp.head = rec.head /\ cp.total = rec.total

LoadClaimCheckpoint(v) ==
    /\ ver[v].pc = "load"
    /\ LET cp  == CheckpointView(v)
           rec == ver[v]
       IN  Step(v, IF cp = None \/ rec.head = GENESIS_HASH THEN [rec EXCEPT !.pc = "full"]
                   ELSE IF ClaimUpToDate(rec, cp) THEN Return([rec EXCEPT !.sealed = cp.sealed])
                   ELSE [rec EXCEPT !.pc = "base", !.cp = cp])
    /\ UNCHANGED <<unchangedByVerifier, checkpoint, anchors, published, accepted>>

PriorSealedDropped(v) ==
    /\ ver[v].pc = "base"
    /\ LET cp   == ver[v].cp
           rec  == [ver[v] EXCEPT !.cp = None]
       IN  Step(v, IF cp.last \in Present(View(v))
                   THEN [rec EXCEPT !.pc = "tail", !.from = cp.last,
                                    !.base = View(v)[cp.last].hash]
                   ELSE [rec EXCEPT !.pc = "full"])
    /\ UNCHANGED <<unchangedByVerifier, checkpoint, anchors, published, accepted>>

\* The hash of the row the checkpoint names; the full pass when it is gone.
_expected_prev_hash(v) ==
    /\ ver[v].pc = "base"
    /\ LET cp   == ver[v].cp
           rec  == [ver[v] EXCEPT !.cp = None]
       IN  Step(v, IF cp.last \in Present(View(v))
                   THEN [rec EXCEPT !.pc = "tail", !.from = cp.last,
                                    !.base = View(v)[cp.last].hash, !.sealed = cp.sealed]
                   ELSE [rec EXCEPT !.pc = "full"])
    /\ UNCHANGED <<unchangedByVerifier, checkpoint, anchors, published, accepted>>

\* The rows above the checkpoint.  With none, the answer is the head read
\* earlier with the sealed_count of the checkpoint read later.
VerifyClaimTail(v) ==
    /\ ver[v].pc = "tail"
    /\ LET rec  == ver[v]
           tail == _fetch_event_rows(View(v), rec.from)
           ok   == ClaimRowsVerify(View(v), rec)
       IN  /\ Step(v, IF tail = {} THEN Return(rec)
                      ELSE IF ok THEN Verified(View(v), rec)
                      ELSE [Idle(None) EXCEPT !.pc = "full", !.kind = rec.kind,
                                              !.total = rec.total])
           /\ accepted' = IF ok THEN accepted \cup tail ELSE accepted
    /\ UNCHANGED <<unchangedByVerifier, checkpoint, anchors, published>>

ClaimFullFromCheckpoint(v) ==
    /\ ver[v].pc = "full"
    /\ LET rec  == [ver[v] EXCEPT !.head = GENESIS_HASH,
                                  !.sealed = IF checkpoint = None THEN 0 ELSE checkpoint.sealed,
                                  !.total = Cardinality(Present(View(v)))]
           res  == Verified(View(v), rec)
           ok   == RowsVerify(View(v), rec)
       IN  /\ Step(v, IF ~ok THEN Idle("invalid")
                      ELSE IF Present(View(v)) # {} THEN res ELSE Idle("valid"))
           /\ accepted' = IF ok THEN accepted \cup Present(View(v)) ELSE accepted
    /\ UNCHANGED <<unchangedByVerifier, checkpoint, anchors, published>>

\* The full pass counts the rows it fetched, not the ones counted at first.
VerifyClaimFull(v) ==
    /\ ver[v].pc = "full"
    /\ LET rec  == [ver[v] EXCEPT !.head = GENESIS_HASH, !.sealed = 0,
                                  !.total = Cardinality(Present(View(v)))]
           res  == Verified(View(v), rec)
           ok   == ClaimRowsVerify(View(v), rec)
       IN  /\ Step(v, IF ~ok THEN Idle("invalid")
                      ELSE IF Present(View(v)) # {} THEN res ELSE Idle("valid"))
           /\ accepted' = IF ok THEN accepted \cup Present(View(v)) ELSE accepted
    /\ UNCHANGED <<unchangedByVerifier, checkpoint, anchors, published>>

verify_claim_chain(v) ==
    \/ \E kind \in {"verify", "anchor"} : VerifyCount(v, kind)
    \/ head_hash(v)
    \/ LoadClaimCheckpoint(v)
    \/ _expected_prev_hash(v)
    \/ VerifyClaimTail(v)
    \/ VerifyClaimFull(v)
    \/ _persist_checkpoint(v)

\* security_seal.py repeats claim_seal.py line by line.
security_tail(v) == _expected_prev_hash(v) \/ VerifyClaimTail(v)

verify_security_chain(v) ==
    \/ \E kind \in {"verify", "anchor"} : VerifyCount(v, kind)
    \/ head_hash(v)
    \/ LoadClaimCheckpoint(v)
    \/ security_tail(v)
    \/ VerifyClaimFull(v)
    \/ _persist_checkpoint(v)

claim_head_to_s3(v) == anchor_head_to_s3(v)

\* The INSERT, then the object, then the commit.
anchor_claim_head(v) ==
    claim_head_to_s3(v) \/ anchor_verified_chain_head(v) \/ AnchorLost(v)

security_head_to_s3(v) == anchor_head_to_s3(v)

anchor_security_head(v) ==
    security_head_to_s3(v) \/ anchor_verified_chain_head(v) \/ AnchorLost(v)
-----------------------------------------------------------------------------
SiblingInit == Init /\ governor \in Governors

FinanceStep ==
    \/ \E w \in Writers, p \in Payloads : append_decision_event(w, p)
    \/ \E v \in Verifiers : verify_decision_chain(v) \/ anchor_verified_decision_head(v)

InsuranceStep ==
    \/ \E w \in Writers, p \in Payloads : append_claim_event(w, p)
    \/ \E v \in Verifiers : verify_claim_chain(v) \/ anchor_claim_head(v)

CybersecurityStep ==
    \/ \E w \in Writers, p \in Payloads : append_security_event(w, p)
    \/ \E v \in Verifiers : verify_security_chain(v) \/ anchor_security_head(v)

\* The transactions, the retention job and out-of-band changes.  There is no
\* read replica here: what its lag does is explored for the ledger chain.
SharedStep ==
    \/ \E w \in Writers : Begin(w) \/ Commit(w) \/ Rollback(w)
    \/ \E cutoff \in 1 .. clock + 1 : run_retention(cutoff)
    \/ \E i \in Ids : Alter(i)

SiblingNext ==
    /\ \/ governor = "finance" /\ FinanceStep
       \/ governor = "insurance" /\ InsuranceStep
       \/ governor = "cybersecurity" /\ CybersecurityStep
       \/ SharedStep
    /\ UNCHANGED governor

SiblingSpec == SiblingInit /\ [][SiblingNext]_siblingVars

(***************************************************************************)
(* Properties                                                              *)
(***************************************************************************)
\* An anchored or published head is the hash of a committed row in every
\* governor, also when two verifications overlap and each takes its statements
\* from a different state of the table.  In finance its sealed_count is the
\* number of rows up to there.  In insurance and cybersecurity it may be
\* larger: verify_claim_chain can pair the head it read with the count of a
\* checkpoint another request has moved on since.
AnchorsAreHistory ==
    \A a \in anchors \cup published :
        /\ \E i \in Ids : rows[i].st \in {"present", "archived"} /\ rows[i].hash = a.head
        /\ Archived = {} =>
              IF governor = "finance" THEN a.sealed = Cardinality(UpTo(a.head))
              ELSE a.sealed >= Cardinality(UpTo(a.head))

\* A checkpoint always names a committed row, by its own hash, and as long as
\* nothing is archived counts exactly the rows up to it: the next incremental
\* pass of any governor starts from the truth even though the pass that saved
\* it took its total, its head and its rows at different times.
CheckpointsAreExact == checkpoint # None => IsHead(checkpoint) /\ HashId(checkpoint.head) = checkpoint.last
=============================================================================
