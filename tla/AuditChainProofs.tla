-------------------------- MODULE AuditChainProofs --------------------------
(***************************************************************************)
(* Proofs about AuditChain, for any writers, anchorers and bounds.         *)
(***************************************************************************)
EXTENDS AuditChain, SequenceTheorems, WellFoundedInduction, TLAPS

USE WriterAssumption, BoundAssumption

(* Who holds the lock is the writer between record_audit()'s first query   *)
(* and the end of its transaction.                                         *)
LockInv ==
  \A w \in Writer : Phase(w) \in {"locked", "ready"} <=> holder = w

(* What a writer has read and recorded continues the committed chain: with *)
(* its rows and its head the chain verifies, and its rows come after the   *)
(* committed ones.                                                         *)
Continues(w) ==
  /\ Verifies(entries \cup txn[w].added, txn[w].head)
  /\ head.last_sequence <= txn[w].head.last_sequence
  /\ \A r \in txn[w].added : r.chain_sequence > head.last_sequence
  /\ txn[w].added = {} => txn[w].head = head

PendingInv ==
  \A w \in Writer : /\ Phase(w) = "ready" => Continues(w)
                    /\ Phase(w) # "ready" => txn[w].added = {}

(* A head once committed stays the head of a committed prefix. *)
NotedInv == \A a \in Anchorer : noted[a] # NoNote => Anchored(noted[a], entries)

ChainInv ==
  TypeOK /\ LockInv /\ ChainIntact /\ PendingInv /\ AnchorsVerify /\ NotedInv

-----------------------------------------------------------------------------
(* The operators. *)

(* Entry and head that record_audit() builds are well typed while the      *)
(* bound leaves room for one more.                                         *)
LEMMA EntryType ==
  ASSUME NEW h \in ChainHead, NEW w \in Writer, h.last_sequence < MaxEntries
  PROVE  /\ EntryAfter(h, w) \in Entry
         /\ HeadAt(EntryAfter(h, w)) \in ChainHead
         /\ EntryAfter(h, w).chain_sequence = h.last_sequence + 1
         /\ HeadAt(EntryAfter(h, w)).last_sequence = h.last_sequence + 1
<1>1. /\ h.last_sequence + 1 \in 1 .. MaxEntries
      /\ h.last_sequence + 1 \in 0 .. MaxEntries
      /\ h.last_hash \in Hash
  BY DEF ChainHead
<1>2. HashOf(h.last_hash, h.last_sequence + 1, w) \in Hash
  BY <1>1 DEF HashOf, Hash
<1> QED
  BY <1>1, <1>2 DEF EntryAfter, HeadAt, Entry, ChainHead

(* One more entry after the head of a chain that verifies leaves a chain   *)
(* that verifies, with the entry as its head.                              *)
LEMMA EntryVerifies ==
  ASSUME NEW rows \in SUBSET Entry, NEW h \in ChainHead, NEW w \in Writer,
         h.last_sequence < MaxEntries, Verifies(rows, h)
  PROVE  Verifies(rows \cup {EntryAfter(h, w)}, HeadAt(EntryAfter(h, w)))
<1> DEFINE new == EntryAfter(h, w)
           all == rows \cup {new}
           n   == h.last_sequence
<1>0. /\ n \in Nat
      /\ \A r \in rows : r.chain_sequence \in Nat \ {0}
  BY DEF ChainHead, Entry
<1>1. new.chain_sequence = n + 1 /\ HeadAt(new).last_sequence = n + 1
  BY EntryType
<1>2. SequencesOf(rows) = 1 .. n /\ NumberedOnce(rows) /\ EndsAt(rows, h)
  BY DEF Verifies
<1> HIDE DEF new
<1>3. SequencesOf(all) = 1 .. n + 1
  <2>1. SequencesOf(all) = SequencesOf(rows) \cup {n + 1}
    BY <1>1 DEF SequencesOf
  <2>2. \A m \in Nat : 1 .. m + 1 = (1 .. m) \cup {m + 1}
    OBVIOUS
  <2> HIDE DEF all, n
  <2> QED
    BY <2>1, <2>2, <1>2, <1>0
<1>4. NumberedOnce(all)
  <2>1. \A r \in rows : r.chain_sequence # n + 1
    BY <1>0, <1>2 DEF SequencesOf
  <2> QED
    BY <2>1, <1>1, <1>2 DEF NumberedOnce
<1>5. \A r \in rows : Follows(r, all) /\ OwnHash(r)
  BY DEF Verifies, Follows
<1>6. OwnHash(new)
  BY DEF new, OwnHash, EntryAfter
<1>7. Follows(new, all)
  <2>1. new.previous_hash = h.last_hash
    BY DEF new, EntryAfter
  <2>2. CASE n = 0
    BY <2>1, <2>2, <1>1, <1>2 DEF Follows, EndsAt
  <2>3. CASE n # 0
    <3>1. PICK p \in rows : HeadAt(p) = h
      BY <2>3, <1>2 DEF EndsAt
    <3>2. p.chain_sequence = n /\ p.entry_hash = h.last_hash
      BY <3>1 DEF HeadAt
    <3> QED
      BY <3>2, <2>1, <2>3, <1>0, <1>1 DEF Follows
  <2> QED
    BY <2>2, <2>3
<1>8. EndsAt(all, HeadAt(new))
  BY <1>0, <1>1 DEF EndsAt
<1> QED
  BY <1>1, <1>3, <1>4, <1>5, <1>6, <1>7, <1>8 DEF new, Verifies

(* The chain never shrinks, so what is anchored in it stays anchored. *)
LEMMA AnchoredGrows ==
  ASSUME NEW a, NEW rows, NEW more, rows \subseteq more, Anchored(a, rows)
  PROVE  Anchored(a, more)
BY DEF Anchored

(* A head that is not the empty chain's is anchored in its chain. *)
LEMMA HeadAnchored ==
  ASSUME NEW rows, NEW h \in ChainHead, Verifies(rows, h), h # EmptyHead
  PROVE  Anchored(h, rows)
<1>1. EndsAt(rows, h)
  BY DEF Verifies
<1>2. h.last_sequence # 0
  BY <1>1 DEF EndsAt, EmptyHead, ChainHead
<1> QED
  BY <1>1, <1>2 DEF EndsAt, Anchored

-----------------------------------------------------------------------------
(* The inductive invariant. *)

(* A chain without rows and without a head verifies. *)
LEMMA InitInv == Init => ChainInv
<1> SUFFICES ASSUME Init PROVE ChainInv
  OBVIOUS
<1> USE DEF Init, Idle, NoNote, NoRun, EmptyHead
<1>1. EmptyHead \in ChainHead /\ GENESIS_HASH \in Hash
  BY DEF ChainHead, GENESIS_HASH, Hash
<1>2. TypeOK
  BY <1>1 DEF TypeOK, Transaction, Run
<1>3. LockInv /\ PendingInv
  BY DEF LockInv, PendingInv, Phase
<1>4. ChainIntact
  BY DEF ChainIntact, Verifies, SequencesOf, NumberedOnce, EndsAt
<1>5. AnchorsVerify /\ NotedInv
  BY DEF AnchorsVerify, NotedInv
<1> QED
  BY <1>2, <1>3, <1>4, <1>5 DEF ChainInv

(* Every step keeps the types. *)
LEMMA TypeStep == TypeOK /\ [Next]_vars => TypeOK'
<1> SUFFICES ASSUME TypeOK, [Next]_vars PROVE TypeOK'
  OBVIOUS
<1> USE DEF TypeOK, Phase
<1>0. EmptyHead \in ChainHead /\ Idle \in Transaction /\ NoRun \in Run
  BY DEF ChainHead, EmptyHead, GENESIS_HASH, Hash, Idle, Transaction, NoRun,
         NoNote, Run
<1>1. ASSUME NEW w \in Writer, Reference(w) PROVE TypeOK'
  BY <1>1 DEF Reference, Transaction
<1>2. ASSUME NEW w \in Writer, RequestLock(w) PROVE TypeOK'
  BY <1>2 DEF RequestLock, Transaction
<1>3. ASSUME NEW w \in Writer, AcquireLock(w) PROVE TypeOK'
  BY <1>3 DEF AcquireLock, Transaction
<1>4. ASSUME NEW w \in Writer, ReadHead(w) PROVE TypeOK'
  BY <1>4 DEF ReadHead, Transaction
<1>5. ASSUME NEW w \in Writer, RecordEntry(w) PROVE TypeOK'
  <2> DEFINE e == EntryAfter(txn[w].head, w)
  <2>1. txn[w].head \in ChainHead /\ txn[w].head.last_sequence < MaxEntries
    BY <1>5 DEF RecordEntry, Transaction
  <2>2. e \in Entry /\ HeadAt(e) \in ChainHead
    BY <2>1, EntryType
  <2> HIDE DEF e
  <2>3. txn' = [txn EXCEPT ![w].added = @ \cup {e}, ![w].head = HeadAt(e)]
    BY <1>5 DEF RecordEntry, e
  <2>4. txn' \in [Writer -> Transaction]
    BY <2>2, <2>3 DEF Transaction
  <2> QED
    BY <2>4, <1>5 DEF RecordEntry
<1>6. ASSUME NEW w \in Writer, Commit(w) PROVE TypeOK'
  BY <1>0, <1>6 DEF Commit, Release, Transaction
<1>7. ASSUME NEW w \in Writer, Rollback(w) PROVE TypeOK'
  BY <1>0, <1>7 DEF Rollback, Release
<1>8. ASSUME NEW a \in Anchorer, NoteHead(a) PROVE TypeOK'
  BY <1>8 DEF NoteHead
<1>9. ASSUME NEW a \in Anchorer, WriteAnchor(a) PROVE TypeOK'
  BY <1>0, <1>9 DEF WriteAnchor, Line, NoNote
<1>10. CASE VerifyRows
  <2>1. Latest \in ChainHead
    BY <1>0 DEF Latest, NoNote
  <2> QED
    BY <2>1, <1>10 DEF VerifyRows, Run
<1>11. CASE VerifyHead
  <2>1. Verifies(check.rows, head) \in BOOLEAN
    BY DEF Verifies
  <2> QED
    BY <2>1, <1>11 DEF VerifyHead, Run
<1>12. CASE VerifyAnchor
  <2>1. (check.valid /\ (check.anchor # NoNote => Agrees(check))) \in BOOLEAN
    OBVIOUS
  <2> QED
    BY <2>1, <1>0, <1>12 DEF VerifyAnchor, Run, NoRun
<1>13. CASE UNCHANGED vars
  BY <1>13 DEF vars
<1> QED
  BY <1>1, <1>2, <1>3, <1>4, <1>5, <1>6, <1>7, <1>8, <1>9, <1>10, <1>11,
     <1>12, <1>13 DEF Next

(* Every step keeps the invariant. *)
LEMMA ChainStep == ChainInv /\ [Next]_vars => ChainInv'
<1> SUFFICES ASSUME ChainInv, [Next]_vars PROVE ChainInv'
  OBVIOUS
<1>0. TypeOK'
  BY TypeStep DEF ChainInv
<1> USE DEF ChainInv, Phase
(* Steps that touch neither the chain nor a lock holder's transaction. *)
<1>a. ASSUME entries' = entries, head' = head, holder' = holder,
             \A w \in Writer : \/ txn'[w] = txn[w]
                               \/ /\ txn[w].phase \in {"idle", "open"}
                                  /\ txn'[w].phase \in {"open", "waiting"}
                                  /\ txn'[w].added = txn[w].added
      PROVE  LockInv' /\ ChainIntact' /\ PendingInv'
  <2>1. LockInv'
    BY <1>a DEF LockInv
  <2>2. ChainIntact'
    BY <1>a DEF ChainIntact
  <2>3. PendingInv'
    <3> SUFFICES ASSUME NEW w \in Writer
                 PROVE  /\ txn'[w].phase = "ready" => Continues(w)'
                        /\ txn'[w].phase # "ready" => txn'[w].added = {}
      BY DEF PendingInv
    <3>1. CASE txn'[w] = txn[w]
      BY <3>1, <1>a DEF PendingInv, Continues
    <3>2. CASE txn'[w] # txn[w]
      BY <3>2, <1>a DEF PendingInv
    <3> QED
      BY <3>1, <3>2
  <2> QED
    BY <2>1, <2>2, <2>3
(* Steps that leave the anchors alone while the chain grows or stays. *)
<1>b. ASSUME entries \subseteq entries', UNCHANGED <<anchors, noted>>
      PROVE  AnchorsVerify' /\ NotedInv'
  BY <1>b, AnchoredGrows DEF AnchorsVerify, NotedInv
<1>1. ASSUME NEW w \in Writer, Reference(w) PROVE ChainInv'
  BY <1>0, <1>1, <1>a, <1>b DEF Reference, TypeOK, Transaction
<1>2. ASSUME NEW w \in Writer, RequestLock(w) PROVE ChainInv'
  BY <1>0, <1>2, <1>a, <1>b DEF RequestLock, TypeOK, Transaction
<1>3. ASSUME NEW w \in Writer, AcquireLock(w) PROVE ChainInv'
  <2>1. LockInv'
    BY <1>3 DEF AcquireLock, LockFree, LockInv, TypeOK, Transaction
  <2>2. PendingInv'
    BY <1>3 DEF AcquireLock, PendingInv, Continues, TypeOK, Transaction
  <2> QED
    BY <1>0, <2>1, <2>2, <1>3, <1>b DEF AcquireLock, ChainIntact
<1>4. ASSUME NEW w \in Writer, ReadHead(w) PROVE ChainInv'
  <2>1. LockInv'
    BY <1>4 DEF ReadHead, LockInv, TypeOK, Transaction
  <2>2. PendingInv'
    <3> SUFFICES ASSUME NEW v \in Writer
                 PROVE  /\ txn'[v].phase = "ready" => Continues(v)'
                        /\ txn'[v].phase # "ready" => txn'[v].added = {}
      BY DEF PendingInv
    <3>1. CASE v = w
      <4>1. txn'[v].head = head /\ txn'[v].added = {}
        BY <3>1, <1>4 DEF ReadHead, PendingInv, TypeOK, Transaction
      <4>2. entries \cup {} = entries /\ head.last_sequence <= head.last_sequence
        BY DEF TypeOK, ChainHead
      <4> QED
        BY <4>1, <4>2, <1>4 DEF ReadHead, Continues, ChainIntact
    <3>2. CASE v # w
      BY <3>2, <1>4 DEF ReadHead, PendingInv, Continues, TypeOK, Transaction
    <3> QED
      BY <3>1, <3>2
  <2> QED
    BY <1>0, <2>1, <2>2, <1>4, <1>b DEF ReadHead, ChainIntact
<1>5. ASSUME NEW w \in Writer, RecordEntry(w) PROVE ChainInv'
  <2> DEFINE h == txn[w].head
             e == EntryAfter(h, w)
  <2>1. /\ h \in ChainHead /\ h.last_sequence < MaxEntries
        /\ txn[w].added \subseteq Entry /\ entries \subseteq Entry
        /\ Continues(w) /\ UNCHANGED <<entries, head, holder, anchors, noted>>
    BY <1>5 DEF RecordEntry, PendingInv, TypeOK, Transaction
  <2>2. Verifies(entries \cup txn[w].added \cup {e}, HeadAt(e))
    BY <2>1, EntryVerifies DEF Continues
  <2>3. e.chain_sequence = h.last_sequence + 1 /\ HeadAt(e).last_sequence = h.last_sequence + 1
    BY <2>1, EntryType
  <2> HIDE DEF e
  <2>4. txn' = [txn EXCEPT ![w].added = @ \cup {e}, ![w].head = HeadAt(e)]
    BY <1>5 DEF RecordEntry, e
  <2>5. /\ txn'[w].phase = "ready" /\ txn[w].phase = "ready"
        /\ txn'[w].added = txn[w].added \cup {e}
        /\ txn'[w].head = HeadAt(e)
        /\ \A v \in Writer : v # w => txn'[v] = txn[v]
    BY <2>4, <1>5 DEF RecordEntry, TypeOK, Transaction
  <2>6. LockInv'
    BY <2>1, <2>5 DEF LockInv
  <2>7. Continues(w)'
    <3>1. entries' \cup txn'[w].added = entries \cup txn[w].added \cup {e}
      BY <2>1, <2>5
    <3>2. Verifies(entries' \cup txn'[w].added, txn'[w].head)
      BY <3>1, <2>2, <2>5
    <3>3. /\ head'.last_sequence <= txn'[w].head.last_sequence
          /\ \A r \in txn'[w].added : r.chain_sequence > head'.last_sequence
      BY <2>1, <2>3, <2>5 DEF Continues, ChainHead, TypeOK, Entry
    <3> QED
      BY <3>2, <3>3, <2>5 DEF Continues
  <2>8. PendingInv'
    BY <2>1, <2>5, <2>7 DEF PendingInv, Continues
  <2> QED
    BY <1>0, <2>1, <2>6, <2>8, <1>b DEF ChainIntact
(* The end of a transaction, whether its rows were committed or not. *)
<1>c. ASSUME NEW w \in Writer, Release(w), txn[w].phase # "idle",
             \/ entries' = entries /\ head' = head
             \/ txn[w].phase = "ready"
      PROVE  LockInv' /\ PendingInv'
  <2>1. /\ txn'[w].phase = "idle" /\ txn'[w].added = {}
        /\ \A v \in Writer : v # w => txn'[v] = txn[v]
    BY <1>c DEF Release, Idle, TypeOK
  <2>2. LockInv'
    BY <1>c, <2>1 DEF Release, LockInv
  <2>3. ASSUME NEW v \in Writer, v # w, txn'[v].phase = "ready"
        PROVE  Continues(v)'
    BY <1>c, <2>1, <2>3 DEF LockInv, PendingInv, Continues
  <2> QED
    BY <2>1, <2>2, <2>3 DEF PendingInv
<1>6. ASSUME NEW w \in Writer, Commit(w) PROVE ChainInv'
  <2>1. /\ Release(w) /\ txn[w].phase \in {"open", "ready"}
        /\ entries' = entries \cup txn[w].added
        /\ UNCHANGED <<anchors, noted>>
    BY <1>6 DEF Commit, Closing
  <2>2. CASE txn[w].added = {}
    BY <1>0, <1>6, <2>1, <2>2, <1>b, <1>c DEF Commit, ChainIntact
  <2>3. CASE txn[w].added # {}
    <3>1. txn[w].phase = "ready" /\ head' = txn[w].head
      BY <1>6, <2>3 DEF Commit, PendingInv
    <3>2. ChainIntact'
      BY <2>1, <3>1 DEF ChainIntact, PendingInv, Continues
    <3> QED
      BY <1>0, <2>1, <3>1, <3>2, <1>b, <1>c
  <2> QED
    BY <2>2, <2>3
<1>7. ASSUME NEW w \in Writer, Rollback(w) PROVE ChainInv'
  BY <1>0, <1>7, <1>b, <1>c DEF Rollback, ChainIntact
<1>8. ASSUME NEW a \in Anchorer, NoteHead(a) PROVE ChainInv'
  <2>1. Anchored(head, entries)
    BY <1>8, HeadAnchored DEF NoteHead, ChainIntact, TypeOK
  <2>2. AnchorsVerify' /\ NotedInv'
    BY <2>1, <1>8 DEF NoteHead, AnchorsVerify, NotedInv, TypeOK
  <2> QED
    BY <1>0, <2>2, <1>8, <1>a DEF NoteHead
<1>9. ASSUME NEW a \in Anchorer, WriteAnchor(a) PROVE ChainInv'
  <2>1. Anchored(noted[a], entries)
    BY <1>9 DEF WriteAnchor, NotedInv
  <2>2. AnchorsVerify'
    BY <2>1, <1>9 DEF WriteAnchor, Line, AnchorsVerify, TypeOK
  <2>3. NotedInv'
    BY <1>9 DEF WriteAnchor, NotedInv, TypeOK
  <2> QED
    BY <1>0, <2>2, <2>3, <1>9, <1>a DEF WriteAnchor
<1>10. CASE VerifyRows \/ VerifyHead \/ VerifyAnchor
  BY <1>0, <1>10, <1>a, <1>b DEF VerifyRows, VerifyHead, VerifyAnchor
<1>11. CASE UNCHANGED vars
  BY <1>0, <1>11, <1>a, <1>b DEF vars
<1> QED
  BY <1>1, <1>2, <1>3, <1>4, <1>5, <1>6, <1>7, <1>8, <1>9, <1>10, <1>11
     DEF Next

(* The inductive invariant holds in every reachable state. *)
THEOREM ChainInvariant == Spec => []ChainInv
BY InitInv, ChainStep, PTL DEF Spec

-----------------------------------------------------------------------------
(* The properties. *)

(* Rows, heads, transactions and anchors keep their types. *)
THEOREM TypeCorrect == Spec => []TypeOK
<1>1. ChainInv => TypeOK
  BY DEF ChainInv
<1> QED
  BY <1>1, ChainInvariant, PTL

(* The committed chain passes verify_audit_chain() at every moment. *)
THEOREM ChainAlwaysIntact == Spec => []ChainIntact
<1>1. ChainInv => ChainIntact
  BY DEF ChainInv
<1> QED
  BY <1>1, ChainInvariant, PTL

(* record_audit() never produces a sequence number that is already taken. *)
THEOREM AppendAlwaysFits == Spec => []AppendFits
<1>1. ChainInv => AppendFits
  <2> SUFFICES ASSUME ChainInv, NEW w \in Writer, Phase(w) = "ready"
               PROVE  Fits(w)
    BY DEF AppendFits
  <2>1. Continues(w) /\ Verifies(entries, head)
    BY DEF ChainInv, PendingInv, ChainIntact
  <2>2. \A r \in entries : r.chain_sequence \in 1 .. head.last_sequence
    BY <2>1 DEF Verifies, SequencesOf
  <2>3. \A r \in entries : r.chain_sequence <= head.last_sequence
    BY <2>2 DEF ChainInv, TypeOK, ChainHead
  <2>4. /\ head.last_sequence \in Nat
        /\ \A r \in entries \cup txn[w].added : r.chain_sequence \in Nat
    BY DEF ChainInv, TypeOK, ChainHead, Transaction, Entry
  <2> QED
    BY <2>1, <2>3, <2>4 DEF Continues, Fits, SequencesOf
<1> QED
  BY <1>1, ChainInvariant, PTL

(* Every line of the anchor file matches the chain, now and later. *)
THEOREM AnchorsAlwaysVerify == Spec => []AnchorsVerify
<1>1. ChainInv => AnchorsVerify
  BY DEF ChainInv
<1> QED
  BY <1>1, ChainInvariant, PTL

-----------------------------------------------------------------------------
(* Who waits for the lock, and for whom. *)

(* Only two referrers that wait for each other's share of the row can be   *)
(* stuck, for any number of writers.                                       *)
THEOREM WaitingIsExplained == Spec => []OnlyReferrersDeadlock
<1>1. ChainInv => OnlyReferrersDeadlock
  <2> SUFFICES ASSUME ChainInv, NEW u \in Writer, Phase(u) = "waiting"
               PROVE  \/ \E w \in Writer : Phase(w) = "waiting" /\ LockFree(w)
                      \/ \E w \in {holder} \cup referrers :
                           w # NoWriter /\ Phase(w) # "waiting"
                      \/ \E v, w \in referrers :
                           v # w /\ Phase(v) = "waiting" /\ Phase(w) = "waiting"
    BY DEF OnlyReferrersDeadlock
  <2>0. /\ holder \in Writer \cup {NoWriter}
        /\ referrers \subseteq Writer
        /\ holder \in Writer => Phase(holder) \in {"locked", "ready"}
    BY DEF ChainInv, TypeOK, LockInv
  <2>1. CASE holder # NoWriter
    BY <2>0, <2>1
  <2>2. CASE \E w \in referrers : Phase(w) # "waiting"
    BY <2>0, <2>2
  <2>3. CASE holder = NoWriter /\ \A w \in referrers : Phase(w) = "waiting"
    <3>1. CASE referrers = {}
      BY <2>3, <3>1 DEF LockFree
    <3>2. CASE referrers # {}
      <4>1. PICK v \in referrers : TRUE
        BY <3>2
      <4>2. CASE referrers \subseteq {v}
        BY <2>0, <2>3, <4>2 DEF LockFree
      <4>3. CASE \E w \in referrers : w # v
        BY <2>3, <4>3
      <4> QED
        BY <4>2, <4>3
    <3> QED
      BY <3>1, <3>2
  <2> QED
    BY <2>1, <2>2, <2>3
<1> QED
  BY <1>1, ChainInvariant, PTL

-----------------------------------------------------------------------------
(* The verifier's verdict. *)

(* The verifier read rows that were committed, with an anchor among them,  *)
(* and found no fault with them unless more were committed meanwhile.      *)
CheckInv ==
  /\ check.step # "idle" =>
       /\ check.rows \subseteq entries
       /\ check.anchor # NoNote => Anchored(check.anchor, check.rows)
  /\ check.step = "head" /\ check.rows = entries => check.valid

(* Steps of writers leave a run alone and only ever add rows. *)
LEMMA RowsGrow ==
  ASSUME [Next]_vars, ~VerifyRows, ~VerifyHead, ~VerifyAnchor
  PROVE  entries \subseteq entries' /\ check' = check
BY DEF Next, vars, Reference, RequestLock, AcquireLock, ReadHead, RecordEntry,
       Commit, Rollback, NoteHead, WriteAnchor

LEMMA CheckStep == ChainInv /\ CheckInv /\ [Next]_vars => CheckInv'
<1> SUFFICES ASSUME ChainInv, CheckInv, [Next]_vars PROVE CheckInv'
  OBVIOUS
<1>0. check \in Run
  BY DEF ChainInv, TypeOK
<1>1. CASE VerifyRows
  <2>1. /\ entries' = entries
        /\ check' = [step |-> "rows", rows |-> entries, anchor |-> Latest, valid |-> TRUE]
    BY <1>1 DEF VerifyRows
  <2>2. Latest # NoNote => Anchored(Latest, entries)
    BY DEF Latest, ChainInv, AnchorsVerify, TypeOK
  <2> QED
    BY <2>1, <2>2 DEF CheckInv
<1>2. CASE VerifyHead
  <2>1. /\ entries' = entries /\ check.step = "rows" /\ check'.step = "head"
        /\ check'.rows = check.rows /\ check'.anchor = check.anchor
        /\ check'.valid = Verifies(check.rows, head)
    BY <1>0, <1>2 DEF VerifyHead, Run
  <2>2. check.rows = entries => check'.valid
    BY <2>1 DEF ChainInv, ChainIntact
  <2> QED
    BY <2>1, <2>2 DEF CheckInv
<1>3. CASE VerifyAnchor
  BY <1>3 DEF VerifyAnchor, NoRun, CheckInv
<1>4. CASE ~VerifyRows /\ ~VerifyHead /\ ~VerifyAnchor
  <2>1. entries \subseteq entries' /\ check' = check
    BY <1>4, RowsGrow
  <2>2. check.step # "idle" => check.rows \subseteq entries'
    BY <2>1 DEF CheckInv
  <2>3. check.step = "head" /\ check.rows = entries' => check.valid
    BY <2>1 DEF CheckInv
  <2> QED
    BY <2>1, <2>2, <2>3 DEF CheckInv
<1> QED
  BY <1>1, <1>2, <1>3, <1>4

(* verify-audit-chain rejects an intact chain only if an entry came in     *)
(* while it ran.                                                           *)
THEOREM VerdictIsExplained == Spec => VerdictExplained
<1>1. Init => CheckInv
  BY DEF Init, NoRun, CheckInv
<1>2. ChainInv /\ CheckInv => (VerifyAnchor /\ ~check'.valid => check.rows # entries)
  <2> SUFFICES ASSUME ChainInv, CheckInv, VerifyAnchor, check.rows = entries
               PROVE  check'.valid
    OBVIOUS
  <2>1. check.valid /\ (check.anchor # NoNote => Anchored(check.anchor, entries))
    BY DEF VerifyAnchor, CheckInv
  <2>2. ASSUME check.anchor # NoNote
        PROVE  check.anchor.last_sequence \in SequencesOf(check.rows)
    <3>1. PICK r \in check.rows : HeadAt(r) = check.anchor
      BY <2>1, <2>2 DEF Anchored
    <3>2. check.anchor.last_sequence = r.chain_sequence
      BY <3>1 DEF HeadAt
    <3> QED
      BY <3>2 DEF SequencesOf
  <2>3. check.valid /\ (check.anchor # NoNote => Agrees(check))
    BY <2>1, <2>2 DEF Agrees
  <2>4. check' = [NoRun EXCEPT !.valid =
                    check.valid /\ (check.anchor # NoNote => Agrees(check))]
    BY DEF VerifyAnchor
  <2> DEFINE verdict == check.valid /\ (check.anchor # NoNote => Agrees(check))
  <2>5. check' = [NoRun EXCEPT !.valid = verdict] /\ verdict = TRUE
    BY <2>3, <2>4
  <2> HIDE DEF verdict
  <2> QED
    BY <2>5 DEF NoRun
<1> QED
  BY <1>1, <1>2, ChainInvariant, CheckStep, PTL DEF Spec, VerdictExplained

-----------------------------------------------------------------------------
(* What an anchor binds. *)

(* A nonempty set of natural numbers has a least element ... *)
LEMMA Least ==
  ASSUME NEW T \in SUBSET Nat, T # {}
  PROVE  \E x \in T : \A y \in T : x <= y
<1> DEFINE Less == {p \in Nat \X Nat : p[1] < p[2]}
<1>1. IsWellFoundedOn(Less, Nat)
  BY NatLessThanWellFounded DEF OpToRel
<1>2. PICK x \in T : \A y \in T : ~(<<y, x>> \in Less)
  <2> HIDE DEF Less
  <2> QED
    BY <1>1, WFMin
<1>3. ASSUME NEW y \in T PROVE x <= y
  <2>1. x \in Nat /\ y \in Nat
    OBVIOUS
  <2>2. ~(y < x)
    BY <1>2, <2>1
  <2> QED
    BY <2>1, <2>2
<1> QED
  BY <1>3

(* ... and one below a bound has a greatest. *)
LEMMA Greatest ==
  ASSUME NEW n \in Nat, NEW T \in SUBSET (1 .. n), T # {}
  PROVE  \E x \in T : \A y \in T : y <= x
<1> DEFINE gaps == {n - x : x \in T}
<1>1. gaps \in SUBSET Nat /\ gaps # {}
  <2>1. \A x \in T : n - x \in Nat
    OBVIOUS
  <2>2. PICK x \in T : TRUE
    OBVIOUS
  <2>3. n - x \in gaps
    OBVIOUS
  <2>4. gaps \subseteq Nat
    BY <2>1
  <2> QED
    BY <2>3, <2>4
<1>2. PICK g \in gaps : \A h \in gaps : g <= h
  <2> HIDE DEF gaps
  <2> QED
    BY <1>1, Least
<1>3. PICK x \in T : g = n - x
  OBVIOUS
<1>4. \A y \in T : n - x <= n - y
  BY <1>2, <1>3
<1>5. \A y \in T : y <= x
  BY <1>4
<1> QED
  BY <1>5

(* A function on 1 .. n is a sequence of length n, and one that is longer  *)
(* by one element is the other with that element appended.                 *)
LEMMA SequenceOn ==
  ASSUME NEW S, NEW n \in Nat, NEW s \in [1 .. n -> S]
  PROVE  s \in Seq(S) /\ Len(s) = n
OBVIOUS

LEMMA OneLonger ==
  ASSUME NEW S, NEW n \in Nat, NEW s \in [1 .. n -> S], NEW t \in [1 .. n + 1 -> S],
         \A i \in 1 .. n : t[i] = s[i]
  PROVE  t = Append(s, t[n + 1])
<1>1. s \in Seq(S) /\ Len(s) = n /\ t \in Seq(S) /\ Len(t) = n + 1
  BY SequenceOn
<1>2. t[n + 1] \in S
  OBVIOUS
<1>3. /\ Append(s, t[n + 1]) \in Seq(S)
      /\ Len(Append(s, t[n + 1])) = n + 1
      /\ \A i \in 1 .. n : Append(s, t[n + 1])[i] = s[i]
      /\ Append(s, t[n + 1])[n + 1] = t[n + 1]
  BY <1>1, <1>2, AppendProperties
<1>4. \A i \in 1 .. n + 1 : t[i] = Append(s, t[n + 1])[i]
  BY <1>3
<1> QED
  BY <1>1, <1>3, <1>4, SeqEqual

(* The hashes of a chain computed from scratch: each is the hash of its    *)
(* content and the one before.                                             *)
LEMMA HashesChain ==
  ASSUME NEW length \in Nat, NEW actors \in [1 .. length -> Writer]
  PROVE  LET hash == HashesOver(actors)
         IN  /\ hash[0] = GENESIS_HASH
             /\ \A n \in 1 .. length : hash[n] = HashOf(hash[n - 1], n, actors[n])
             /\ \A n \in 0 .. length : hash[n] \in Hash
<1> DEFINE next(g) == [n \in 0 .. length |->
                         IF n = 0 THEN GENESIS_HASH ELSE HashOf(g[n - 1], n, actors[n])]
           pairs(n) == [i \in 1 .. n |-> <<i, actors[i]>>]
           f == [n \in 0 .. length |-> pairs(n)]
           hash == HashesOver(actors)
<1>0. actors \in Seq(Writer) /\ Len(actors) = length
  BY SequenceOn
<1>1. f = next(f)
  <2>1. ASSUME NEW n \in 0 .. length
        PROVE  pairs(n) = IF n = 0 THEN GENESIS_HASH ELSE HashOf(f[n - 1], n, actors[n])
    <3>1. CASE n = 0
      BY <3>1 DEF GENESIS_HASH
    <3>2. CASE n # 0
      <4>1. n - 1 \in Nat /\ n - 1 + 1 = n /\ f[n - 1] = pairs(n - 1)
        BY <3>2
      <4>2. /\ pairs(n - 1) \in [1 .. n - 1 -> Nat \X Writer]
            /\ pairs(n) \in [1 .. n -> Nat \X Writer]
            /\ \A i \in 1 .. n - 1 : pairs(n)[i] = pairs(n - 1)[i]
            /\ pairs(n)[n] = <<n, actors[n]>>
        BY <3>2
      <4>3. pairs(n) = Append(pairs(n - 1), <<n, actors[n]>>)
        <5> HIDE DEF pairs
        <5> QED
          BY <4>1, <4>2, OneLonger
      <4> QED
        BY <3>2, <4>1, <4>3 DEF HashOf
    <3> QED
      BY <3>1, <3>2
  <2> HIDE DEF pairs
  <2> QED
    BY <2>1
<1>2. HashesOver(actors) = CHOOSE g : g = next(g)
  BY <1>0 DEF HashesOver
<1>3. hash = next(hash)
  <2> HIDE DEF next, f
  <2> QED
    BY <1>1, <1>2
<1> HIDE DEF hash, f
<1>4. hash[0] = GENESIS_HASH
  BY <1>3
<1>5. \A n \in 1 .. length : hash[n] = HashOf(hash[n - 1], n, actors[n])
  BY <1>3
<1> HIDE DEF next
<1>6. \A n \in 0 .. length : hash[n] \in Hash
  <2> DEFINE bad == {n \in 0 .. length : hash[n] \notin Hash}
  <2> SUFFICES ASSUME bad # {} PROVE FALSE
    OBVIOUS
  <2>1. PICK m \in bad : \A n \in bad : m <= n
    <3>1. bad \in SUBSET Nat
      OBVIOUS
    <3> HIDE DEF bad
    <3> QED
      BY <3>1, Least
  <2>2. m # 0
    <3>1. <<>> \in Hash
      BY EmptySeq DEF Hash
    <3> QED
      BY <3>1, <1>4 DEF GENESIS_HASH
  <2>3. hash[m - 1] \in Hash /\ m \in 1 .. length
    BY <2>1, <2>2
  <2>4. <<m, actors[m]>> \in Nat \X Writer
    BY <2>3
  <2>5. hash[m] = Append(hash[m - 1], <<m, actors[m]>>)
    BY <1>5, <2>3 DEF HashOf
  <2>6. Append(hash[m - 1], <<m, actors[m]>>) \in Hash
    BY <2>3, <2>4, AppendProperties DEF Hash
  <2> QED
    BY <2>5, <2>6
<1> QED
  BY <1>4, <1>5, <1>6 DEF hash

(* A row with a recomputed row's number and hash is that row. *)
LEMMA SameRow ==
  ASSUME NEW length \in Nat, NEW actors \in [1 .. length -> Writer],
         NEW r \in Entry, NEW n \in 1 .. length, OwnHash(r),
         r.chain_sequence = n, r.entry_hash = HashesOver(actors)[n]
  PROVE  r = RecomputedRow(actors, n)
<1> DEFINE hash == HashesOver(actors)
<1>1. hash[n] = HashOf(hash[n - 1], n, actors[n]) /\ hash[n - 1] \in Hash
  BY HashesChain
<1> HIDE DEF hash
<1>2. Append(r.previous_hash, <<n, r.actor>>) = Append(hash[n - 1], <<n, actors[n]>>)
  BY <1>1 DEF OwnHash, HashOf, hash
<1>3. /\ r.previous_hash \in Seq(Nat \X Writer)
      /\ hash[n - 1] \in Seq(Nat \X Writer)
      /\ <<n, r.actor>> \in Nat \X Writer
      /\ <<n, actors[n]>> \in Nat \X Writer
  BY <1>1 DEF Entry, Hash
<1>4. r.previous_hash = hash[n - 1] /\ <<n, r.actor>> = <<n, actors[n]>>
  <2> DEFINE S == Nat \X Writer
             s == r.previous_hash
             t == hash[n - 1]
             e == <<n, r.actor>>
             f == <<n, actors[n]>>
  <2>1. s \in Seq(S) /\ t \in Seq(S) /\ e \in S /\ f \in S
    BY <1>3
  <2>2. Append(s, e) = Append(t, f)
    BY <1>2
  <2> HIDE DEF S, s, t, e, f
  <2>3. s = t /\ e = f
    BY <2>1, <2>2, AppendInjective
  <2> QED
    BY <2>3 DEF s, t, e, f
<1>5. r.actor = actors[n]
  BY <1>4
<1> QED
  BY <1>4, <1>5 DEF RecomputedRow, Entry, hash

(* A chain that verifies and a recomputed chain that agree on one row      *)
(* agree on all rows before it.                                            *)
LEMMA AgreeUpTo ==
  ASSUME NEW rows \in SUBSET Entry, NEW h, Verifies(rows, h), NEW a,
         NEW length \in Nat, NEW actors \in [1 .. length -> Writer],
         Anchored(a, rows), Anchored(a, Recomputed(actors))
  PROVE  UpTo(a.last_sequence, Recomputed(actors)) = UpTo(a.last_sequence, rows)
<1> DEFINE hash == HashesOver(actors)
           n == a.last_sequence
           row(k) == RecomputedRow(actors, k)
<1>0. /\ Len(actors) = length
      /\ \A k \in 1 .. length : row(k).chain_sequence = k /\ row(k).entry_hash = hash[k]
      /\ \A r \in rows : r.chain_sequence \in Nat \ {0}
  BY DEF RecomputedRow, Entry
<1>1. n \in 1 .. length /\ a.last_hash = hash[n]
  <2>1. PICK k \in 1 .. length : HeadAt(row(k)) = a
    BY <1>0 DEF Anchored, Recomputed
  <2>2. HeadAt(row(k)).last_sequence = k /\ HeadAt(row(k)).last_hash = hash[k]
    BY <1>0 DEF HeadAt
  <2> QED
    BY <2>1, <2>2
<1>2. PICK q \in rows : q.chain_sequence = n /\ q.entry_hash = hash[n]
  BY <1>1 DEF Anchored, HeadAt
<1>3. ASSUME NEW r \in rows, r.chain_sequence \in 1 .. length,
             r.entry_hash = hash[r.chain_sequence]
      PROVE  r = row(r.chain_sequence)
  BY <1>3, SameRow DEF Verifies
<1>4. \A k \in 1 .. n : row(k) \in rows
  <2> DEFINE bad == {k \in 1 .. n : row(k) \notin rows}
  <2> SUFFICES ASSUME bad # {} PROVE FALSE
    OBVIOUS
  <2>1. PICK k \in bad : \A l \in bad : l <= k
    <3>1. n \in Nat /\ bad \in SUBSET (1 .. n)
      BY <1>1
    <3> HIDE DEF bad, n
    <3> QED
      BY <3>1, Greatest
  <2>2. k # n
    BY <1>1, <1>2, <1>3
  <2>3. k + 1 \in 1 .. n /\ row(k + 1) \in rows /\ k \in 1 .. n
    BY <1>1, <2>1, <2>2
  <2>4. PICK p \in rows : /\ p.chain_sequence = k
                          /\ p.entry_hash = row(k + 1).previous_hash
    BY <1>0, <1>1, <2>3 DEF Verifies, Follows
  <2>5. row(k + 1).previous_hash = hash[k]
    BY <2>3 DEF RecomputedRow
  <2>6. p = row(k)
    BY <1>1, <1>3, <2>3, <2>4, <2>5
  <2> QED
    BY <2>1, <2>6
<1>5. ASSUME NEW r \in Recomputed(actors), r.chain_sequence <= n PROVE r \in rows
  <2>1. PICK k \in 1 .. length : r = row(k)
    BY <1>0 DEF Recomputed
  <2> QED
    BY <1>0, <1>1, <1>4, <1>5, <2>1
<1>6. ASSUME NEW r \in rows, r.chain_sequence <= n PROVE r \in Recomputed(actors)
  <2>1. r.chain_sequence \in 1 .. n
    BY <1>0, <1>1, <1>6
  <2>2. r = row(r.chain_sequence)
    BY <1>0, <1>1, <1>4, <2>1 DEF Verifies, NumberedOnce
  <2> QED
    BY <1>0, <1>1, <2>1, <2>2 DEF Recomputed
<1> QED
  BY <1>5, <1>6 DEF UpTo

(* An anchor binds the history before it, whatever is recomputed after it. *)
THEOREM AnchorsAlwaysBind == Spec => []AnchorsBind
<1>1. ChainInv => AnchorsBind
  <2> SUFFICES ASSUME ChainInv, NEW length \in 0 .. MaxEntries,
                      NEW actors \in [1 .. length -> Writer],
                      NEW i \in 1 .. Len(anchors),
                      Anchored(anchors[i], Recomputed(actors))
               PROVE  UpTo(anchors[i].last_sequence, Recomputed(actors))
                        = UpTo(anchors[i].last_sequence, entries)
    BY DEF AnchorsBind
  <2>1. /\ entries \in SUBSET Entry /\ Verifies(entries, head)
        /\ Anchored(anchors[i], entries) /\ length \in Nat
    BY DEF ChainInv, TypeOK, ChainIntact, AnchorsVerify
  <2> QED
    BY <2>1, AgreeUpTo
<1> QED
  BY <1>1, ChainInvariant, PTL
=============================================================================
