----------------------------- MODULE AuditChain -----------------------------
(***************************************************************************)
(* The audit hash chain of one environment (platform/audit.py), its        *)
(* anchors (platform/audit_anchor.py) and its verification.  Chains of     *)
(* different environments share no row and no lock.                        *)
(*                                                                         *)
(* record_audit() runs inside its caller's transaction, at READ COMMITTED: *)
(* SELECT ... FOR UPDATE of the environment's row, then the chain head,    *)
(* then one new row and the new head, which become visible at commit.  A   *)
(* transaction that inserted a row with a foreign key to the environment   *)
(* (a durable job, a checkpoint, an account) holds FOR KEY SHARE on the    *)
(* environment's row until it ends, and that conflicts with FOR UPDATE.    *)
(***************************************************************************)
EXTENDS Integers, Sequences

CONSTANTS Writer,      \* transactions that record audit entries or refer to the environment
          NoWriter,    \* nobody holds the row FOR UPDATE
          Anchorer,    \* runs of write-audit-anchor
          MaxEntries,  \* bound on the chain's length
          MaxAnchors   \* bound on the anchor file's lines

ASSUME WriterAssumption == NoWriter \notin Writer
ASSUME BoundAssumption  == MaxEntries \in Nat /\ MaxAnchors \in Nat

VARIABLES entries,    \* committed rows of environment_audit_logs
          head,       \* the committed row of environment_audit_chain_heads
          holder,     \* who holds the environment's row FOR UPDATE
          referrers,  \* who holds it FOR KEY SHARE
          txn,        \* each writer's transaction
          anchors,    \* lines of the anchor file
          noted,      \* the head each anchorer has read and not yet written
          check       \* the run of verify-audit-chain in progress

vars == <<entries, head, holder, referrers, txn, anchors, noted, check>>

(* SHA-256 is taken to be injective: a hash is the content it was computed *)
(* from, back to the genesis.  The actor stands for every column that is   *)
(* not part of the chain.                                                  *)
Hash == Seq(Nat \X Writer)

GENESIS_HASH == <<>>

(* Mutant: the hash does not cover previous_hash. *)
HashOfContent(previous, sequence, actor) == << <<sequence, actor>> >>

HashOf(previous, sequence, actor) == Append(previous, <<sequence, actor>>)

(* A head nobody has written yet counts as the head of an empty chain.     *)
EmptyHead == [last_sequence |-> 0, last_hash |-> GENESIS_HASH]

EntryAfter(h, w) ==
  [chain_sequence |-> h.last_sequence + 1,
   previous_hash  |-> h.last_hash,
   actor          |-> w,
   entry_hash     |-> HashOf(h.last_hash, h.last_sequence + 1, w)]

HeadAt(entry) == [last_sequence |-> entry.chain_sequence,
                  last_hash     |-> entry.entry_hash]

SequencesOf(rows) == {r.chain_sequence : r \in rows}

(* verify_audit_chain(): sequences 1, 2, ... without a gap and one row for *)
(* each, its previous_hash the hash of the row before it, its entry_hash   *)
(* its own, and the head at the last row.                                  *)
NumberedOnce(rows) ==
  \A q, r \in rows : q.chain_sequence = r.chain_sequence => q = r

Follows(r, rows) ==
  IF r.chain_sequence = 1
    THEN r.previous_hash = GENESIS_HASH
    ELSE \E p \in rows : /\ p.chain_sequence = r.chain_sequence - 1
                         /\ r.previous_hash = p.entry_hash

OwnHash(r) == r.entry_hash = HashOf(r.previous_hash, r.chain_sequence, r.actor)

EndsAt(rows, h) ==
  IF h.last_sequence = 0
    THEN h.last_hash = GENESIS_HASH
    ELSE \E r \in rows : HeadAt(r) = h

Verifies(rows, h) ==
  /\ SequencesOf(rows) = 1 .. h.last_sequence
  /\ NumberedOnce(rows)
  /\ \A r \in rows : Follows(r, rows) /\ OwnHash(r)
  /\ EndsAt(rows, h)

(* The row at the anchor's sequence has the anchor's hash. *)
Anchored(a, rows) == \E r \in rows : HeadAt(r) = a

Idle   == [phase |-> "idle", head |-> EmptyHead, added |-> {}]
NoNote == EmptyHead
NoRun  == [step |-> "idle", rows |-> {}, anchor |-> NoNote, valid |-> TRUE]

Init ==
  /\ entries = {}
  /\ head = EmptyHead
  /\ holder = NoWriter
  /\ referrers = {}
  /\ txn = [w \in Writer |-> Idle]
  /\ anchors = <<>>
  /\ noted = [a \in Anchorer |-> NoNote]
  /\ check = NoRun

-----------------------------------------------------------------------------
(* Transactions *)

Phase(w) == txn[w].phase

(* An INSERT whose environment_id refers to the environment: the job of    *)
(* PgJobQueue.enqueue(), which its dispatcher audits next, or a worker's   *)
(* checkpoint, which nobody audits.                                        *)
Reference(w) ==
  /\ Phase(w) = "idle"
  /\ holder = NoWriter
  /\ referrers' = referrers \cup {w}
  /\ txn' = [txn EXCEPT ![w].phase = "open"]
  /\ UNCHANGED <<entries, head, holder, anchors, noted, check>>

(* record_audit() issues SELECT ... FOR UPDATE ... *)
RequestLock(w) ==
  /\ Phase(w) \in {"idle", "open"}
  /\ txn' = [txn EXCEPT ![w].phase = "waiting"]
  /\ UNCHANGED <<entries, head, holder, referrers, anchors, noted, check>>

(* Mutant: a plain SELECT waits for nobody. *)
LockFreeAlways(w) == holder \in Writer \cup {NoWriter}

(* Mutant: a transaction's own share of the row stands in its way. *)
LockFreeOfAll(w) == holder = NoWriter /\ referrers = {}

LockFree(w) == holder = NoWriter /\ referrers \subseteq {w}

(* ... and gets the row when nobody else holds it in either mode. *)
AcquireLock(w) ==
  /\ Phase(w) = "waiting"
  /\ LockFree(w)
  /\ holder' = w
  /\ txn' = [txn EXCEPT ![w].phase = "locked"]
  /\ UNCHANGED <<entries, head, referrers, anchors, noted, check>>

(* db.session.get() of the head; from then on the session's own object. *)
ReadHead(w) ==
  /\ Phase(w) = "locked"
  /\ txn' = [txn EXCEPT ![w].phase = "ready", ![w].head = head]
  /\ UNCHANGED <<entries, head, holder, referrers, anchors, noted, check>>

(* A caller may record several entries in one transaction. *)
RecordEntry(w) ==
  /\ Phase(w) = "ready"
  /\ txn[w].head.last_sequence < MaxEntries
  /\ LET entry == EntryAfter(txn[w].head, w)
     IN txn' = [txn EXCEPT ![w].added = @ \cup {entry}, ![w].head = HeadAt(entry)]
  /\ UNCHANGED <<entries, head, holder, referrers, anchors, noted, check>>

Release(w) ==
  /\ txn' = [txn EXCEPT ![w] = Idle]
  /\ holder' = IF holder = w THEN NoWriter ELSE holder
  /\ referrers' = referrers \ {w}

(* (environment_id, chain_sequence) is unique: a second row with the same  *)
(* number is an IntegrityError, and the transaction rolls back.            *)
Fits(w) == SequencesOf(txn[w].added) \cap SequencesOf(entries) = {}

(* record_audit() has returned, or was never called. *)
Closing(w) == Phase(w) = "open" \/ (Phase(w) = "ready" /\ txn[w].added # {})

(* Mutant: the head is not written with the row. *)
CommitRowsOnly(w) ==
  /\ Closing(w)
  /\ Fits(w)
  /\ entries' = entries \cup txn[w].added
  /\ Release(w)
  /\ UNCHANGED <<head, anchors, noted, check>>

Commit(w) ==
  /\ Closing(w)
  /\ Fits(w)
  /\ entries' = entries \cup txn[w].added
  /\ head' = IF txn[w].added = {} THEN head ELSE txn[w].head
  /\ Release(w)
  /\ UNCHANGED <<anchors, noted, check>>

(* The request fails, its process dies, or PostgreSQL picks it as the      *)
(* victim of a deadlock.                                                   *)
Rollback(w) ==
  /\ Phase(w) # "idle"
  /\ Release(w)
  /\ UNCHANGED <<entries, head, anchors, noted, check>>

-----------------------------------------------------------------------------
(* write-audit-anchor: read the committed head, sign it, append a line. *)

NoteHead(a) ==
  /\ noted[a] = NoNote
  /\ head # EmptyHead
  /\ noted' = [noted EXCEPT ![a] = head]
  /\ UNCHANGED <<entries, head, holder, referrers, txn, anchors, check>>

(* Mutant: the line names the entry that comes next. *)
LineOfNext(h) == [h EXCEPT !.last_sequence = @ + 1]

Line(h) == h

WriteAnchor(a) ==
  /\ noted[a] # NoNote
  /\ Len(anchors) < MaxAnchors
  /\ anchors' = Append(anchors, Line(noted[a]))
  /\ noted' = [noted EXCEPT ![a] = NoNote]
  /\ UNCHANGED <<entries, head, holder, referrers, txn, check>>

-----------------------------------------------------------------------------
(* verify-audit-chain: the last line of the file (none before the first),  *)
(* the rows, the head and the anchored row, read by one query each.        *)

Latest == IF anchors = <<>> THEN NoNote ELSE anchors[Len(anchors)]

VerifyRows ==
  /\ check.step = "idle"
  /\ check' = [step |-> "rows", rows |-> entries, anchor |-> Latest, valid |-> TRUE]
  /\ UNCHANGED <<entries, head, holder, referrers, txn, anchors, noted>>

VerifyHead ==
  /\ check.step = "rows"
  /\ check' = [check EXCEPT !.step = "head", !.valid = Verifies(check.rows, head)]
  /\ UNCHANGED <<entries, head, holder, referrers, txn, anchors, noted>>

(* Mutant: the anchor is taken for the head. *)
AgreesWithHead(run) == run.anchor = head

Agrees(run) == /\ run.anchor.last_sequence \in SequencesOf(run.rows)
               /\ Anchored(run.anchor, entries)

VerifyAnchor ==
  /\ check.step = "head"
  /\ check' = [NoRun EXCEPT !.valid =
                 check.valid /\ (check.anchor # NoNote => Agrees(check))]
  /\ UNCHANGED <<entries, head, holder, referrers, txn, anchors, noted>>

Next ==
  \/ \E w \in Writer : \/ Reference(w) \/ RequestLock(w) \/ AcquireLock(w)
                       \/ ReadHead(w) \/ RecordEntry(w) \/ Commit(w) \/ Rollback(w)
  \/ \E a \in Anchorer : NoteHead(a) \/ WriteAnchor(a)
  \/ VerifyRows \/ VerifyHead \/ VerifyAnchor

Spec == Init /\ [][Next]_vars

-----------------------------------------------------------------------------
(* Properties *)

ChainHead == [last_sequence : 0 .. MaxEntries, last_hash : Hash]

Entry == [chain_sequence : 1 .. MaxEntries, previous_hash : Hash,
          actor : Writer, entry_hash : Hash]

Transaction == [phase : {"idle", "open", "waiting", "locked", "ready"},
                head  : ChainHead,
                added : SUBSET Entry]

Run == [step : {"idle", "rows", "head"}, rows : SUBSET Entry,
        anchor : ChainHead, valid : BOOLEAN]

(* Rows, heads, transactions, anchors and the verifier's locals keep the   *)
(* columns and ranges of platform/models.py and audit_anchor.py.           *)
TypeOK ==
  /\ entries \subseteq Entry
  /\ head \in ChainHead
  /\ holder \in Writer \cup {NoWriter}
  /\ referrers \subseteq Writer
  /\ txn \in [Writer -> Transaction]
  /\ anchors \in Seq(ChainHead) /\ Len(anchors) <= MaxAnchors
  /\ noted \in [Anchorer -> ChainHead]
  /\ check \in Run

(* Whatever writers interleave, fail or roll back, the committed rows and  *)
(* the committed head pass verify_audit_chain() when read together.        *)
ChainIntact == Verifies(entries, head)

(* A writer that has read the head under its lock never meets the unique   *)
(* constraint on (environment_id, chain_sequence): the audit entry, and    *)
(* the mutation committed with it, cannot fail on another writer's entry.  *)
AppendFits == \A w \in Writer : Phase(w) = "ready" => Fits(w)

(* Every line of the anchor file, however late it was appended, matches    *)
(* the chain of any later time: verify_chain_against_anchor() never        *)
(* reports a rewritten history that nobody rewrote.                        *)
AnchorsVerify == \A i \in 1 .. Len(anchors) : Anchored(anchors[i], entries)

(* The hashes, and the rows, of a chain computed from scratch over other   *)
(* content.                                                                *)
HashesOver(actors) ==
  LET hash[n \in 0 .. Len(actors)] ==
        IF n = 0 THEN GENESIS_HASH ELSE HashOf(hash[n - 1], n, actors[n])
  IN hash

RecomputedRow(actors, n) ==
  [chain_sequence |-> n,
   previous_hash  |-> HashesOver(actors)[n - 1],
   actor          |-> actors[n],
   entry_hash     |-> HashesOver(actors)[n]]

Recomputed(actors) == {RecomputedRow(actors, n) : n \in 1 .. Len(actors)}

UpTo(n, rows) == {r \in rows : r.chain_sequence <= n}

(* An anchor binds the history before it: a recomputed chain that is       *)
(* consistent in itself and matches the anchored row has the very rows     *)
(* that were committed, up to the anchor.                                  *)
AnchorsBind ==
  \A length \in 0 .. MaxEntries : \A actors \in [1 .. length -> Writer] :
    \A i \in 1 .. Len(anchors) :
      Anchored(anchors[i], Recomputed(actors)) =>
        LET n == anchors[i].last_sequence
        IN UpTo(n, Recomputed(actors)) = UpTo(n, entries)

(* The lock serialises the writers of a chain (05-security-operations.md   *)
(* section 5).  A writer that waits is stuck only if two transactions that *)
(* have inserted a referring row both wait, each for the other's share of  *)
(* the row: dispatchers, which enqueue before they audit.  Writers that    *)
(* only audit, and a referrer on its own, always get on.                   *)
OnlyReferrersDeadlock ==
  (\E w \in Writer : Phase(w) = "waiting") =>
    \/ \E w \in Writer : Phase(w) = "waiting" /\ LockFree(w)
    \/ \E w \in {holder} \cup referrers : w # NoWriter /\ Phase(w) # "waiting"
    \/ \E v, w \in referrers : v # w /\ Phase(v) = "waiting" /\ Phase(w) = "waiting"

(* Verification may run on its own at any time (05-security-operations.md  *)
(* section 5).  Its queries are three snapshots: it finds fault with an    *)
(* intact chain only if an entry was committed while it ran.               *)
VerdictExplained ==
  [][VerifyAnchor /\ ~check'.valid => check.rows # entries]_vars
=============================================================================
