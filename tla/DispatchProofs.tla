--------------------------- MODULE DispatchProofs ---------------------------
(***************************************************************************)
(* Proofs about Dispatch, for any requests, memberships, operations and    *)
(* workers.                                                                *)
(***************************************************************************)
EXTENDS Dispatch, TLAPS

USE NameAssumption

(* A request that is under way has a requester and an operation.           *)
AskedInv ==
  \A r \in Request : req[r].step # "idle" =>
    req[r].member \in Member /\ req[r].operation \in Operation

(* A request's own job is in the table only once it is answered, under an  *)
(* id no other job has; nothing else has a status.                         *)
RowsInv ==
  /\ \A row \in rows : req[row.id].step = "answered"
  /\ \A i, j \in rows : i.id = j.id => i = j
  /\ \A r \in Request : status[r] # "absent" => \E row \in rows : row.id = r

(* An operation has one row, committed or pending.                         *)
KeyInv ==
  /\ \A i, j \in rows : i.operation = j.operation => i = j
  /\ \A r \in Request : req[r].step = "inserted" =>
       /\ req[r].job = r
       /\ Existing(r) = {}
       /\ \A q \in Request : req[q].step = "inserted" /\ req[q].operation = req[r].operation
                             => q = r

Answered(r) == \E row \in rows : /\ row.id = req[r].job
                                 /\ row.operation = req[r].operation
                                 /\ row.member = req[r].member

(* What a request was told, or is about to be told, is in the table.       *)
AnswerInv == \A r \in Request : req[r].step \in {"found", "answered"} => Answered(r)

RequestInv == TypeOK /\ AskedInv /\ RowsInv /\ KeyInv /\ AnswerInv

(* The parts a worker has asked for when it is at a step.                  *)
Passed(step) == CASE step = "tenant"     -> {"environment"}
                  [] step = "membership" -> {"environment", "tenant"}
                  [] step = "running"    -> Part
                  [] OTHER               -> {}

(* A busy worker has a job of the table; held has what it found to hold,   *)
(* and whatever holds at present.                                          *)
ScopeInv ==
  \A w \in Worker :
    /\ run[w].step = "idle" => run[w] = Resting
    /\ run[w].step # "idle" =>
         /\ \E row \in rows : row.id = run[w].job
         /\ Passed(run[w].step) \subseteq held[w]
         /\ \A p \in Part : Holds(p, MemberOf(run[w].job)) => p \in held[w]

Inv == RequestInv /\ ScopeInv

-----------------------------------------------------------------------------
(* The initial state, and steps that change no request.                    *)

LEMMA InitInv == Init => Inv
<1> SUFFICES ASSUME Init PROVE Inv
  OBVIOUS
<1>1. TypeOK
  BY DEF Init, TypeOK, NotAsking, Asking, RequestStep, Resting, WorkerStep, Place, Part
<1>2. AskedInv /\ RowsInv /\ KeyInv /\ AnswerInv
  BY DEF Init, AskedInv, RowsInv, KeyInv, AnswerInv, NotAsking, Asking
<1>3. ScopeInv
  BY DEF Init, ScopeInv, Resting
<1> QED
  BY <1>1, <1>2, <1>3 DEF Inv, RequestInv

(* The requests' part of the invariant looks at nothing else.              *)
LEMMA SameRequests ==
  ASSUME RequestInv, TypeOK', UNCHANGED <<req, rows>>,
         \A r \in Request : status'[r] # "absent" => status[r] # "absent" \/ \E row \in rows : row.id = r
  PROVE  RequestInv'
<1>1. AskedInv'
  BY DEF RequestInv, AskedInv
<1>2. RowsInv'
  BY DEF RequestInv, RowsInv
<1>3. KeyInv'
  BY DEF RequestInv, KeyInv, Existing
<1>4. AnswerInv'
  BY DEF RequestInv, AnswerInv, Answered
<1> QED
  BY <1>1, <1>2, <1>3, <1>4 DEF RequestInv

(* The id of a row determines it in a table without duplicates.            *)
LEMMA RowOfId ==
  ASSUME NEW table, NEW row \in table, \A i, j \in table : i.id = j.id => i = j
  PROVE  (CHOOSE r \in table : r.id = row.id) = row
OBVIOUS

-----------------------------------------------------------------------------
(* One lemma for each step of a request.                                   *)

LEMMA EnterInv ==
  ASSUME RequestInv, NEW r \in Request, NEW m \in Member, NEW o \in Operation, Enter(r, m, o)
  PROVE  RequestInv'
<1> USE DEF RequestInv, Enter
<1>0. /\ req' = [req EXCEPT ![r] = Asking("entered", m, o, NoRequest)]
      /\ req[r].step = "idle"
      /\ req'[r] = Asking("entered", m, o, NoRequest)
      /\ \A q \in Request \ {r} : req'[q] = req[q]
      /\ UNCHANGED <<rows, status>>
  BY DEF TypeOK
<1>1. TypeOK'
  BY <1>0 DEF TypeOK, Asking, RequestStep
<1>2. AskedInv'
  BY <1>0 DEF AskedInv, Asking
<1>3. RowsInv'
  <2>1. \A row \in rows : row.id \in Request \ {r}
    BY <1>0 DEF RowsInv, TypeOK, Row
  <2> QED
    BY <1>0, <2>1 DEF RowsInv
<1>4. KeyInv'
  BY <1>0 DEF KeyInv, Existing, Asking
<1>5. AnswerInv'
  BY <1>0 DEF AnswerInv, Answered, Asking
<1> QED
  BY <1>1, <1>2, <1>3, <1>4, <1>5

(* A request that finds its key answers with the row it found.             *)
LEMMA AnswerKeeps ==
  ASSUME RequestInv, NEW r \in Request, req[r].step \in {"entered", "missing"},
         Existing(r) # {}, Answer(r), UNCHANGED <<sound, able, rows, status, owner, run, held>>
  PROVE  RequestInv'
<1> USE DEF RequestInv
<1>1. PICK row \in rows :
        /\ row.operation = req[r].operation
        /\ req' = [req EXCEPT ![r] = IF Matches(row, r)
                                       THEN Asking("found", req[r].member, req[r].operation, row.id)
                                       ELSE NotAsking]
  BY DEF Answer, Existing
<1>2. row.id \in Request
  BY DEF TypeOK, Row
<1>3. \A q \in Request \ {r} : req'[q] = req[q]
  BY <1>1 DEF TypeOK
<1>4. CASE Matches(row, r)
  <2>1. /\ req'[r].step = "found" /\ req'[r].job = row.id
        /\ req'[r].operation = req[r].operation /\ req'[r].member = req[r].member
        /\ req'[r] = [step |-> "found", member |-> req[r].member,
                      operation |-> req[r].operation, job |-> row.id]
    BY <1>1, <1>4 DEF TypeOK, Asking
  <2>2. TypeOK'
    BY <1>1, <1>2, <1>4, <2>1 DEF TypeOK, RequestStep, Asking
  <2>3. AskedInv'
    BY <1>3, <2>1 DEF AskedInv
  <2>4. RowsInv'
    <3>1. \A x \in rows : x.id \in Request \ {r}
      BY DEF RowsInv, TypeOK, Row
    <3> QED
      BY <1>3, <3>1 DEF RowsInv
  <2>5. KeyInv'
    BY <1>3, <2>1 DEF KeyInv, Existing
  <2>6. AnswerInv'
    BY <1>1, <1>3, <1>4, <2>1 DEF AnswerInv, Answered, Matches
  <2> QED
    BY <2>2, <2>3, <2>4, <2>5, <2>6
<1>5. CASE ~Matches(row, r)
  <2>1. req'[r] = NotAsking
    BY <1>1, <1>5 DEF TypeOK
  <2>2. TypeOK'
    BY <1>1, <1>5 DEF TypeOK, NotAsking, Asking, RequestStep
  <2>3. AskedInv' /\ KeyInv' /\ AnswerInv'
    BY <1>3, <2>1 DEF AskedInv, KeyInv, AnswerInv, Answered, Existing, NotAsking, Asking
  <2>4. RowsInv'
    <3>1. \A x \in rows : x.id \in Request \ {r}
      BY DEF RowsInv, TypeOK, Row
    <3> QED
      BY <1>3, <3>1 DEF RowsInv
  <2> QED
    BY <2>2, <2>3, <2>4
<1> QED
  BY <1>4, <1>5

LEMMA FindInv ==
  ASSUME RequestInv, NEW r \in Request, Find(r)
  PROVE  RequestInv'
<1> USE DEF RequestInv, Find
<1>1. CASE Existing(r) # {}
  BY <1>1, AnswerKeeps
<1>2. CASE Existing(r) = {}
  <2>1. /\ req' = [req EXCEPT ![r].step = "missing"]
        /\ req'[r].step = "missing" /\ req'[r].operation = req[r].operation
        /\ req'[r].member = req[r].member
        /\ \A q \in Request \ {r} : req'[q] = req[q]
        /\ UNCHANGED <<rows, status>>
    BY <1>2 DEF TypeOK
  <2>2. TypeOK'
    BY <2>1 DEF TypeOK, RequestStep
  <2>3. AskedInv' /\ KeyInv' /\ AnswerInv'
    BY <2>1 DEF AskedInv, KeyInv, AnswerInv, Answered, Existing
  <2>4. RowsInv'
    <3>1. \A x \in rows : x.id \in Request \ {r}
      BY DEF RowsInv, TypeOK, Row
    <3> QED
      BY <2>1, <3>1 DEF RowsInv
  <2> QED
    BY <2>2, <2>3, <2>4
<1> QED
  BY <1>1, <1>2

(* The key is free, in the table and among the pending rows.               *)
LEMMA InsertInv ==
  ASSUME RequestInv, NEW r \in Request, Insert(r)
  PROVE  RequestInv'
<1> USE DEF RequestInv
<1>0. req[r].step = "missing" /\ UNCHANGED <<sound, able, rows, status, owner, run, held>>
  BY DEF Insert
<1>1. CASE Collides(r)
  BY <1>0, <1>1, AnswerKeeps DEF Collides, Insert
<1>2. CASE ~Collides(r)
  <2>1. /\ req' = [req EXCEPT ![r] = Asking("inserted", req[r].member, req[r].operation, r)]
        /\ Existing(r) = {} /\ ~Pending(req[r].operation)
    BY <1>2 DEF Collides, Insert
  <2>2. /\ req'[r].step = "inserted" /\ req'[r].job = r
        /\ req'[r].operation = req[r].operation /\ req'[r].member = req[r].member
        /\ \A q \in Request \ {r} : req'[q] = req[q]
    BY <2>1 DEF TypeOK, Asking
  <2>3. TypeOK'
    BY <1>0, <2>1 DEF TypeOK, RequestStep, Asking
  <2>4. AskedInv'
    BY <1>0, <2>2 DEF AskedInv
  <2>5. AnswerInv'
    BY <1>0, <2>2 DEF AnswerInv, Answered
  <2>6. KeyInv'
    <3>1. \A q \in Request : req[q].step = "inserted" => req[q].operation # req[r].operation
      BY <2>1 DEF Pending
    <3>2. \A q \in Request : req'[q].operation = req[q].operation
      BY <2>2
    <3> QED
      BY <1>0, <2>1, <2>2, <3>1, <3>2 DEF KeyInv, Existing
  <2>7. RowsInv'
    <3>1. \A x \in rows : x.id \in Request \ {r}
      BY <1>0 DEF RowsInv, TypeOK, Row
    <3> QED
      BY <1>0, <2>2, <3>1 DEF RowsInv
  <2> QED
    BY <2>3, <2>4, <2>5, <2>6, <2>7
<1> QED
  BY <1>1, <1>2

(* A committed row's id and key are new to the table.                      *)
LEMMA CommitInv ==
  ASSUME RequestInv, NEW r \in Request, Commit(r)
  PROVE  RequestInv'
<1> USE DEF RequestInv, Commit
<1>0. /\ req' = [req EXCEPT ![r].step = "answered"]
      /\ req'[r].step = "answered" /\ req'[r].job = req[r].job
      /\ req'[r].operation = req[r].operation /\ req'[r].member = req[r].member
      /\ \A q \in Request \ {r} : req'[q] = req[q]
  BY DEF TypeOK
<1>1. CASE req[r].step = "inserted"
  <2> DEFINE new == [id |-> r, operation |-> req[r].operation, member |-> req[r].member]
  <2>1. rows' = rows \cup {new} /\ status' = [status EXCEPT ![r] = "queued"]
    BY <1>1
  <2>2. new \in Row /\ new.id = r /\ new.operation = req[r].operation
                    /\ new.member = req[r].member
    BY <1>1 DEF AskedInv, Row
  <2> HIDE DEF new
  <2>3. \A row \in rows : row.id # r /\ row.operation # req[r].operation
    BY <1>1 DEF RowsInv, KeyInv, Existing
  <2>4. TypeOK'
    <3>1. rows' \in SUBSET Row
      BY <2>1, <2>2 DEF TypeOK
    <3>2. req' \in [Request -> [step : RequestStep, member : Member \cup {NoMember},
                               operation : Operation \cup {NoOperation},
                               job : Request \cup {NoRequest}]]
      BY <1>0 DEF TypeOK, RequestStep
    <3>3. status' \in [Request -> {"absent", "queued", "leased", "completed", "dead_letter"}]
      BY <2>1 DEF TypeOK
    <3> QED
      BY <3>1, <3>2, <3>3 DEF TypeOK
  <2>5. AskedInv'
    BY <1>0, <1>1 DEF AskedInv
  <2>6. RowsInv'
    <3>1. \A row \in rows : row.id \in Request
      BY DEF TypeOK, Row
    <3>2. \A row \in rows' : req'[row.id].step = "answered"
      BY <1>0, <2>1, <2>2, <3>1 DEF RowsInv
    <3>3. \A i, j \in rows' : i.id = j.id => i = j
      BY <2>1, <2>2, <2>3 DEF RowsInv
    <3>4. \A q \in Request : status'[q] # "absent" => \E row \in rows' : row.id = q
      BY <2>1, <2>2 DEF RowsInv, TypeOK
    <3> QED
      BY <3>2, <3>3, <3>4 DEF RowsInv
  <2>7. KeyInv'
    <3>1. \A i, j \in rows' : i.operation = j.operation => i = j
      BY <2>1, <2>2, <2>3 DEF KeyInv
    <3>2. ASSUME NEW q \in Request, req'[q].step = "inserted"
          PROVE  /\ req'[q].job = q
                 /\ Existing(q)' = {}
                 /\ \A s \in Request : req'[s].step = "inserted"
                                       /\ req'[s].operation = req'[q].operation => s = q
      <4>1. q # r /\ req'[q] = req[q]
        BY <1>0, <3>2
      <4>2. req[q].operation # req[r].operation
        BY <1>1, <3>2, <4>1 DEF KeyInv
      <4>3. Existing(q)' = {}
        BY <2>1, <2>2, <3>2, <4>1, <4>2 DEF KeyInv, Existing
      <4> QED
        BY <1>0, <3>2, <4>1, <4>3 DEF KeyInv
    <3> QED
      BY <3>1, <3>2 DEF KeyInv
  <2>8. AnswerInv'
    BY <1>0, <1>1, <2>1, <2>2 DEF AnswerInv, Answered, KeyInv
  <2> QED
    BY <2>4, <2>5, <2>6, <2>7, <2>8
<1>2. CASE req[r].step = "found"
  <2>1. UNCHANGED <<rows, status>>
    BY <1>2
  <2>2. TypeOK'
    BY <1>0, <2>1 DEF TypeOK, RequestStep
  <2>3. AskedInv' /\ AnswerInv'
    BY <1>0, <1>2, <2>1 DEF AskedInv, AnswerInv, Answered
  <2>4. KeyInv'
    BY <1>0, <2>1 DEF KeyInv, Existing
  <2>5. RowsInv'
    <3>1. \A x \in rows : x.id \in Request
      BY DEF TypeOK, Row
    <3> QED
      BY <1>0, <2>1, <3>1 DEF RowsInv
  <2> QED
    BY <2>2, <2>3, <2>4, <2>5
<1> QED
  BY <1>1, <1>2

LEMMA FailInv ==
  ASSUME RequestInv, NEW r \in Request, Fail(r)
  PROVE  RequestInv'
<1> USE DEF RequestInv, Fail
<1>0. /\ req' = [req EXCEPT ![r] = NotAsking]
      /\ req'[r] = NotAsking
      /\ \A q \in Request \ {r} : req'[q] = req[q]
      /\ UNCHANGED <<rows, status>>
  BY DEF TypeOK
<1>1. TypeOK'
  BY <1>0 DEF TypeOK, NotAsking, Asking, RequestStep
<1>2. AskedInv' /\ KeyInv' /\ AnswerInv'
  BY <1>0 DEF AskedInv, KeyInv, AnswerInv, Answered, Existing, NotAsking, Asking
<1>3. RowsInv'
  <2>1. \A x \in rows : x.id \in Request \ {r}
    BY DEF RowsInv, TypeOK, Row
  <2> QED
    BY <1>0, <2>1 DEF RowsInv
<1> QED
  BY <1>1, <1>2, <1>3

-----------------------------------------------------------------------------
(* The scopes.  A worker whose job and history do not change keeps its     *)
(* part of the invariant while nothing comes to hold and rows only grow.   *)

Guarded(w) ==
  /\ run[w].step = "idle" => run[w] = Resting
  /\ run[w].step # "idle" =>
       /\ \E row \in rows : row.id = run[w].job
       /\ Passed(run[w].step) \subseteq held[w]
       /\ \A p \in Part : Holds(p, MemberOf(run[w].job)) => p \in held[w]

LEMMA MemberKept ==
  ASSUME RowsInv, RowsInv', rows \subseteq rows', NEW row \in rows
  PROVE  MemberOf(row.id) = row.member /\ MemberOf(row.id)' = row.member
<1>1. (CHOOSE x \in rows : x.id = row.id) = row
  BY RowOfId DEF RowsInv
<1>2. (CHOOSE x \in rows' : x.id = row.id) = row
  <2>1. row \in rows' /\ \A i, j \in rows' : i.id = j.id => i = j
    BY DEF RowsInv
  <2> QED
    BY <2>1, RowOfId
<1> QED
  BY <1>1, <1>2 DEF MemberOf

LEMMA GuardedKept ==
  ASSUME RowsInv, RowsInv', rows \subseteq rows', NEW w \in Worker, Guarded(w),
         UNCHANGED <<run, held>>, able' \subseteq able, sound' \subseteq sound
  PROVE  Guarded(w)'
<1>1. CASE run[w].step = "idle"
  BY <1>1 DEF Guarded
<1>2. CASE run[w].step # "idle"
  <2>1. PICK row \in rows : row.id = run[w].job
    BY <1>2 DEF Guarded
  <2>2. MemberOf(run[w].job) = row.member /\ MemberOf(run[w].job)' = row.member
    BY <2>1, MemberKept
  <2>3. \A p \in Part : Holds(p, row.member)' => Holds(p, row.member)
    BY DEF Holds
  <2>4. \A p \in Part : Holds(p, MemberOf(run[w].job))' => p \in held[w]
    BY <1>2, <2>2, <2>3 DEF Guarded, Holds
  <2> QED
    BY <1>2, <2>1, <2>4 DEF Guarded
<1> QED
  BY <1>1, <1>2

(* Requests only add rows.                                                 *)
LEMMA RequestScope ==
  ASSUME Inv, RequestInv', rows \subseteq rows', UNCHANGED <<sound, able, run, held>>
  PROVE  ScopeInv'
<1>1. RowsInv /\ RowsInv'
  BY DEF Inv, RequestInv
<1>2. \A w \in Worker : Guarded(w)
  BY DEF Inv, ScopeInv, Guarded
<1>3. \A w \in Worker : Guarded(w)'
  BY <1>1, <1>2, GuardedKept
<1> QED
  BY <1>3 DEF ScopeInv, Guarded

LEMMA RevokeInv == ASSUME Inv, Revoke PROVE Inv'
<1>1. /\ UNCHANGED <<req, rows, status, owner, run, held>>
      /\ able' \subseteq able /\ sound' \subseteq sound
  BY DEF Revoke
<1>2. TypeOK'
  BY <1>1 DEF Inv, RequestInv, TypeOK
<1>3. RequestInv'
  BY <1>1, <1>2, SameRequests DEF Inv, RequestInv, RowsInv
<1>4. \A w \in Worker : Guarded(w)
  BY DEF Inv, ScopeInv, Guarded
<1>5. \A w \in Worker : Guarded(w)'
  BY <1>1, <1>3, <1>4, GuardedKept DEF Inv, RequestInv
<1> QED
  BY <1>3, <1>5 DEF Inv, ScopeInv, Guarded

(* What comes to hold enters the history of everybody it concerns.         *)
LEMMA RestoreInv == ASSUME Inv, Restore PROVE Inv'
<1>0. UNCHANGED <<req, rows, status, owner, run>>
  BY DEF Restore
<1>1. CASE \E p \in Place \ sound :
             /\ sound' = sound \cup {p}
             /\ held' = [w \in Worker |-> IF run[w] # Resting THEN held[w] \cup {p} ELSE held[w]]
             /\ UNCHANGED able
  <2>1. PICK p \in Place \ sound :
             /\ sound' = sound \cup {p}
             /\ held' = [w \in Worker |-> IF run[w] # Resting THEN held[w] \cup {p} ELSE held[w]]
             /\ UNCHANGED able
    BY <1>1
  <2>2. TypeOK'
    <3>1. \A w \in Worker : held[w] \in SUBSET Part /\ held[w] \cup {p} \in SUBSET Part
      BY DEF Inv, RequestInv, TypeOK, Part
    <3>2. held' \in [Worker -> SUBSET Part]
      BY <2>1, <3>1
    <3> QED
      BY <1>0, <2>1, <3>2 DEF Inv, RequestInv, TypeOK
  <2>3. RequestInv'
    BY <1>0, <2>2, SameRequests DEF Inv, RequestInv, RowsInv
  <2>4. ASSUME NEW w \in Worker, run[w].step # "idle"
        PROVE  held'[w] = held[w] \cup {p}
    BY <2>1, <2>4 DEF Resting
  <2>5. ScopeInv'
    BY <1>0, <2>1, <2>4 DEF Inv, ScopeInv, Holds, MemberOf
  <2> QED
    BY <2>3, <2>5 DEF Inv
<1>2. CASE \E m \in Member \ able :
             /\ able' = able \cup {m}
             /\ held' = [w \in Worker |->
                  IF run[w] # Resting /\ MemberOf(run[w].job) = m
                    THEN held[w] \cup {"membership"} ELSE held[w]]
             /\ UNCHANGED sound
  <2>1. PICK m \in Member \ able :
             /\ able' = able \cup {m}
             /\ held' = [w \in Worker |->
                  IF run[w] # Resting /\ MemberOf(run[w].job) = m
                    THEN held[w] \cup {"membership"} ELSE held[w]]
             /\ UNCHANGED sound
    BY <1>2
  <2>2. TypeOK'
    <3>1. \A w \in Worker : held[w] \in SUBSET Part /\ held[w] \cup {"membership"} \in SUBSET Part
      BY DEF Inv, RequestInv, TypeOK, Part
    <3>2. held' \in [Worker -> SUBSET Part]
      BY <2>1, <3>1
    <3> QED
      BY <1>0, <2>1, <3>2 DEF Inv, RequestInv, TypeOK
  <2>3. RequestInv'
    BY <1>0, <2>2, SameRequests DEF Inv, RequestInv, RowsInv
  <2>4. ASSUME NEW w \in Worker, run[w].step # "idle"
        PROVE  held'[w] = IF MemberOf(run[w].job) = m THEN held[w] \cup {"membership"} ELSE held[w]
    BY <2>1, <2>4 DEF Resting
  <2>5. ASSUME NEW w \in Worker PROVE Guarded(w)'
    <3>1. Guarded(w) /\ MemberOf(run[w].job)' = MemberOf(run[w].job)
      BY <1>0 DEF Inv, ScopeInv, Guarded, MemberOf
    <3>2. CASE run[w].step = "idle"
      BY <1>0, <3>1, <3>2 DEF Guarded
    <3>3. CASE run[w].step # "idle"
      <4>1. \A p \in Part : Holds(p, MemberOf(run[w].job))' => p \in held'[w]
        BY <2>1, <2>4, <3>1, <3>3 DEF Guarded, Holds
      <4>2. Passed(run[w].step) \subseteq held'[w]
        BY <2>4, <3>1, <3>3 DEF Guarded
      <4> QED
        BY <1>0, <3>1, <3>3, <4>1, <4>2 DEF Guarded
    <3> QED
      BY <3>2, <3>3
  <2>6. ScopeInv'
    BY <2>5 DEF ScopeInv, Guarded
  <2> QED
    BY <2>3, <2>6 DEF Inv
<1> QED
  BY <1>1, <1>2 DEF Restore

-----------------------------------------------------------------------------
(* One lemma for each step of a worker.                                    *)

(* A job that can be claimed has a row; the history starts with what holds. *)
LEMMA ClaimInv ==
  ASSUME Inv, NEW w \in Worker, NEW j \in Request, Claim(w, j)
  PROVE  Inv'
<1>1. /\ status[j] # "absent"
      /\ status' = [status EXCEPT ![j] = "leased"]
      /\ owner' = [owner EXCEPT ![j] = w]
      /\ run' = [run EXCEPT ![w] = [job |-> j, step |-> "environment"]]
      /\ held' = [held EXCEPT ![w] = {p \in Part : Holds(p, MemberOf(j))}]
      /\ UNCHANGED <<sound, able, req, rows>>
  BY DEF Claim
<1>2. TypeOK'
  BY <1>1 DEF Inv, RequestInv, TypeOK, WorkerStep
<1>3. RequestInv'
  <2>1. \A r \in Request : status'[r] # "absent" => status[r] # "absent"
    BY <1>1 DEF Inv, RequestInv, TypeOK
  <2> QED
    BY <1>1, <1>2, <2>1, SameRequests DEF Inv
<1>4. /\ run'[w] = [job |-> j, step |-> "environment"]
      /\ held'[w] = {p \in Part : Holds(p, MemberOf(j))}
      /\ \A v \in Worker \ {w} : run'[v] = run[v] /\ held'[v] = held[v]
  BY <1>1 DEF Inv, RequestInv, TypeOK
<1>5. \E row \in rows : row.id = j
  BY <1>1 DEF Inv, RequestInv, RowsInv
<1>6. ScopeInv'
  BY <1>1, <1>4, <1>5 DEF Inv, ScopeInv, Passed, Holds, MemberOf
<1> QED
  BY <1>3, <1>6 DEF Inv

LEMMA LapseInv == ASSUME Inv, NEW j \in Request, Lapse(j) PROVE Inv'
<1>1. /\ owner' = [owner EXCEPT ![j] = NoWorker]
      /\ UNCHANGED <<sound, able, req, rows, status, run, held>>
  BY DEF Lapse
<1>2. TypeOK'
  BY <1>1 DEF Inv, RequestInv, TypeOK
<1>3. RequestInv'
  BY <1>1, <1>2, SameRequests DEF Inv
<1>4. ScopeInv'
  BY <1>1 DEF Inv, ScopeInv, Holds, MemberOf
<1> QED
  BY <1>3, <1>4 DEF Inv

(* A part that passes holds, and what holds is in the history.             *)
LEMMA RevalidateInv == ASSUME Inv, NEW w \in Worker, Revalidate(w) PROVE Inv'
<1>1. /\ run[w].step \in Part /\ Holds(run[w].step, MemberOf(run[w].job))
      /\ run' = [run EXCEPT ![w].step = After(@)]
      /\ UNCHANGED <<sound, able, req, rows, status, owner, held>>
  BY DEF Revalidate, Checking, Passes
<1>2. /\ run'[w].step = After(run[w].step) /\ run'[w].job = run[w].job
      /\ \A v \in Worker \ {w} : run'[v] = run[v]
  BY <1>1 DEF Inv, RequestInv, TypeOK
<1>3. TypeOK'
  BY <1>1 DEF Inv, RequestInv, TypeOK, After, WorkerStep
<1>4. RequestInv'
  BY <1>1, <1>3, SameRequests DEF Inv
<1>5. ScopeInv'
  <2>1. ASSUME NEW v \in Worker \ {w} PROVE Guarded(v)'
    BY <1>1, <1>2 DEF Inv, ScopeInv, Guarded, Holds, MemberOf
  <2>2. run[w].step # "idle" /\ run'[w].step # "idle"
    BY <1>1, <1>2 DEF Part, Place, After
  <2>3. Passed(run'[w].step) = Passed(run[w].step) \cup {run[w].step}
    BY <1>1, <1>2 DEF Part, Place, After, Passed
  <2>4. Guarded(w)'
    BY <1>1, <1>2, <2>2, <2>3 DEF Inv, ScopeInv, Guarded, Holds, MemberOf
  <2> QED
    BY <2>1, <2>4 DEF ScopeInv, Guarded
<1> QED
  BY <1>4, <1>5 DEF Inv

(* A worker that rests has nothing to answer for.                          *)
LEMMA RestInv ==
  ASSUME Inv, NEW w \in Worker,
         run' = [run EXCEPT ![w] = Resting], held' = [held EXCEPT ![w] = {}],
         UNCHANGED <<sound, able, req, rows>>, TypeOK',
         \A r \in Request : status'[r] # "absent" => \E row \in rows : row.id = r
  PROVE  Inv'
<1>1. RequestInv'
  BY SameRequests DEF Inv
<1>2. run'[w] = Resting /\ \A v \in Worker \ {w} : run'[v] = run[v] /\ held'[v] = held[v]
  BY DEF Inv, RequestInv, TypeOK
<1>3. ScopeInv'
  BY <1>2 DEF Inv, ScopeInv, Holds, MemberOf, Resting
<1> QED
  BY <1>1, <1>3 DEF Inv

LEMMA CloseInv ==
  ASSUME Inv, NEW w \in Worker, run[w].step # "idle",
         NEW s \in {"completed", "queued", "dead_letter"}, Close(w, s)
  PROVE  Inv'
<1> DEFINE j == run[w].job
<1>1. \E row \in rows : row.id = j
  BY DEF Inv, ScopeInv
<1>2. j \in Request
  BY <1>1 DEF Inv, RequestInv, TypeOK, Row
<1>3. /\ run' = [run EXCEPT ![w] = Resting] /\ held' = [held EXCEPT ![w] = {}]
      /\ UNCHANGED <<sound, able, req, rows>>
      /\ \/ status' = [status EXCEPT ![j] = s] /\ owner' = [owner EXCEPT ![j] = NoWorker]
         \/ UNCHANGED <<status, owner>>
  BY DEF Close
<1> HIDE DEF j
<1>4. TypeOK'
  BY <1>2, <1>3 DEF Inv, RequestInv, TypeOK, Resting, WorkerStep
<1>5. \A r \in Request : status'[r] # "absent" => \E row \in rows : row.id = r
  BY <1>1, <1>2, <1>3 DEF Inv, RequestInv, RowsInv, TypeOK
<1> QED
  BY <1>3, <1>4, <1>5, RestInv

LEMMA DieInv == ASSUME Inv, NEW w \in Worker, Die(w) PROVE Inv'
<1>1. /\ run' = [run EXCEPT ![w] = Resting] /\ held' = [held EXCEPT ![w] = {}]
      /\ UNCHANGED <<sound, able, req, rows, status, owner>>
  BY DEF Die
<1>2. TypeOK'
  BY <1>1 DEF Inv, RequestInv, TypeOK, Resting, WorkerStep
<1> QED
  BY <1>1, <1>2, RestInv DEF Inv, RequestInv, RowsInv

LEMMA RequestStepInv ==
  ASSUME Inv, NEW r \in Request,
         \/ \E m \in Member, o \in Operation : Enter(r, m, o)
         \/ Find(r) \/ Insert(r) \/ Commit(r) \/ Fail(r)
  PROVE  Inv'
<1>1. RequestInv'
  BY EnterInv, FindInv, InsertInv, CommitInv, FailInv DEF Inv
<1>2. rows \subseteq rows' /\ UNCHANGED <<sound, able, run, held>>
  BY DEF Enter, Find, Insert, Commit, Fail
<1> QED
  BY <1>1, <1>2, RequestScope DEF Inv

LEMMA StepInv == Inv /\ [Next]_vars => Inv'
<1> SUFFICES ASSUME Inv, [Next]_vars PROVE Inv'
  OBVIOUS
<1>1. ASSUME NEW r \in Request,
             \/ \E m \in Member, o \in Operation : Enter(r, m, o)
             \/ Find(r) \/ Insert(r) \/ Commit(r) \/ Fail(r)
      PROVE  Inv'
  BY <1>1, RequestStepInv
<1>2. ASSUME NEW j \in Request, Lapse(j) PROVE Inv'
  BY <1>2, LapseInv
<1>3. ASSUME NEW w \in Worker, NEW j \in Request, Claim(w, j) PROVE Inv'
  BY <1>3, ClaimInv
<1>4. ASSUME NEW w \in Worker, Revalidate(w) PROVE Inv'
  BY <1>4, RevalidateInv
<1>5. ASSUME NEW w \in Worker, Reject(w) \/ End(w) PROVE Inv'
  <2>1. run[w].step # "idle" /\ \E s \in {"completed", "queued", "dead_letter"} : Close(w, s)
    BY <1>5 DEF Reject, End, Checking, Part, Place
  <2> QED
    BY <2>1, CloseInv
<1>6. ASSUME NEW w \in Worker, Die(w) PROVE Inv'
  BY <1>6, DieInv
<1>7. CASE Revoke \/ Restore
  BY <1>7, RevokeInv, RestoreInv
<1>8. CASE UNCHANGED vars
  <2>1. TypeOK'
    BY <1>8 DEF Inv, RequestInv, TypeOK, vars
  <2>2. RequestInv'
    BY <1>8, <2>1, SameRequests DEF Inv, vars
  <2>3. ScopeInv'
    BY <1>8, <2>2, RequestScope DEF vars
  <2> QED
    BY <2>2, <2>3 DEF Inv
<1> QED
  BY <1>1, <1>2, <1>3, <1>4, <1>5, <1>6, <1>7, <1>8 DEF Next

THEOREM Invariant == Spec => []Inv
<1> QED
  BY InitInv, StepInv, PTL DEF Spec

-----------------------------------------------------------------------------
(* The theorems.                                                           *)

(* Every variable keeps its type: requests, jobs and workers stay in the   *)
(* states the dispatchers and the worker give them.                        *)
THEOREM TypeCorrect == Spec => []TypeOK
<1>1. Inv => TypeOK
  BY DEF Inv, RequestInv
<1> QED
  BY <1>1, Invariant, PTL

(* However many requests race through enqueue() for one idempotency key,   *)
(* one job comes of it, and each answer names a job of the asker's own.    *)
THEOREM OneJob == Spec => []OneJobPerOperation
<1>1. Inv => OneJobPerOperation
  BY DEF Inv, RequestInv, KeyInv, AnswerInv, Answered, OneJobPerOperation
<1> QED
  BY <1>1, Invariant, PTL

(* _revalidate_scope() asks one part after another and without a lock, yet *)
(* every part has held at some moment of the attempt when a handler runs.  *)
THEOREM LiveScope == Spec => []RunsOnLiveScope
<1>1. Inv => RunsOnLiveScope
  <2> SUFFICES ASSUME Inv, NEW w \in Worker, run[w].step = "running"
               PROVE  held[w] = Part
    BY DEF RunsOnLiveScope
  <2>1. Part \subseteq held[w]
    BY DEF Inv, ScopeInv, Passed
  <2>2. held[w] \subseteq Part
    BY DEF Inv, RequestInv, TypeOK
  <2> QED
    BY <2>1, <2>2
<1> QED
  BY <1>1, Invariant, PTL

-----------------------------------------------------------------------------
(* The queue as JobLease.                                                  *)

WorkMap == [w \in Worker |-> run[w].job]

(* What a claim makes of its worker.                                       *)
BeginsChecks(w, j) ==
  /\ run' = [run EXCEPT ![w] = [job |-> j, step |-> "environment"]]
  /\ held' = [held EXCEPT ![w] = {p \in Part : Holds(p, MemberOf(j))}]

(* Whatever JobLease may do with a committed job, the model does: the      *)
(* checks of a worker begin with any claim the queue can make.             *)
THEOREM ClaimIsLeaseTake ==
  ASSUME Inv, NEW w \in Worker, NEW j \in Request,
         UNCHANGED <<sound, able, req, rows>>
  PROVE  /\ BeginsChecks(w, j) => (Claim(w, j) <=> Lease!Take(w, j))
         /\ run' = run /\ held' = held
              => (Lapse(j) <=> owner[j] # NoWorker /\ Lease!Lapse({j}))
<1>a. /\ run \in [Worker -> [job : Request \cup {NoRequest}, step : WorkerStep]]
      /\ owner \in [Request -> Worker \cup {NoWorker}]
  BY DEF Inv, RequestInv, TypeOK
<1>1. run[w] = Resting <=> WorkMap[w] = NoRequest
  <2>1. run[w].step # "idle" => run[w].job \in Request
    BY <1>a DEF Inv, ScopeInv, RequestInv, TypeOK, Row
  <2> QED
    BY <2>1, NameAssumption DEF Inv, ScopeInv, Resting, WorkMap
<1>2. ASSUME BeginsChecks(w, j)
      PROVE  Claim(w, j) <=> Lease!Take(w, j)
  <2>1. WorkMap' = [WorkMap EXCEPT ![w] = j]
    BY <1>a, <1>2 DEF WorkMap, BeginsChecks
  <2> QED
    BY <1>1, <1>2, <2>1 DEF BeginsChecks, Claim, Lease!Take, Lease!Available, WorkMap
<1>3. ASSUME run' = run /\ held' = held
      PROVE  Lapse(j) <=> owner[j] # NoWorker /\ Lease!Lapse({j})
  <2>1. [owner EXCEPT ![j] = NoWorker]
          = [k \in Request |-> IF k \in {j} THEN NoWorker ELSE owner[k]]
    BY <1>a
  <2> QED
    BY <1>3, <2>1 DEF Lapse, Lease!Lapse
<1> QED
  BY <1>2, <1>3

(* Refinement: a dispatcher's commit submits a job to the leases, and a    *)
(* worker, whatever its checks say, closes only what it holds.             *)
THEOREM WorkersUseLease == Spec => UsesLease
<1>1. Init => Lease!Init
  BY DEF Init, Resting, Lease!Init
<1>2. ASSUME Inv, [Next]_vars PROVE [Lease!Next]_Lease!vars
  <2>a. /\ run \in [Worker -> [job : Request \cup {NoRequest}, step : WorkerStep]]
        /\ owner \in [Request -> Worker \cup {NoWorker}]
        /\ status \in [Request -> {"absent", "queued", "leased", "completed", "dead_letter"}]
        /\ rows \in SUBSET Row
    BY <1>2 DEF Inv, RequestInv, TypeOK
  <2>j. \A w \in Worker : run[w] # Resting => run[w].job \in Request
    BY <1>2, <2>a DEF Inv, ScopeInv, Row
  <2>1. ASSUME NEW w \in Worker, NEW j \in Request, Claim(w, j)
        PROVE  Lease!Next
    <3>1. Lease!Take(w, j)
      BY <1>2, <2>1, ClaimIsLeaseTake DEF Claim, BeginsChecks
    <3> QED
      BY <3>1 DEF Lease!Next, Lease!WorkerStep
  <2>2. ASSUME NEW j \in Request, Lapse(j) PROVE Lease!Next
    <3>1. Lease!Lapse({j}) /\ {j} \in SUBSET Request
      BY <2>2, <2>a DEF Lapse, Lease!Lapse
    <3> QED
      BY <3>1 DEF Lease!Next
  <2>3. ASSUME NEW w \in Worker, run' = [run EXCEPT ![w] = Resting]
        PROVE  WorkMap' = [WorkMap EXCEPT ![w] = NoRequest]
    BY <2>3, <2>a DEF WorkMap, Resting
  <2>4. ASSUME NEW w \in Worker, run[w] # Resting, UNCHANGED <<status, owner>>,
               run' = [run EXCEPT ![w] = Resting]
        PROVE  Lease!Next
    <3>1. Lease!Leave(w)
      BY <2>4, <2>3, <2>j DEF Lease!Leave, WorkMap
    <3> QED
      BY <3>1 DEF Lease!Next, Lease!WorkerStep
  <2>5. ASSUME NEW w \in Worker, Reject(w) \/ End(w) PROVE Lease!Next
    <3>1. PICK s \in {"completed", "queued", "dead_letter"} : Close(w, s)
      BY <2>5 DEF Reject, End
    <3>2. run[w] # Resting
      BY <2>5 DEF Reject, End, Checking, Part, Place, Resting
    <3>3. run[w].job \in Request
      BY <3>2, <2>j
    <3>4. CASE owner[run[w].job] = w
      <4>1. Lease!Close(w, s)
        BY <3>1, <3>3, <3>4, <2>3 DEF Close, Lease!Close, Lease!Holds, WorkMap
      <4> QED
        BY <4>1 DEF Lease!Next, Lease!WorkerStep
    <3>5. CASE owner[run[w].job] # w
      BY <3>1, <3>2, <3>5, <2>4 DEF Close
    <3> QED
      BY <3>4, <3>5
  <2>6. ASSUME NEW w \in Worker, Die(w) PROVE Lease!Next
    BY <2>4, <2>6 DEF Die
  <2>7. ASSUME NEW w \in Worker, Revalidate(w) PROVE UNCHANGED Lease!vars
    <3>1. \A v \in Worker : run'[v].job = run[v].job
      BY <2>7, <2>a DEF Revalidate
    <3>2. WorkMap' = WorkMap
      BY <3>1 DEF WorkMap
    <3> QED
      BY <2>7, <3>2 DEF Revalidate, Lease!vars, WorkMap
  <2>8. ASSUME NEW r \in Request, Commit(r) PROVE [Lease!Next]_Lease!vars
    <3>1. CASE req[r].step = "inserted"
      <4>1. status[r] = "absent"
        <5>1. \A row \in rows : row.id # r
          BY <1>2, <3>1 DEF Inv, RequestInv, RowsInv
        <5> QED
          BY <1>2, <5>1 DEF Inv, RequestInv, RowsInv
      <4>2. Lease!Submit(r)
        BY <2>8, <3>1, <4>1 DEF Commit, Lease!Submit
      <4> QED
        BY <4>2 DEF Lease!Next
    <3>2. CASE req[r].step # "inserted"
      BY <2>8, <3>2 DEF Commit, Lease!vars
    <3> QED
      BY <3>1, <3>2
  <2>9. CASE \/ Revoke \/ Restore \/ UNCHANGED vars
             \/ \E r \in Request : \/ \E m \in Member, o \in Operation : Enter(r, m, o)
                                   \/ Find(r) \/ Insert(r) \/ Fail(r)
    BY <2>9 DEF Revoke, Restore, Enter, Find, Insert, Fail, vars, Lease!vars
  <2> QED
    BY <1>2, <2>1, <2>2, <2>5, <2>6, <2>7, <2>8, <2>9 DEF Next
<1> QED
  BY <1>1, <1>2, Invariant, PTL DEF Spec, UsesLease, Lease!Spec

=============================================================================
