----------------------- MODULE TenantConnectionProofs -----------------------
(***************************************************************************)
(* Proofs about TenantConnection, for any requests, workers and number of  *)
(* credential versions.                                                    *)
(***************************************************************************)
EXTENDS TenantConnection, TLAPS

USE VersionAssumption

Usable == {"active", "degraded"}

(* Graph has answered as this tenant before a status says so, be it in the *)
(* rows or as a request or a client has loaded it.                         *)
ConfirmedInv ==
  /\ tenant \in Usable => confirmed
  /\ connection \in Usable => confirmed
  /\ \A r \in Request : req[r].tenant \in Usable \/ req[r].connection \in Usable => confirmed
  /\ \A w \in Worker : client[w].step # "idle" => confirmed

(* What a test has loaded is not deleted.                                  *)
CreationInv == tenant = "absent" => \A r \in Request : ~Open(r)

Inv == TypeOK /\ ConfirmedInv /\ CreationInv

-----------------------------------------------------------------------------
(* What the operators return.                                              *)

LEMMA RequestType ==
  ASSUME NEW step \in RequestStep, NEW t \in Status, NEW c \in Status, NEW v \in Version
  PROVE  Holds(step, t, c, v) \in RequestState
BY DEF Holds, RequestState

LEMMA NoRequestType == NoRequest \in RequestState /\ NoRequest.step = "idle"
                       /\ NoRequest.tenant = "absent" /\ NoRequest.connection = "absent"
BY DEF NoRequest, Holds, RequestState, RequestStep, Status, Version

(* A request that moves on keeps what it has loaded.                       *)
LEMMA StepOfRequest ==
  ASSUME TypeOK, NEW r \in Request, NEW s \in RequestStep,
         req' = [req EXCEPT ![r].step = s]
  PROVE  /\ req' \in [Request -> RequestState]
         /\ req'[r].step = s
         /\ \A o \in Request : o # r => req'[o] = req[o]
         /\ \A o \in Request : /\ req'[o].tenant = req[o].tenant
                               /\ req'[o].connection = req[o].connection
BY DEF TypeOK, RequestState

LEMMA EndOfRequest ==
  ASSUME TypeOK, NEW r \in Request, req' = [req EXCEPT ![r] = NoRequest]
  PROVE  /\ req' \in [Request -> RequestState]
         /\ req'[r] = NoRequest
         /\ \A o \in Request : o # r => req'[o] = req[o]
BY NoRequestType DEF TypeOK

LEMMA AcquireType ==
  ASSUME TypeOK, NEW v \in Version
  PROVE  /\ Acquire(v) \in [Version -> Version \cup {NoSecret}]
         /\ \A u \in Version : Acquire(v)[u] \in {NoSecret, u}
BY DEF TypeOK, Acquire, KeyOf

LEMMA VerdictType ==
  ASSUME NEW loaded \in Status, NEW answer \in {"same", "other", "failed"}
  PROVE  /\ Verdict(loaded, answer) \in Status \ {"absent"}
         /\ Verdict(loaded, answer) \in Usable => answer = "same" \/ loaded \in Usable
BY DEF Verdict, Status, Usable

LEMMA InitInv == Init => Inv
<1> SUFFICES ASSUME Init PROVE Inv
  OBVIOUS
<1>1. TypeOK
  <2>1. req \in [Request -> RequestState]
    BY NoRequestType DEF Init
  <2>2. cache \in [Version -> Version \cup {NoSecret}] /\ \A v \in Version : cache[v] \in {NoSecret, v}
    BY DEF Init
  <2>3. client \in [Worker -> ClientState]
    BY DEF Init, NoClient, ClientState, Status
  <2>4. confirmed \in BOOLEAN
    BY DEF Init
  <2>5. tenant \in Status /\ connection \in Status /\ version \in Version
    BY DEF Init, Status, Version
  <2> QED
    BY <2>1, <2>2, <2>3, <2>4, <2>5 DEF TypeOK
<1>2. ConfirmedInv
  BY NoRequestType DEF Init, ConfirmedInv, Usable, NoClient
<1>3. CreationInv
  BY NoRequestType DEF Init, CreationInv, Open
<1> QED
  BY <1>1, <1>2, <1>3 DEF Inv

-----------------------------------------------------------------------------
(* Steps of a creation.                                                    *)

LEMMA CheckInv == ASSUME Inv, NEW r \in Request, Check(r) PROVE Inv'
<1>1. /\ req[r].step = "idle" /\ tenant = "absent"
      /\ req' = [req EXCEPT ![r].step = "checked"]
      /\ UNCHANGED <<tenant, connection, version, cache, client, confirmed>>
  BY DEF Check
<1>2. /\ req' \in [Request -> RequestState]
      /\ req'[r].step = "checked"
      /\ \A o \in Request : o # r => req'[o] = req[o]
      /\ \A o \in Request : req'[o].tenant = req[o].tenant /\ req'[o].connection = req[o].connection
  BY <1>1, StepOfRequest DEF Inv, RequestStep
<1>3. TypeOK'
  BY <1>1, <1>2 DEF Inv, TypeOK
<1>4. ConfirmedInv'
  BY <1>1, <1>2 DEF Inv, ConfirmedInv
<1>5. CreationInv'
  BY <1>1, <1>2 DEF Inv, CreationInv, Open
<1> QED
  BY <1>3, <1>4, <1>5 DEF Inv

(* A request that only ends says nothing about the rows.                   *)
LEMMA EndInv ==
  ASSUME Inv, NEW r \in Request, req' = [req EXCEPT ![r] = NoRequest],
         UNCHANGED <<version, cache, client, confirmed>>,
         \/ UNCHANGED <<tenant, connection>>
         \/ tenant' = "pending" /\ connection' = "pending"
  PROVE  Inv'
<1>1. /\ req' \in [Request -> RequestState] /\ req'[r] = NoRequest
      /\ \A o \in Request : o # r => req'[o] = req[o]
  BY EndOfRequest DEF Inv
<1>2. TypeOK'
  BY <1>1 DEF Inv, TypeOK, Status
<1>3. ConfirmedInv'
  BY <1>1, NoRequestType DEF Inv, ConfirmedInv, Usable
<1>4. CreationInv'
  BY <1>1, NoRequestType DEF Inv, CreationInv, Open
<1> QED
  BY <1>2, <1>3, <1>4 DEF Inv

(* Nothing is usable by being created.                                     *)
LEMMA CreateInv == ASSUME Inv, NEW r \in Request, Create(r) PROVE Inv'
BY EndInv DEF Create

LEMMA FailInv == ASSUME Inv, NEW r \in Request, Fail(r) PROVE Inv'
BY EndInv DEF Fail

-----------------------------------------------------------------------------
(* Steps of a test.                                                        *)

LEMMA LoadInv == ASSUME Inv, NEW r \in Request, Load(r) PROVE Inv'
<1> DEFINE new == Holds("loaded", tenant, connection, version)
<1>1. /\ req[r].step = "idle" /\ tenant # "absent"
      /\ req' = [req EXCEPT ![r] = new]
      /\ UNCHANGED <<tenant, connection, version, cache, client, confirmed>>
  BY DEF Load
<1>2. /\ new \in RequestState /\ new.step = "loaded"
      /\ new.tenant = tenant /\ new.connection = connection
  BY RequestType DEF Inv, TypeOK, RequestStep, Holds
<1> HIDE DEF new
<1>3. /\ req' \in [Request -> RequestState] /\ req'[r] = new
      /\ \A o \in Request : o # r => req'[o] = req[o]
  BY <1>1, <1>2 DEF Inv, TypeOK
<1>4. TypeOK'
  BY <1>1, <1>3 DEF Inv, TypeOK
<1>5. ConfirmedInv'
  BY <1>1, <1>2, <1>3 DEF Inv, ConfirmedInv
<1>6. CreationInv'
  BY <1>1, <1>2, <1>3 DEF Inv, CreationInv
<1> QED
  BY <1>4, <1>5, <1>6 DEF Inv

LEMMA AskInv == ASSUME Inv, NEW r \in Request, Ask(r) PROVE Inv'
<1>1. /\ req[r].step = "loaded"
      /\ UNCHANGED <<tenant, connection, version, client, confirmed>>
      /\ \E s \in {"asked", "refused"} : req' = [req EXCEPT ![r].step = s]
      /\ cache' = Acquire(req[r].version) \/ cache' = cache
  BY DEF Ask
<1>2. /\ req' \in [Request -> RequestState]
      /\ req'[r].step \in {"asked", "refused"}
      /\ \A o \in Request : o # r => req'[o] = req[o]
      /\ \A o \in Request : req'[o].tenant = req[o].tenant /\ req'[o].connection = req[o].connection
  BY <1>1, StepOfRequest DEF Inv, RequestStep
<1>3. req[r].version \in Version
  BY DEF Inv, TypeOK, RequestState
<1>4. cache' \in [Version -> Version \cup {NoSecret}] /\ \A v \in Version : cache'[v] \in {NoSecret, v}
  BY <1>1, <1>3, AcquireType DEF Inv, TypeOK
<1>5. TypeOK'
  BY <1>1, <1>2, <1>4 DEF Inv, TypeOK
<1>6. ConfirmedInv'
  BY <1>1, <1>2 DEF Inv, ConfirmedInv
<1>7. CreationInv'
  BY <1>1, <1>2 DEF Inv, CreationInv, Open
<1> QED
  BY <1>5, <1>6, <1>7 DEF Inv

(* A status that says usable comes of an answer as this tenant, or of one  *)
(* that was loaded as usable.                                              *)
LEMMA ApplyInv ==
  ASSUME Inv, NEW r \in Request, NEW answer \in {"same", "other", "failed"}, Apply(r, answer)
  PROVE  Inv'
<1> DEFINE t == Verdict(req[r].tenant, answer)
           c == Verdict(req[r].connection, answer)
<1>1. /\ Open(r)
      /\ tenant' = tenant \/ tenant' = t
      /\ connection' = connection \/ connection' = c
      /\ req' = [req EXCEPT ![r] = NoRequest]
      /\ confirmed' = (confirmed \/ answer = "same")
      /\ UNCHANGED <<version, cache, client>>
  BY DEF Apply, Flush, Open
<1>2. /\ req[r].tenant \in Status /\ req[r].connection \in Status
      /\ t \in Status \ {"absent"} /\ c \in Status \ {"absent"}
      /\ t \in Usable => answer = "same" \/ req[r].tenant \in Usable
      /\ c \in Usable => answer = "same" \/ req[r].connection \in Usable
  BY VerdictType DEF Inv, TypeOK, RequestState
<1> HIDE DEF t, c
<1>3. /\ req' \in [Request -> RequestState] /\ req'[r] = NoRequest
      /\ \A o \in Request : o # r => req'[o] = req[o]
  BY <1>1, EndOfRequest DEF Inv
<1>4. TypeOK'
  <2>1. confirmed' \in BOOLEAN
    BY <1>1
  <2> QED
    BY <1>1, <1>2, <1>3, <2>1 DEF Inv, TypeOK
<1>5. ConfirmedInv'
  <2>1. confirmed => confirmed'
    BY <1>1
  <2>2. answer = "same" => confirmed'
    BY <1>1
  <2>3. req[r].tenant \in Usable \/ req[r].connection \in Usable => confirmed'
    BY <2>1 DEF Inv, ConfirmedInv
  <2>4. (tenant' \in Usable => confirmed') /\ (connection' \in Usable => confirmed')
    BY <1>1, <1>2, <2>1, <2>2, <2>3 DEF Inv, ConfirmedInv
  <2>5. \A o \in Request :
          req'[o].tenant \in Usable \/ req'[o].connection \in Usable => confirmed'
    BY <1>3, <2>1, NoRequestType DEF Inv, ConfirmedInv, Usable
  <2>6. \A w \in Worker : client'[w].step # "idle" => confirmed'
    BY <1>1, <2>1 DEF Inv, ConfirmedInv
  <2> QED
    BY <2>4, <2>5, <2>6 DEF ConfirmedInv
<1>6. CreationInv'
  <2>1. tenant # "absent" /\ tenant' # "absent"
    BY <1>1, <1>2 DEF Inv, CreationInv
  <2>2. \A o \in Request : Open(o)' => Open(o)
    BY <1>3, NoRequestType DEF Open
  <2> QED
    BY <1>1, <2>1, <2>2 DEF Inv, CreationInv
<1> QED
  BY <1>4, <1>5, <1>6 DEF Inv

-----------------------------------------------------------------------------
(* Steps of a worker, and of an operator.                                  *)

(* A client comes of a usable connection, and leaves the requests alone.   *)
LEMMA ClientInv ==
  ASSUME Inv, NEW w \in Worker, NEW c \in ClientState,
         client' = [client EXCEPT ![w] = c], c.step # "idle" => confirmed,
         connection' \in {connection, "degraded"}, connection' = "degraded" => confirmed,
         cache' = Acquire(version) \/ cache' = cache,
         UNCHANGED <<tenant, version, req, confirmed>>
  PROVE  Inv'
<1>1. client' \in [Worker -> ClientState]
  BY DEF Inv, TypeOK
<1>2. cache' \in [Version -> Version \cup {NoSecret}] /\ \A v \in Version : cache'[v] \in {NoSecret, v}
  BY AcquireType DEF Inv, TypeOK
<1>3. TypeOK'
  BY <1>1, <1>2 DEF Inv, TypeOK, Status
<1>4. \A o \in Worker : client'[o].step # "idle" => confirmed
  BY DEF Inv, TypeOK, ConfirmedInv
<1>5. connection' \in Usable => confirmed
  BY DEF Inv, ConfirmedInv, Usable
<1>6. ConfirmedInv'
  BY <1>4, <1>5 DEF Inv, ConfirmedInv
<1>7. CreationInv'
  BY DEF Inv, CreationInv, Open
<1> QED
  BY <1>3, <1>6, <1>7 DEF Inv

LEMMA WorkerInv ==
  ASSUME Inv, NEW w \in Worker,
         Connect(w) \/ CommitPage(w) \/ CallAgain(w) \/ Degrade(w) \/ Disconnect(w)
  PROVE  Inv'
<1>1. CASE Connect(w)
  <2>1. [step |-> "calling", status |-> connection] \in ClientState
    BY DEF Inv, TypeOK, ClientState
  <2>2. tenant \in Usable /\ connection = "active"
    BY <1>1 DEF Connect, Available, TenantStatuses, ConnectionStatuses, Usable
  <2>3. confirmed
    BY <2>2 DEF Inv, ConfirmedInv
  <2> QED
    BY <1>1, <2>1, <2>3, ClientInv DEF Connect
<1>2. CASE CommitPage(w)
  <2>1. [step |-> "between", status |-> "absent"] \in ClientState
    BY DEF ClientState, Status
  <2>2. confirmed
    BY <1>2 DEF CommitPage, Inv, ConfirmedInv
  <2> QED
    BY <1>2, <2>1, <2>2, ClientInv DEF CommitPage
<1>3. CASE CallAgain(w)
  <2>1. [step |-> "calling", status |-> connection] \in ClientState
    BY DEF Inv, TypeOK, ClientState
  <2>2. confirmed
    BY <1>3 DEF CallAgain, Inv, ConfirmedInv
  <2> QED
    BY <1>3, <2>1, <2>2, ClientInv DEF CallAgain
<1>4. CASE Degrade(w)
  <2>1. NoClient \in ClientState
    BY DEF NoClient, ClientState, Status
  <2>2. confirmed
    BY <1>4 DEF Degrade, Inv, ConfirmedInv
  <2> QED
    BY <1>4, <2>1, <2>2, ClientInv DEF Degrade
<1>5. CASE Disconnect(w)
  <2>1. NoClient \in ClientState
    BY DEF NoClient, ClientState, Status
  <2>2. confirmed
    BY <1>5 DEF Disconnect, Inv, ConfirmedInv
  <2> QED
    BY <1>5, <2>1, <2>2, ClientInv DEF Disconnect
<1> QED
  BY <1>1, <1>2, <1>3, <1>4, <1>5

LEMMA RotateInv == ASSUME Inv, Rotate PROVE Inv'
<1>1. /\ version' \in Version
      /\ UNCHANGED <<tenant, connection, cache, req, client, confirmed>>
  BY DEF Rotate, Inv, TypeOK, Version
<1> QED
  BY <1>1 DEF Inv, TypeOK, ConfirmedInv, CreationInv, Open

LEMMA StepInv == Inv /\ [Next]_vars => Inv'
<1> SUFFICES ASSUME Inv, [Next]_vars PROVE Inv'
  OBVIOUS
<1>1. ASSUME NEW r \in Request,
             \/ Check(r) \/ Create(r) \/ Fail(r) \/ Load(r) \/ Ask(r)
             \/ \E answer \in {"same", "other", "failed"} : Apply(r, answer)
      PROVE  Inv'
  BY <1>1, CheckInv, CreateInv, FailInv, LoadInv, AskInv, ApplyInv
<1>2. ASSUME NEW w \in Worker,
             Connect(w) \/ CommitPage(w) \/ CallAgain(w) \/ Degrade(w) \/ Disconnect(w)
      PROVE  Inv'
  BY <1>2, WorkerInv
<1>3. CASE Rotate
  BY <1>3, RotateInv
<1>4. CASE UNCHANGED vars
  BY <1>4 DEF vars, Inv, TypeOK, ConfirmedInv, CreationInv, Open
<1> QED
  BY <1>1, <1>2, <1>3, <1>4 DEF Next

THEOREM Invariant == Spec => []Inv
<1> QED
  BY InitInv, StepInv, PTL DEF Spec

-----------------------------------------------------------------------------
(* The theorems.                                                           *)

(* Every variable keeps its type; a cached application never outlives its  *)
(* credential, since the token broker's key has the version.               *)
THEOREM TypeCorrect == Spec => []TypeOK
<1>1. Inv => TypeOK
  BY DEF Inv
<1> QED
  BY <1>1, Invariant, PTL

(* Fail closed: neither a status nor a client says usable before Graph has *)
(* answered a test as this tenant.                                         *)
THEOREM UsableConfirmed == Spec => []UsableWasConfirmed
<1>1. Inv => UsableWasConfirmed
  BY DEF Inv, ConfirmedInv, UsableWasConfirmed, Usable
<1> QED
  BY <1>1, Invariant, PTL

(* A tenant in use goes back to pending only by a test that met another    *)
(* tenant, or by one that had not read it as active.                       *)
THEOREM NotCutOff == Spec => ActiveIsNotCutOff
<1>1. [Next]_vars =>
        [tenant = "active" /\ tenant' = "pending" =>
           \E r \in Request : \/ Apply(r, "other")
                              \/ Apply(r, "failed") /\ req[r].tenant # "active"]_vars
  <2> SUFFICES ASSUME Next, tenant = "active", tenant' = "pending"
               PROVE  \E r \in Request : \/ Apply(r, "other")
                                         \/ Apply(r, "failed") /\ req[r].tenant # "active"
    OBVIOUS
  <2>1. PICK r \in Request, answer \in {"same", "other", "failed"} : Apply(r, answer)
    BY DEF Next, Check, Create, Fail, Load, Ask, Connect, CommitPage,
           CallAgain, Degrade, Disconnect, Rotate
  <2>2. Verdict(req[r].tenant, answer) = "pending"
    BY <2>1 DEF Apply, Flush
  <2>3. answer = "other" \/ (answer = "failed" /\ req[r].tenant # "active")
    BY <2>2 DEF Verdict
  <2> QED
    BY <2>1, <2>3
<1> QED
  BY <1>1, PTL DEF Spec, ActiveIsNotCutOff

-----------------------------------------------------------------------------
(* What RepeatedTestsRecover rests on: two good tests are enough.          *)

(* A tenant and its connection come together, and a client has found one.  *)
Paired ==
  /\ tenant = "absent" <=> connection = "absent"
  /\ \A w \in Worker : client[w].step # "idle" => connection # "absent"

LEMMA PairedStep == Inv /\ Paired /\ [Next]_vars => Paired'
<1> SUFFICES ASSUME Inv, Paired, [Next]_vars PROVE Paired'
  OBVIOUS
<1>a. /\ client \in [Worker -> ClientState] /\ tenant \in Status /\ connection \in Status
      /\ \A r \in Request : req[r] \in RequestState
  BY DEF Inv, TypeOK
<1>1. ASSUME NEW r \in Request, Create(r) PROVE Paired'
  BY <1>1 DEF Create, Paired
<1>2. ASSUME NEW r \in Request, NEW answer \in {"same", "other", "failed"}, Apply(r, answer)
      PROVE  Paired'
  <2>1. tenant # "absent" /\ connection # "absent"
    BY <1>2 DEF Apply, Inv, CreationInv, Open, Paired
  <2>2. tenant' # "absent" /\ connection' # "absent"
    BY <1>a, <1>2, <2>1, VerdictType DEF Apply, Flush, RequestState
  <2> QED
    BY <2>2 DEF Paired
<1>3. ASSUME NEW w \in Worker, Connect(w) \/ CommitPage(w) \/ CallAgain(w) \/ Disconnect(w)
      PROVE  Paired'
  BY <1>a, <1>3 DEF Connect, CommitPage, CallAgain, Disconnect, Available, TenantStatuses,
                    ConnectionStatuses, Paired, NoClient
<1>4. ASSUME NEW w \in Worker, Degrade(w) PROVE Paired'
  BY <1>a, <1>4 DEF Degrade, Paired, NoClient
<1>5. CASE UNCHANGED <<tenant, connection, client>>
  BY <1>5 DEF Paired
<1> QED
  BY <1>1, <1>2, <1>3, <1>4, <1>5
  DEF Next, vars, Check, Fail, Load, Ask, Rotate

(* What the code relies on when it looks up one row by the other: the tenant *)
(* and its connection are created together and neither is ever removed.       *)
THEOREM PairedAlways == Spec => []Paired
<1>1. Init => Paired
  BY DEF Init, Paired, NoClient
<1> QED
  BY <1>1, PairedStep, Invariant, PTL DEF Spec

(* A test under way knows the rows as they are.                            *)
Settled ==
  \A r \in Request :
    /\ Open(r) => req[r].tenant = tenant /\ req[r].connection = connection
    /\ req[r].step = "asked" => Available(TRUE)
    /\ req[r].step = "refused" => ~Available(TRUE)

(* How far the next good test is from an active tenant: a connection that  *)
(* no client may use has to become pending first.                          *)
Rank == IF tenant = "active" /\ connection = "active" THEN 2
        ELSE IF Available(TRUE) THEN 1 ELSE 0

Climbs ==
  /\ Rank' >= Rank
  /\ \A r \in Request, answer \in {"same", "other", "failed"} :
       Apply(r, answer) => Rank' = 2 \/ Rank' = Rank + 1

LEMMA RowsStay == ASSUME UNCHANGED <<tenant, connection>> PROVE Rank' = Rank /\ Rank \in 0 .. 2
BY DEF Rank, Available, TenantStatuses, ConnectionStatuses

LEMMA GoodTest ==
  ASSUME Inv, Paired, Calm, Settled, NEW r \in Request,
         NEW answer \in {"same", "other", "failed"}, Apply(r, answer), ~GoesWrong(r)
  PROVE  Settled' /\ (Rank' = 2 \/ Rank' = Rank + 1) /\ Rank' >= Rank
<1>0. /\ tenant \in Status \ {"absent"} /\ connection \in Status \ {"absent"}
      /\ Open(r) /\ req[r].tenant = tenant /\ req[r].connection = connection
      /\ req \in [Request -> RequestState]
  BY DEF Inv, TypeOK, Apply, Open, CreationInv, Paired, Settled
<1>1. Settled'
  <2>1. \A o \in Request : ~Open(o)'
    BY <1>0, EndOfRequest, NoRequestType DEF Apply, Calm, Open, Inv
  <2> QED
    BY <2>1 DEF Settled, Open
<1>2. tenant' = Verdict(tenant, answer) /\ connection' = Verdict(connection, answer)
  BY <1>0 DEF Apply, Flush
<1>3. CASE req[r].step = "asked"
  <2>1. answer = "same" /\ Available(TRUE)
    BY <1>3 DEF GoesWrong, Settled
  <2>2. Rank' = 2 /\ Rank \in {1, 2}
    BY <1>2, <2>1 DEF Verdict, Rank
  <2> QED
    BY <1>1, <2>2
<1>4. CASE req[r].step = "refused"
  <2>1. answer = "failed" /\ connection = "degraded" /\ Rank = 0
    BY <1>0, <1>4 DEF Apply, Answers, Settled, Available, TenantStatuses,
                      ConnectionStatuses, Status, Rank
  <2>2. tenant' \in {"degraded", "pending"} /\ connection' = "pending"
    BY <1>2, <2>1 DEF Verdict
  <2>3. Rank' = 1
    BY <2>2 DEF Rank, Available, TenantStatuses, ConnectionStatuses
  <2> QED
    BY <1>1, <2>1, <2>3
<1> QED
  BY <1>3, <1>4 DEF Apply

LEMMA CalmStep ==
  ASSUME Inv, Paired, Calm, Calm', Settled, [Next]_vars, \A r \in Request : ~GoesWrong(r)
  PROVE  Settled' /\ Climbs
<1>0. req \in [Request -> RequestState]
  BY DEF Inv, TypeOK
<1>1. ASSUME NEW r \in Request, NEW answer \in {"same", "other", "failed"}, Apply(r, answer)
      PROVE  Settled' /\ Climbs
  BY <1>1, GoodTest DEF Climbs
<1>2. ASSUME \A r \in Request, answer \in {"same", "other", "failed"} : ~Apply(r, answer)
      PROVE  Settled' /\ Rank' >= Rank
  <2>1. ASSUME UNCHANGED <<tenant, connection, req>> PROVE Settled' /\ Rank' >= Rank
    BY <2>1, RowsStay DEF Settled, Open, Available, TenantStatuses, ConnectionStatuses
  <2>2. ASSUME NEW r \in Request, Check(r) \/ Fail(r)
        PROVE  Settled' /\ Rank' >= Rank
    <3>1. UNCHANGED <<tenant, connection>>
      BY <2>2 DEF Check, Fail
    <3>2. ~Open(r)' /\ \A o \in Request : o # r => req'[o] = req[o]
      BY <1>0, <2>2, NoRequestType DEF Check, Fail, Open, RequestState
    <3> QED
      BY <3>1, <3>2, RowsStay DEF Settled, Open, Available, TenantStatuses, ConnectionStatuses
  <2>3. ASSUME NEW r \in Request, Create(r) PROVE Settled' /\ Rank' >= Rank
    <3>1. CASE tenant # "absent"
      <4>1. UNCHANGED <<tenant, connection>> /\ req' = [req EXCEPT ![r] = NoRequest]
        BY <2>3, <3>1 DEF Create
      <4>2. ~Open(r)' /\ \A o \in Request : o # r => req'[o] = req[o]
        BY <1>0, <4>1, NoRequestType DEF Open
      <4> QED
        BY <4>1, <4>2, RowsStay DEF Settled, Open, Available, TenantStatuses, ConnectionStatuses
    <3>2. CASE tenant = "absent"
      <4>1. /\ tenant' = "pending" /\ connection' = "pending"
            /\ req' = [req EXCEPT ![r] = NoRequest]
        BY <2>3, <3>2 DEF Create
      <4>2. \A o \in Request : ~Open(o)'
        BY <1>0, <3>2, <4>1, NoRequestType DEF Inv, CreationInv, Open
      <4>3. Rank = 0 /\ Rank' = 1
        BY <3>2, <4>1 DEF Rank, Available, TenantStatuses, ConnectionStatuses
      <4>4. Settled'
        BY <4>2 DEF Settled, Open
      <4>5. Rank' >= Rank
        BY <4>3
      <4> QED
        BY <4>4, <4>5
    <3> QED
      BY <3>1, <3>2
  <2>4. ASSUME NEW r \in Request, Load(r) \/ Ask(r) PROVE Settled' /\ Rank' >= Rank
    <3>1. UNCHANGED <<tenant, connection>> /\ \A o \in Request : o # r => req'[o] = req[o]
      BY <1>0, <2>4 DEF Load, Ask
    <3>2. Available(TRUE)' = Available(TRUE)
      BY <3>1 DEF Available, TenantStatuses, ConnectionStatuses
    <3>0. Rank' >= Rank
      BY <3>1, RowsStay
    <3>3. CASE Load(r)
      <4>1. req'[r] = Holds("loaded", tenant, connection, version)
        BY <1>0, <3>3 DEF Load
      <4>2. /\ req'[r].step = "loaded"
            /\ req'[r].tenant = tenant /\ req'[r].connection = connection
        BY <4>1 DEF Holds
      <4>3. Settled'
        BY <3>1, <3>2, <4>2 DEF Settled, Open
      <4> QED
        BY <3>0, <4>3
    <3>4. CASE Ask(r)
      <4>1. /\ req[r].step = "loaded"
            /\ req'[r].tenant = req[r].tenant /\ req'[r].connection = req[r].connection
            /\ req'[r].step = IF Available(TRUE) THEN "asked" ELSE "refused"
        BY <1>0, <3>4 DEF Ask, RequestState
      <4>2. req[r].tenant = tenant /\ req[r].connection = connection
        BY <4>1 DEF Settled, Open
      <4>3. Settled'
        BY <3>1, <3>2, <4>1, <4>2 DEF Settled, Open
      <4> QED
        BY <3>0, <4>3
    <3> QED
      BY <2>4, <3>3, <3>4
  <2>5. \A w \in Worker : ~Degrade(w)
    BY DEF Degrade, Calm
  <2> QED
    BY <1>2, <2>1, <2>2, <2>3, <2>4, <2>5
    DEF Next, vars, Connect, CommitPage, CallAgain, Disconnect, Rotate
<1> QED
  BY <1>1, <1>2 DEF Climbs

(* Once requests test one at a time, no sync is connected and no test      *)
(* meets a bad answer, the tenant never falls back, and every completed    *)
(* test takes it a step up: out of degraded to pending, and from there to  *)
(* active, where it stays.  So two tests do; that they come is fairness.   *)
THEOREM TestsClimb ==
  Spec => [](Settled /\ []Calm /\ [][\A r \in Request : ~GoesWrong(r)]_vars
               => []Settled /\ [][Climbs]_vars)
<1>1. Inv /\ Paired /\ Calm /\ Calm' /\ Settled /\ [Next]_vars
        /\ [\A r \in Request : ~GoesWrong(r)]_vars
        => Settled' /\ [Climbs]_vars
  <2> SUFFICES ASSUME Inv, Paired, Calm, Calm', Settled, [Next]_vars,
                      [\A r \in Request : ~GoesWrong(r)]_vars
               PROVE  Settled' /\ [Climbs]_vars
    OBVIOUS
  <2>1. CASE UNCHANGED vars
    BY <2>1 DEF vars, Settled, Open, Available, TenantStatuses, ConnectionStatuses
  <2>2. CASE \A r \in Request : ~GoesWrong(r)
    BY <2>2, CalmStep
  <2> QED
    BY <2>1, <2>2
<1> QED
  BY <1>1, Invariant, PairedAlways, PTL DEF Spec

(* When the last disturbed request has ended, nobody holds anything stale. *)
LEMMA ClosedIsSettled == (\A r \in Request : ~Open(r)) => Settled
BY DEF Settled, Open
=============================================================================
