-------------------------- MODULE TenantConnection --------------------------
(***************************************************************************)
(* A managed tenant and its connection: microsoft/onboarding_service.py    *)
(* with the routes that call it (web/microsoft/routes.py), the client      *)
(* factory and the token broker behind a client, and what the capability   *)
(* handlers do to the connection.                                          *)
(*                                                                         *)
(* A web request reads the two rows, asks Graph, and applies the answer to *)
(* the objects it read: SQLAlchemy keeps an object as it was loaded until  *)
(* a commit expires it, and a flush writes the columns whose value is not  *)
(* the loaded one.  So a request compares with, and writes over, statuses  *)
(* that may have changed, and a verdict equal to what it once read is not  *)
(* written at all.                                                         *)
(*                                                                         *)
(* The credential is the number of its version.  No code under src/        *)
(* rotates one; Rotate stands for an operator who replaces secret and      *)
(* version together.                                                       *)
(***************************************************************************)
EXTENDS Naturals

CONSTANTS Request,     \* web requests of administrators
          Worker,      \* workers that run a sync of the tenant
          Versions     \* bound on credential_version

ASSUME VersionAssumption == Versions \in Nat \ {0}

VARIABLES tenant,      \* ManagedTenant.status, or "absent"
          connection,  \* TenantConnection.status, or "absent"
          version,     \* TenantConnection.credential_version
          cache,       \* secret inside the cached application of each version
          req,         \* what each request is doing
          client,      \* what each worker's Graph client knows of its connection
          confirmed    \* history: Graph has once answered as this tenant

vars == <<tenant, connection, version, cache, req, client, confirmed>>

NoSecret == 0

Version == 1 .. Versions

(* managed_tenants.status and tenant_connections.status, as far as the     *)
(* code sets them.                                                         *)
Status == {"absent", "pending", "active", "degraded"}

(* What a request holds in its session. *)
Holds(step, t, c, v) == [step |-> step, tenant |-> t, connection |-> c, version |-> v]

NoRequest == Holds("idle", "absent", "absent", 1)

RequestStep == {"idle", "checked", "loaded", "asked", "refused"}

RequestState == [step : RequestStep, tenant : Status, connection : Status, version : Version]

NoClient == [step |-> "idle", status |-> "absent"]

ClientState == [step : {"idle", "calling", "between"}, status : Status]

(* A cached application has the secret of its version: it never outlives   *)
(* its credential.                                                         *)
TypeOK ==
  /\ tenant \in Status
  /\ connection \in Status
  /\ version \in Version
  /\ cache \in [Version -> Version \cup {NoSecret}]
  /\ \A v \in Version : cache[v] \in {NoSecret, v}
  /\ req \in [Request -> RequestState]
  /\ client \in [Worker -> ClientState]
  /\ confirmed \in BOOLEAN

Init ==
  /\ tenant = "absent"
  /\ connection = "absent"
  /\ version = 1
  /\ cache = [v \in Version |-> NoSecret]
  /\ req = [r \in Request |-> NoRequest]
  /\ client = [w \in Worker |-> NoClient]
  /\ confirmed = FALSE

-----------------------------------------------------------------------------
(* create_byo_managed_tenant() and its route *)

(* The form is valid and no tenant has its Entra id; with one, ValueError. *)
Check(r) ==
  /\ req[r].step = "idle"
  /\ tenant = "absent"
  /\ req' = [req EXCEPT ![r].step = "checked"]
  /\ UNCHANGED <<tenant, connection, version, cache, client, confirmed>>

(* Tenant and connection are committed; the loser of two meets             *)
(* IntegrityError (uq_managed_tenant_env_entra).  The route's audit entry  *)
(* is a transaction of its own after this one (README, Disagreements).     *)
Create(r) ==
  /\ req[r].step = "checked"
  /\ IF tenant # "absent"
       THEN UNCHANGED <<tenant, connection>>
       ELSE tenant' = "pending" /\ connection' = "pending"
  /\ req' = [req EXCEPT ![r] = NoRequest]
  /\ UNCHANGED <<version, cache, client, confirmed>>

(* The process dies, or the database refuses a transaction. *)
Fail(r) ==
  /\ req[r].step # "idle"
  /\ req' = [req EXCEPT ![r] = NoRequest]
  /\ UNCHANGED <<tenant, connection, version, cache, client, confirmed>>

-----------------------------------------------------------------------------
(* The factory and the token broker *)

(* What TenantGraphClientFactory accepts of a tenant, and of a connection. *)
TenantStatuses(includePending) ==
  {"active", "degraded"} \cup (IF includePending THEN {"pending"} ELSE {})

(* Mutant: a test may use the pending connection only. *)
ConnectionStatusesEither(includePending) ==
  IF includePending THEN {"pending"} ELSE {"active"}

ConnectionStatuses(includePending) ==
  {"active"} \cup (IF includePending THEN {"pending"} ELSE {})

Available(includePending) == /\ tenant \in TenantStatuses(includePending)
                             /\ connection \in ConnectionStatuses(includePending)

(* Mutant: the key leaves the version out. *)
KeyOfAny(v) == 1

(* TokenCacheKey, for one connection *)
KeyOf(v) == v

(* acquire_token() for a connection loaded at version v: one thread at a   *)
(* time, and a secret of the same row on a miss.                           *)
Acquire(v) ==
  IF cache[KeyOf(v)] = NoSecret THEN [cache EXCEPT ![KeyOf(v)] = v] ELSE cache

(* External: an operator replaces the credential. *)
Rotate ==
  /\ connection # "absent"
  /\ version < Versions
  /\ version' = version + 1
  /\ UNCHANGED <<tenant, connection, cache, req, client, confirmed>>

-----------------------------------------------------------------------------
(* test_connection() *)

Open(r) == req[r].step \in {"loaded", "asked", "refused"}

(* The route reads both rows. *)
Load(r) ==
  /\ req[r].step = "idle"
  /\ tenant # "absent"
  /\ req' = [req EXCEPT ![r] = Holds("loaded", tenant, connection, version)]
  /\ UNCHANGED <<tenant, connection, version, cache, client, confirmed>>

(* default_graph_client_factory(include_pending=True), which looks at the  *)
(* rows as they are now; then the token, of the version in the session.    *)
Ask(r) ==
  /\ req[r].step = "loaded"
  /\ IF Available(TRUE)
       THEN /\ req' = [req EXCEPT ![r].step = "asked"]
            /\ cache' = Acquire(req[r].version)
       ELSE /\ req' = [req EXCEPT ![r].step = "refused"]
            /\ UNCHANGED cache
  /\ UNCHANGED <<tenant, connection, version, client, confirmed>>

(* "same": the tenant's own id, or a response without an id, which the     *)
(* code takes for it; "other": another tenant's; "failed": no answer.      *)
Answers(r) == IF req[r].step = "asked" THEN {"same", "other", "failed"} ELSE {"failed"}

(* Mutant: a failed test always means degraded. *)
VerdictHopeful(loaded, answer) ==
  CASE answer = "same" -> "active" [] answer = "other" -> "pending" [] OTHER -> "degraded"

(* Mutant: a failed test always means pending. *)
VerdictHarsh(loaded, answer) == IF answer = "same" THEN "active" ELSE "pending"

(* apply_connection_test_result() for a status loaded earlier *)
Verdict(loaded, answer) ==
  CASE answer = "same"  -> "active"
    [] answer = "other" -> "pending"
    [] OTHER            -> IF loaded = "active" THEN "degraded" ELSE "pending"

(* The flush writes a column only if its value has changed. *)
Flush(row, loaded, value) == IF value = loaded THEN row ELSE value

(* The answer is applied, audited and committed. *)
Apply(r, answer) ==
  /\ req[r].step \in {"asked", "refused"}
  /\ answer \in Answers(r)
  /\ tenant' = Flush(tenant, req[r].tenant, Verdict(req[r].tenant, answer))
  /\ connection' = Flush(connection, req[r].connection, Verdict(req[r].connection, answer))
  /\ req' = [req EXCEPT ![r] = NoRequest]
  /\ confirmed' = (confirmed \/ answer = "same")
  /\ UNCHANGED <<version, cache, client>>

-----------------------------------------------------------------------------
(* A sync's Graph client *)

(* default_graph_client_factory(), at the start of a handler *)
Connect(w) ==
  /\ client[w].step = "idle"
  /\ Available(FALSE)
  /\ client' = [client EXCEPT ![w] = [step |-> "calling", status |-> connection]]
  /\ cache' = Acquire(version)
  /\ UNCHANGED <<tenant, connection, version, req, confirmed>>

(* A page is committed, which expires the connection object ... *)
CommitPage(w) ==
  /\ client[w].step = "calling"
  /\ client' = [client EXCEPT ![w] = [step |-> "between", status |-> "absent"]]
  /\ UNCHANGED <<tenant, connection, version, cache, req, confirmed>>

(* ... so the next request loads the row again, and nobody asks whether it *)
(* is active still.                                                        *)
CallAgain(w) ==
  /\ client[w].step = "between"
  /\ client' = [client EXCEPT ![w] = [step |-> "calling", status |-> connection]]
  /\ cache' = Acquire(version)
  /\ UNCHANGED <<tenant, connection, version, req, confirmed>>

(* graph_authorization_failed: _degrade_connection(), with the object the  *)
(* session holds.  The tenant is left alone.                               *)
Degrade(w) ==
  /\ client[w].step = "calling"
  /\ connection' = IF client[w].status = "active" THEN "degraded" ELSE connection
  /\ client' = [client EXCEPT ![w] = NoClient]
  /\ UNCHANGED <<tenant, version, cache, req, confirmed>>

(* The handler ends in any other way. *)
Disconnect(w) ==
  /\ client[w].step # "idle"
  /\ client' = [client EXCEPT ![w] = NoClient]
  /\ UNCHANGED <<tenant, connection, version, cache, req, confirmed>>

Next ==
  \/ \E r \in Request : \/ Check(r) \/ Create(r) \/ Fail(r)
                        \/ Load(r) \/ Ask(r)
                        \/ \E answer \in {"same", "other", "failed"} : Apply(r, answer)
  \/ \E w \in Worker : \/ Connect(w) \/ CommitPage(w) \/ CallAgain(w)
                       \/ Degrade(w) \/ Disconnect(w)
  \/ Rotate

Spec == Init /\ [][Next]_vars

(* The HTTP client gives up after 30 seconds, so a test gets an answer, and *)
(* processes do not die in every one.                                      *)
FairSpec == /\ Spec
            /\ \A r \in Request :
                 /\ SF_vars(Ask(r))
                 /\ SF_vars(\E answer \in {"same", "failed"} : Apply(r, answer))

Calm == /\ \A r, o \in Request : Open(r) /\ Open(o) => r = o
        /\ \A w \in Worker : client[w].step = "idle"

(* A test meets another tenant, or gets no answer from Graph. *)
GoesWrong(r) == \/ Apply(r, "other")
                \/ req[r].step = "asked" /\ Apply(r, "failed")

-----------------------------------------------------------------------------
(* Properties *)

(* Fail closed (microsoft/factory.py:37): nothing of the tenant is usable  *)
(* by a worker, nor enterable by a session, before Graph has once answered *)
(* a test as this tenant, whatever concurrent tests and syncs write.       *)
UsableWasConfirmed ==
  /\ tenant \in {"active", "degraded"} => confirmed
  /\ connection \in {"active", "degraded"} => confirmed
  /\ \A w \in Worker : client[w].step # "idle" => confirmed

(* A degraded connection is not available to the test that should revive   *)
(* it (microsoft/factory.py:39), so a first test fails whatever Graph says.*)
(* Repeated tests must get out of that: once one request at a time tests,  *)
(* no sync is connected and Graph answers well, tenant and connection end  *)
(* up active and stay so.                                                  *)
RepeatedTestsRecover ==
  /\ <>[]Calm
  /\ <>[][\A r \in Request : ~GoesWrong(r)]_vars
  /\ []<>(\E r \in Request : Open(r))
  => <>[](tenant = "active" /\ connection = "active")

(* A failed test takes a tenant that sessions are using no further than    *)
(* degraded: it falls from active to pending only if Graph answered as     *)
(* another tenant, or by a test another one overtook since it read the row.*)
ActiveIsNotCutOff ==
  [][tenant = "active" /\ tenant' = "pending" =>
       \E r \in Request : \/ Apply(r, "other")
                          \/ Apply(r, "failed") /\ req[r].tenant # "active"]_vars
=============================================================================
