------------------------------- MODULE Access -------------------------------
(***************************************************************************)
(* Who may do what: sign-in (web/auth/routes.py), the session's keys       *)
(* (web/context.py, the two switch routes), and the memberships of one     *)
(* environment (control_plane/service.py).                                 *)
(*                                                                         *)
(* A session names its environment, the membership version it saw when it  *)
(* entered, and a managed tenant.  A change of a membership reads the row  *)
(* and writes version + 1 later, and a sign-in reads its row, verifies the *)
(* password and writes the row later: others may write in between.         *)
(*                                                                         *)
(* Roles, permissions and the tenants a membership reaches are data: a     *)
(* request they refuse changes nothing, or drops the tenant.  A browser    *)
(* waits for its response.  Nothing under src/ disables a principal,       *)
(* suspends a membership or removes one.                                   *)
(***************************************************************************)
EXTENDS Naturals

CONSTANTS Principal,
          Nobody,        \* current_user is anonymous; an identity not linked
          Local,         \* the principal with a local login
          Identity,      \* Entra identities, (canonical_issuer, subject)
          Browser,
          Change,        \* requests of platform operators
          MaxVersion,    \* bound on membership versions
          MaxWrong,      \* bound on the failures counted
          MAX_FAILED_LOGIN

ASSUME NobodyAssumption == Nobody \notin Principal /\ Local \in Principal
ASSUME LimitAssumption ==
  /\ MaxVersion \in Nat /\ MaxWrong \in Nat
  /\ MAX_FAILED_LOGIN \in Nat \ {0}

VARIABLES environment,   \* "absent", "bare" (without its roles) or "ready"
          member,        \* each principal's membership version; 0: no row
          change,        \* what each operator's request has read
          login,         \* Local's login row, of either kind of local login
          bound,         \* external_logins: the principal of each identity
          session,       \* each browser's session
          attempt,       \* the login row each browser's sign-in has loaded
          wrong,         \* history: wrong passwords since the last clean sign-in
          slipped,       \* history: failures counted since then without a password
          crossed        \* history: since then sign-ins have overlapped

vars == <<environment, member, change, login, bound, session, attempt, wrong, slipped, crossed>>

Version == 0 .. MaxVersion

(* LoginRow: locked_until is NULL, ahead, or past. *)
LoginRow == [failed : 0 .. MaxWrong, lock : {"none", "held", "expired"}]

FreshRow == [failed |-> 0, lock |-> "none"]

Read(p, v) == [principal |-> p, version |-> v]

NoChange == Read(Nobody, 0)

(* The session's keys; flow is entra_flow_mode.  by, stale and torn are    *)
(* history: who entered the environment, whether the membership has been   *)
(* changed since, and by a change that had read another version.           *)
Session == [user : Principal \cup {Nobody}, env : BOOLEAN, seen : Version,
            tenant : BOOLEAN, flow : {"none", "login", "link"},
            by : Principal \cup {Nobody}, stale : BOOLEAN, torn : BOOLEAN]

(* Nothing but a user and a flow. *)
Plain(user, flow) == [user |-> user, env |-> FALSE, seen |-> 0, tenant |-> FALSE,
                      flow |-> flow, by |-> Nobody, stale |-> FALSE, torn |-> FALSE]

(* user has entered the environment. *)
Entered(user, flow) == [user |-> user, env |-> TRUE, seen |-> member[user], tenant |-> FALSE,
                        flow |-> flow, by |-> user, stale |-> FALSE, torn |-> FALSE]

TypeOK ==
  /\ environment \in {"absent", "bare", "ready"}
  /\ member \in [Principal -> Version]
  /\ change \in [Change -> [principal : Principal \cup {Nobody}, version : Version]]
  /\ login \in LoginRow
  /\ bound \in [Identity -> Principal \cup {Nobody}]
  /\ session \in [Browser -> Session]
  /\ attempt \in [Browser -> [open : BOOLEAN, row : LoginRow]]
  /\ wrong \in 0 .. MaxWrong /\ slipped \in 0 .. (MaxWrong - wrong)
  /\ crossed \in BOOLEAN

NoAttempt == [open |-> FALSE, row |-> FreshRow]

Init ==
  /\ environment = "absent"
  /\ member = [p \in Principal |-> 0]
  /\ change = [c \in Change |-> NoChange]
  /\ login = FreshRow
  /\ bound \in [Identity -> Principal \cup {Nobody}]
  /\ session = [b \in Browser |-> Plain(Nobody, "none")]
  /\ attempt = [b \in Browser |-> NoAttempt]
  /\ wrong = 0 /\ slipped = 0
  /\ crossed = FALSE

-----------------------------------------------------------------------------
(* The control plane *)

(* create_environment(): the row is committed, then the built-in roles in  *)
(* a transaction of their own, which may never come.                       *)
CreateEnvironment ==
  /\ environment = "absent"
  /\ environment' = "bare"
  /\ UNCHANGED <<member, change, login, bound, session, attempt, wrong, slipped, crossed>>

EnsureRoles ==
  /\ environment = "bare"
  /\ environment' = "ready"
  /\ UNCHANGED <<member, change, login, bound, session, attempt, wrong, slipped, crossed>>

(* add_membership(): there is a role, and the membership is looked up. *)
FindMembership(c, p) ==
  /\ change[c] = NoChange
  /\ environment = "ready"
  /\ member[p] < MaxVersion
  /\ change' = [change EXCEPT ![c] = Read(p, member[p])]
  /\ UNCHANGED <<environment, member, login, bound, session, attempt, wrong, slipped, crossed>>

(* Mutant: a change leaves the version alone. *)
NextVersionSame(read) == IF read = 0 THEN 1 ELSE read

(* Mutant: a change counts the version up twice. *)
NextVersionTwice(read) == IF read = 0 THEN 1 ELSE read + 2

(* A new row has version 1; version += 1 counts from what was read. *)
NextVersion(read) == read + 1

(* uq_membership_env_principal *)
Duplicate(c) == change[c].version = 0 /\ member[change[c].principal] # 0

(* History: the sessions of p are out of date. *)
Outdated(s, p, overlap) ==
  IF s.user = p /\ s.env THEN [s EXCEPT !.stale = TRUE, !.torn = @ \/ overlap] ELSE s

(* The flush and the commit, with the role assignment and the grants; the  *)
(* loser of two inserts meets IntegrityError.                              *)
CommitMembership(c) ==
  LET p == change[c].principal
  IN /\ change[c] # NoChange
     /\ change' = [change EXCEPT ![c] = NoChange]
     /\ IF Duplicate(c)
          THEN UNCHANGED <<member, session>>
          ELSE /\ member' = [member EXCEPT ![p] = NextVersion(change[c].version)]
               /\ session' = [b \in Browser |->
                                Outdated(session[b], p, member[p] # change[c].version)]
     /\ UNCHANGED <<environment, login, bound, attempt, wrong, slipped, crossed>>

DropChange(c) ==
  /\ change[c] # NoChange
  /\ change' = [change EXCEPT ![c] = NoChange]
  /\ UNCHANGED <<environment, member, login, bound, session, attempt, wrong, slipped, crossed>>

-----------------------------------------------------------------------------
(* Sign-in with a password *)

SignedIn(b) == session[b].user # Nobody

Open(b) == attempt[b].open

Loaded(b) == attempt[b].row

(* login(): the row is loaded, and is_locked() looks at the clock.         *)
BeginLogin(b) ==
  /\ ~SignedIn(b) /\ ~Open(b)
  /\ attempt' = [attempt EXCEPT ![b] = [open |-> TRUE, row |-> login]]
  /\ UNCHANGED <<environment, member, change, login, bound, session, wrong, slipped, crossed>>

(* verify_password() takes its time; a row that is locked is not verified. *)
Verifying(b) == Open(b) /\ Loaded(b).lock # "held"

(* Mutant: the lock comes a password early. *)
LocksEarly(failed) == failed + 1 >= MAX_FAILED_LOGIN

Locks(failed) == failed >= MAX_FAILED_LOGIN

(* _lock_if_needed(): both columns come from the row as it was loaded. *)
LockIfNeeded(b) ==
  LET failed == Loaded(b).failed + 1
  IN /\ wrong + slipped < MaxWrong
     /\ login' = [failed |-> failed, lock |-> IF Locks(failed) THEN "held" ELSE login.lock]
     /\ attempt' = [attempt EXCEPT ![b] = NoAttempt]
     /\ UNCHANGED <<environment, member, change, bound, session>>

WrongPassword(b) ==
  /\ Verifying(b)
  /\ LockIfNeeded(b)
  /\ wrong' = wrong + 1
  /\ crossed' = (crossed \/ login # Loaded(b))
  /\ UNCHANGED slipped

(* The row was locked, but before login() asks is_locked() again the lock  *)
(* has passed: the failure counts, and locks again, though no password was *)
(* verified.  (A row written meanwhile may hold a later lock.)             *)
CountUnverified(b) ==
  /\ Open(b) /\ Loaded(b).lock = "held"
  /\ login.lock = "held" => login # Loaded(b)
  /\ LockIfNeeded(b)
  /\ slipped' = slipped + 1
  /\ crossed' = (crossed \/ login.failed # Loaded(b).failed)
  /\ UNCHANGED wrong

(* A success writes the columns whose value it changes. *)
Reset(loaded) == [failed |-> IF loaded.failed = 0 THEN login.failed ELSE 0,
                  lock |-> IF loaded.lock = "none" THEN login.lock ELSE "none"]

(* Nobody else's sign-in is open, or came between. *)
Clean(b) == login = Loaded(b) /\ \A o \in Browser : Open(o) => o = b

(* A platform login, and an environment login, which enters or logs out.   *)
RightPassword(b, entry) ==
  LET flow == session[b].flow
  IN /\ Verifying(b)
     /\ entry = "environment" => environment # "absent"
     /\ login' = Reset(Loaded(b))
     /\ attempt' = [attempt EXCEPT ![b] = NoAttempt]
     /\ session' = [session EXCEPT ![b] =
          IF entry = "platform"     THEN [@ EXCEPT !.user = Local, !.env = FALSE, !.tenant = FALSE]
          ELSE IF member[Local] # 0 THEN Entered(Local, flow)
                                    ELSE [@ EXCEPT !.env = FALSE, !.tenant = FALSE]]
     /\ wrong' = IF Clean(b) THEN 0 ELSE wrong
     /\ slipped' = IF Clean(b) THEN 0 ELSE slipped
     /\ crossed' = ~Clean(b)
     /\ UNCHANGED <<environment, member, change, bound>>

(* The row is still locked at the second look and left as it is, or the    *)
(* process dies.                                                           *)
DropLogin(b) ==
  /\ Open(b)
  /\ attempt' = [attempt EXCEPT ![b] = NoAttempt]
  /\ UNCHANGED <<environment, member, change, login, bound, session, wrong, slipped, crossed>>

(* LOCK_MINUTES have passed. *)
Expire ==
  /\ login.lock = "held"
  /\ login' = [login EXCEPT !.lock = "expired"]
  /\ UNCHANGED <<environment, member, change, bound, session, attempt, wrong, slipped, crossed>>

-----------------------------------------------------------------------------
(* Sign-in with Entra *)

(* entra_login() and entra_link() *)
BeginEntra(b) ==
  /\ ~Open(b)
  /\ session' = [session EXCEPT ![b].flow = IF SignedIn(b) THEN "link" ELSE "login"]
  /\ UNCHANGED <<environment, member, change, login, bound, attempt, wrong, slipped, crossed>>

(* Mutant: the keys of whoever used the browser before are kept. *)
EntraSessionKept(b, p) == [session[b] EXCEPT !.user = p, !.flow = "none"]

EntraSession(b, p) == Plain(p, "none")

(* entra_callback(): the flow is used up.  A broken flow, an identity not  *)
(* linked, or a link that nobody signed in asks for, ends there.  A link   *)
(* goes to whoever is signed in now; a second one of the identity is       *)
(* refused, here or by uq_external_login_issuer_subject.                   *)
Callback(b, i) ==
  LET used == [session[b] EXCEPT !.flow = "none"]
  IN /\ session[b].flow # "none"
     /\ ~Open(b)
     /\ \/ /\ session' = [session EXCEPT ![b] = used]
           /\ UNCHANGED bound
        \/ /\ session[b].flow = "login"
           /\ bound[i] # Nobody
           /\ session' = [session EXCEPT ![b] = EntraSession(b, bound[i])]
           /\ UNCHANGED bound
        \/ /\ session[b].flow = "link"
           /\ SignedIn(b)
           /\ bound[i] = Nobody
           /\ bound' = [bound EXCEPT ![i] = session[b].user]
           /\ session' = [session EXCEPT ![b] = used]
     /\ UNCHANGED <<environment, member, change, login, attempt, wrong, slipped, crossed>>

Logout(b) ==
  /\ SignedIn(b)
  /\ session' = [session EXCEPT ![b] = Plain(Nobody, @.flow)]
  /\ UNCHANGED <<environment, member, change, login, bound, attempt, wrong, slipped, crossed>>

-----------------------------------------------------------------------------
(* Environment and tenant *)

(* switch_environment() *)
SwitchEnvironment(b) ==
  /\ SignedIn(b)
  /\ member[session[b].user] # 0
  /\ session' = [session EXCEPT ![b] = Entered(@.user, @.flow)]
  /\ UNCHANGED <<environment, member, change, login, bound, attempt, wrong, slipped, crossed>>

(* require_tenant_context() serves the request. *)
Admitted(b) == /\ SignedIn(b) /\ session[b].env
               /\ member[session[b].user] # 0
               /\ session[b].seen = member[session[b].user]

(* A request that is refused drops the environment and the tenant; one of  *)
(* a changed membership drops the version seen as well.                    *)
Refused(s) == [s EXCEPT !.env = FALSE, !.tenant = FALSE, !.by = Nobody,
                        !.stale = FALSE, !.torn = FALSE,
                        !.seen = IF s.env /\ member[s.user] # 0 THEN 0 ELSE @]

(* A route asks for its context; a tenant that is out of reach or not      *)
(* active is dropped.                                                      *)
Visit(b) ==
  /\ SignedIn(b)
  /\ session' = IF Admitted(b) THEN [session EXCEPT ![b].tenant = FALSE]
                               ELSE [session EXCEPT ![b] = Refused(@)]
  /\ UNCHANGED <<environment, member, change, login, bound, attempt, wrong, slipped, crossed>>

(* switch_managed_tenant() *)
SwitchTenant(b) ==
  /\ Admitted(b)
  /\ session' = [session EXCEPT ![b].tenant = TRUE]
  /\ UNCHANGED <<environment, member, change, login, bound, attempt, wrong, slipped, crossed>>

Next ==
  \/ CreateEnvironment \/ EnsureRoles \/ Expire
  \/ \E c \in Change : \/ \E p \in Principal : FindMembership(c, p)
                       \/ CommitMembership(c) \/ DropChange(c)
  \/ \E b \in Browser : \/ BeginLogin(b) \/ WrongPassword(b) \/ CountUnverified(b)
                        \/ DropLogin(b)
                        \/ \E entry \in {"platform", "environment"} : RightPassword(b, entry)
                        \/ BeginEntra(b) \/ Logout(b)
                        \/ \E i \in Identity : Callback(b, i)
                        \/ SwitchEnvironment(b) \/ SwitchTenant(b) \/ Visit(b)

Spec == Init /\ [][Next]_vars

-----------------------------------------------------------------------------
(* Properties *)

(* Whoever signs in to a browser, in whatever way and after whoever, finds *)
(* no environment and no tenant that another one has entered there, and no *)
(* tenant without an environment.                                          *)
SessionIsOwn ==
  \A b \in Browser : /\ session[b].env => session[b].by = session[b].user
                     /\ session[b].tenant => session[b].env

(* A changed membership is effective at the next request                   *)
(* (web/context.py:78): no session is admitted on a membership that was    *)
(* changed since it entered, unless a change was committed over another    *)
(* one it had not read, which may give a version that was given before.    *)
ChangeIsEffective ==
  \A b \in Browser : Admitted(b) => ~session[b].stale \/ session[b].torn

(* Overlapping sign-ins write stale counts over each other, and a sign-in  *)
(* that waits while a lock passes counts without a password.  Whatever     *)
(* they do, nobody is locked out who has not been wrong as often as the    *)
(* limit says since the last sign-in that was alone, and the count shown   *)
(* is no more than the wrong passwords and those that slipped in.  Unless  *)
(* sign-ins did write over each other, none of them is missing.            *)
FailuresCounted ==
  /\ login.failed <= wrong + slipped
  /\ login.lock # "none" => wrong >= MAX_FAILED_LOGIN
  /\ ~crossed => /\ login.failed = wrong + slipped
                 /\ wrong >= MAX_FAILED_LOGIN => login.lock # "none"
=============================================================================
