---------------------------- MODULE AccessProofs ----------------------------
(***************************************************************************)
(* Proofs about Access, for any principals, identities, browsers and       *)
(* operators' requests, and any lock-out limit.                            *)
(***************************************************************************)
EXTENDS Access, TLAPS

USE NobodyAssumption, LimitAssumption

(* A change under way has read a membership that may still change.         *)
ChangeInv ==
  \A c \in Change : change[c] # NoChange =>
    change[c].principal \in Principal /\ change[c].version < MaxVersion

(* An environment was entered by the session's user; a tenant needs one.   *)
Own(s) ==
  /\ s.env => s.user \in Principal /\ s.by = s.user
  /\ s.tenant => s.env

(* Until a change is committed over one it had not read, versions grow.    *)
Seen(s, versions) ==
  s.env /\ ~s.torn => /\ s.seen <= versions[s.user]
                      /\ s.stale => s.seen < versions[s.user]

SessionInv == \A b \in Browser : Own(session[b]) /\ Seen(session[b], member)

(* What a login row shows is backed by failures, and its lock by wrong     *)
(* passwords; so is a row that an open sign-in has loaded.                 *)
Backed(row) ==
  row.failed <= wrong + slipped /\ (row.lock # "none" => wrong >= MAX_FAILED_LOGIN)

LoginInv ==
  /\ slipped # 0 => wrong >= MAX_FAILED_LOGIN
  /\ Backed(login)
  /\ \A b \in Browser : Open(b) => Backed(Loaded(b))
  /\ ~crossed => /\ login.failed = wrong + slipped
                 /\ wrong >= MAX_FAILED_LOGIN => login.lock # "none"

Inv == TypeOK /\ ChangeInv /\ SessionInv /\ LoginInv

-----------------------------------------------------------------------------
(* The session records.                                                    *)

LEMMA PlainSession ==
  ASSUME NEW user \in Principal \cup {Nobody}, NEW flow \in {"none", "login", "link"},
         NEW versions
  PROVE  /\ Plain(user, flow) \in Session
         /\ Own(Plain(user, flow)) /\ Seen(Plain(user, flow), versions)
BY DEF Plain, Session, Own, Seen, Version

LEMMA EnteredSession ==
  ASSUME TypeOK, NEW user \in Principal, NEW flow \in {"none", "login", "link"}
  PROVE  /\ Entered(user, flow) \in Session
         /\ Own(Entered(user, flow)) /\ Seen(Entered(user, flow), member)
BY DEF TypeOK, Entered, Session, Own, Seen, Version

LEMMA FlowSession ==
  ASSUME NEW s \in Session, NEW flow \in {"none", "login", "link"}, NEW versions,
         Own(s), Seen(s, versions)
  PROVE  LET t == [s EXCEPT !.flow = flow]
         IN t \in Session /\ Own(t) /\ Seen(t, versions)
BY DEF Session, Own, Seen

LEMMA OutdatedSession ==
  ASSUME TypeOK, NEW s \in Session, NEW p \in Principal, NEW overlap \in BOOLEAN,
         NEW v \in Version, overlap \/ v > member[p],
         Own(s), Seen(s, member)
  PROVE  LET t == Outdated(s, p, overlap)
         IN t \in Session /\ Own(t) /\ Seen(t, [member EXCEPT ![p] = v])
<1> DEFINE t == Outdated(s, p, overlap)
           versions == [member EXCEPT ![p] = v]
<1>1. CASE s.user = p /\ s.env
  <2>1. /\ t = [s EXCEPT !.stale = TRUE, !.torn = s.torn \/ overlap]
        /\ t.user = p /\ t.env = s.env /\ t.by = s.by /\ t.tenant = s.tenant
        /\ t.seen = s.seen /\ t.stale = TRUE /\ t.torn = (s.torn \/ overlap)
    BY <1>1 DEF Outdated, Session
  <2>2. t \in Session
    BY <2>1 DEF Session
  <2>3. Own(t)
    BY <1>1, <2>1 DEF Own
  <2>4. versions[p] = v /\ member[p] \in Nat /\ v \in Nat /\ s.seen \in Nat
    BY DEF TypeOK, Version, Session
  <2>5. ASSUME ~t.torn PROVE s.seen < v
    <3>1. ~s.torn /\ ~overlap
      BY <2>1, <2>5
    <3>2. s.seen <= member[p]
      BY <1>1, <3>1 DEF Seen
    <3> QED
      BY <2>4, <3>1, <3>2
  <2>6. Seen(t, versions)
    BY <1>1, <2>1, <2>4, <2>5 DEF Seen
  <2> QED
    BY <2>2, <2>3, <2>6
<1>2. CASE ~(s.user = p /\ s.env)
  <2>1. t = s
    BY <1>2 DEF Outdated
  <2>2. s.env => versions[s.user] = member[s.user]
    BY <1>2 DEF TypeOK, Own
  <2> QED
    BY <2>1, <2>2 DEF Seen
<1> QED
  BY <1>1, <1>2

(* A step of one browser that writes a session of its own kind.            *)
LEMMA SessionKept ==
  ASSUME Inv, NEW b \in Browser, NEW s \in Session, Own(s), Seen(s, member),
         session' = [session EXCEPT ![b] = s], UNCHANGED member
  PROVE  session' \in [Browser -> Session] /\ SessionInv'
<1>1. session' \in [Browser -> Session]
  BY DEF Inv, TypeOK
<1>2. \A o \in Browser : session'[o] = s \/ session'[o] = session[o]
  BY DEF Inv, TypeOK
<1>3. \A o \in Browser : Own(session'[o]) /\ Seen(session'[o], member)
  BY <1>2 DEF Inv, SessionInv
<1> QED
  BY <1>1, <1>3 DEF SessionInv

LEMMA InitInv == Init => Inv
<1> SUFFICES ASSUME Init PROVE Inv
  OBVIOUS
<1>1. NoAttempt \in [open : BOOLEAN, row : LoginRow] /\ FreshRow \in LoginRow
  BY DEF NoAttempt, FreshRow, LoginRow
<1>2. TypeOK
  <2>1. member \in [Principal -> Version]
    BY DEF Init, Version
  <2>2. change \in [Change -> [principal : Principal \cup {Nobody}, version : Version]]
    BY DEF Init, NoChange, Read, Version
  <2>3. session \in [Browser -> Session]
    BY PlainSession DEF Init
  <2>4. attempt \in [Browser -> [open : BOOLEAN, row : LoginRow]] /\ login \in LoginRow
    BY <1>1 DEF Init
  <2>5. environment = "absent" /\ wrong = 0 /\ slipped = 0 /\ bound \in [Identity -> Principal \cup {Nobody}]
    BY DEF Init
  <2>6. crossed \in BOOLEAN
    BY DEF Init
  <2> QED
    BY <2>1, <2>2, <2>3, <2>4, <2>5, <2>6 DEF TypeOK
<1>3. ChangeInv
  BY DEF Init, ChangeInv
<1>4. SessionInv
  BY PlainSession DEF Init, SessionInv
<1>5. LoginInv
  BY DEF Init, LoginInv, Backed, FreshRow, Open, NoAttempt
<1> QED
  BY <1>2, <1>3, <1>4, <1>5 DEF Inv

-----------------------------------------------------------------------------
(* Steps of the control plane.                                             *)

LEMMA EnvironmentInv ==
  ASSUME Inv, CreateEnvironment \/ EnsureRoles
  PROVE  Inv'
<1>1. /\ environment' \in {"bare", "ready"}
      /\ UNCHANGED <<member, change, login, bound, session, attempt, wrong, slipped, crossed>>
  BY DEF CreateEnvironment, EnsureRoles
<1> QED
  BY <1>1 DEF Inv, TypeOK, ChangeInv, SessionInv, LoginInv, Backed, Open, Loaded

LEMMA FindMembershipInv ==
  ASSUME Inv, NEW c \in Change, NEW p \in Principal, FindMembership(c, p)
  PROVE  Inv'
<1>1. /\ member[p] < MaxVersion
      /\ change' = [change EXCEPT ![c] = Read(p, member[p])]
      /\ UNCHANGED <<environment, member, login, bound, session, attempt, wrong, slipped, crossed>>
  BY DEF FindMembership
<1>2. TypeOK'
  BY <1>1 DEF Inv, TypeOK, Read
<1>3. ChangeInv'
  BY <1>1 DEF Inv, TypeOK, ChangeInv, Read
<1>4. SessionInv' /\ LoginInv'
  BY <1>1 DEF Inv, SessionInv, LoginInv, Backed, Open, Loaded
<1> QED
  BY <1>2, <1>3, <1>4 DEF Inv

(* A change that saw the latest version leaves a higher one.               *)
LEMMA CommitMembershipInv ==
  ASSUME Inv, NEW c \in Change, CommitMembership(c)
  PROVE  Inv'
<1> DEFINE p == change[c].principal
           read == change[c].version
<1>1. p \in Principal /\ read \in Version /\ read < MaxVersion
  BY DEF CommitMembership, Inv, ChangeInv, TypeOK
<1>2. /\ change' = [change EXCEPT ![c] = NoChange]
      /\ UNCHANGED <<environment, login, bound, attempt, wrong, slipped, crossed>>
  BY DEF CommitMembership
<1>3. \/ UNCHANGED <<member, session>>
      \/ /\ member' = [member EXCEPT ![p] = read + 1]
         /\ session' = [b \in Browser |-> Outdated(session[b], p, member[p] # read)]
  BY DEF CommitMembership, NextVersion
<1> HIDE DEF p, read
<1>4. change' \in [Change -> [principal : Principal \cup {Nobody}, version : Version]] /\ ChangeInv'
  BY <1>2 DEF Inv, TypeOK, ChangeInv, NoChange, Read, Version
<1>5. LoginInv'
  BY <1>2 DEF Inv, LoginInv, Backed, Open, Loaded
<1>6. CASE UNCHANGED <<member, session>>
  BY <1>2, <1>4, <1>5, <1>6 DEF Inv, TypeOK, SessionInv
<1>7. CASE /\ member' = [member EXCEPT ![p] = read + 1]
           /\ session' = [b \in Browser |-> Outdated(session[b], p, member[p] # read)]
  <2>1. /\ read + 1 \in Version
        /\ (member[p] # read) \in BOOLEAN
        /\ member[p] # read \/ read + 1 > member[p]
    BY <1>1 DEF Inv, TypeOK, Version
  <2>2. ASSUME NEW b \in Browser
        PROVE  session'[b] \in Session /\ Own(session'[b]) /\ Seen(session'[b], member')
    <3>1. session[b] \in Session /\ Own(session[b]) /\ Seen(session[b], member)
      BY DEF Inv, TypeOK, SessionInv
    <3> QED
      BY <1>1, <1>7, <2>1, <3>1, OutdatedSession DEF Inv
  <2>3. session' \in [Browser -> Session]
    BY <1>7, <2>2
  <2>4. member' \in [Principal -> Version]
    BY <1>7, <2>1 DEF Inv, TypeOK
  <2> QED
    BY <1>2, <1>4, <1>5, <2>2, <2>3, <2>4 DEF Inv, TypeOK, SessionInv
<1> QED
  BY <1>3, <1>6, <1>7

LEMMA DropChangeInv ==
  ASSUME Inv, NEW c \in Change, DropChange(c)
  PROVE  Inv'
<1>1. /\ change' = [change EXCEPT ![c] = NoChange]
      /\ UNCHANGED <<environment, member, login, bound, session, attempt, wrong, slipped, crossed>>
  BY DEF DropChange
<1>2. TypeOK' /\ ChangeInv'
  BY <1>1 DEF Inv, TypeOK, ChangeInv, NoChange, Read, Version
<1>3. SessionInv' /\ LoginInv'
  BY <1>1 DEF Inv, SessionInv, LoginInv, Backed, Open, Loaded
<1> QED
  BY <1>2, <1>3 DEF Inv

-----------------------------------------------------------------------------
(* Steps of a sign-in with a password.                                     *)

LEMMA BeginLoginInv ==
  ASSUME Inv, NEW b \in Browser, BeginLogin(b)
  PROVE  Inv'
<1>1. /\ attempt' = [attempt EXCEPT ![b] = [open |-> TRUE, row |-> login]]
      /\ UNCHANGED <<environment, member, change, login, bound, session, wrong, slipped, crossed>>
  BY DEF BeginLogin
<1>2. /\ attempt'[b].row = login
      /\ \A o \in Browser \ {b} : attempt'[o] = attempt[o]
      /\ attempt' \in [Browser -> [open : BOOLEAN, row : LoginRow]]
  BY <1>1 DEF Inv, TypeOK
<1>3. TypeOK'
  BY <1>1, <1>2 DEF Inv, TypeOK
<1>4. ChangeInv' /\ SessionInv'
  BY <1>1 DEF Inv, ChangeInv, SessionInv
<1>5. LoginInv'
  BY <1>1, <1>2 DEF Inv, LoginInv, Backed, Open, Loaded
<1> QED
  BY <1>3, <1>4, <1>5 DEF Inv

(* A sign-in that ends leaves the others as they are.                      *)
LEMMA AttemptClosed ==
  ASSUME Inv, NEW b \in Browser, attempt' = [attempt EXCEPT ![b] = NoAttempt]
  PROVE  /\ attempt' \in [Browser -> [open : BOOLEAN, row : LoginRow]]
         /\ \A o \in Browser : Open(o)' => o # b /\ Open(o) /\ Loaded(o)' = Loaded(o)
<1>1. NoAttempt \in [open : BOOLEAN, row : LoginRow]
  BY DEF NoAttempt, FreshRow, LoginRow
<1>2. ~attempt'[b].open /\ \A o \in Browser \ {b} : attempt'[o] = attempt[o]
  BY DEF Inv, TypeOK, NoAttempt
<1>3. attempt' \in [Browser -> [open : BOOLEAN, row : LoginRow]]
  BY <1>1 DEF Inv, TypeOK
<1> QED
  BY <1>2, <1>3 DEF Open, Loaded

(* Sums within the bound.                                                  *)
LEMMA Room ==
  ASSUME NEW m \in Nat, NEW n \in Nat, m + n <= MaxWrong
  PROVE  m \in 0 .. MaxWrong /\ n \in 0 .. (MaxWrong - m)
OBVIOUS

LEMMA Sooner ==
  ASSUME NEW k \in Nat, NEW l \in Nat, NEW m \in Nat, NEW n \in Nat,
         k + l < MaxWrong, m + n = k + l + 1
  PROVE  m + n <= MaxWrong
OBVIOUS

(* A failure of either kind: the loaded count is behind those so far, and  *)
(* a row that it locks has been locked for wrong passwords.                *)
LEMMA FailureInv ==
  ASSUME Inv, NEW b \in Browser, Open(b), LockIfNeeded(b),
         \/ wrong' = wrong + 1 /\ slipped' = slipped
         \/ wrong' = wrong /\ slipped' = slipped + 1 /\ Loaded(b).lock # "none",
         crossed' \in BOOLEAN,
         ~crossed' => ~crossed /\ login.failed = Loaded(b).failed
  PROVE  Inv'
<1> DEFINE row == Loaded(b)
           failed == row.failed + 1
<1>1. /\ wrong + slipped < MaxWrong
      /\ login' = [failed |-> failed, lock |-> IF Locks(failed) THEN "held" ELSE login.lock]
      /\ attempt' = [attempt EXCEPT ![b] = NoAttempt]
      /\ UNCHANGED <<environment, member, change, bound, session>>
  BY DEF LockIfNeeded
<1>2. /\ row \in LoginRow /\ login \in LoginRow /\ wrong \in Nat /\ slipped \in Nat
      /\ row.failed \in Nat /\ login.failed \in Nat
      /\ Backed(row) /\ Backed(login)
  BY DEF Inv, TypeOK, LoginInv, Loaded, LoginRow
<1>n. /\ wrong' \in Nat /\ slipped' \in Nat /\ wrong' >= wrong
      /\ wrong' + slipped' = wrong + slipped + 1
      /\ wrong' = wrong + 1 \/ row.lock # "none"
  BY <1>2
<1>r. wrong' + slipped' <= MaxWrong
  <2>1. wrong + slipped < MaxWrong /\ wrong \in Nat /\ slipped \in Nat
    BY <1>1, <1>2
  <2> QED
    BY <1>n, <2>1, Sooner
<1> HIDE DEF row
<1>3. /\ login'.failed = failed
      /\ login'.lock = IF Locks(failed) THEN "held" ELSE login.lock
      /\ login' \in LoginRow
  BY <1>1, <1>2 DEF LoginRow, Backed
<1>4. ChangeInv' /\ SessionInv'
  BY <1>1 DEF Inv, ChangeInv, SessionInv
<1>5. TypeOK'
  <2>1. wrong' \in 0 .. MaxWrong /\ slipped' \in 0 .. (MaxWrong - wrong')
    BY <1>n, <1>r, Room
  <2>2. attempt' \in [Browser -> [open : BOOLEAN, row : LoginRow]]
    BY <1>1, AttemptClosed
  <2> QED
    BY <1>1, <1>3, <2>1, <2>2 DEF Inv, TypeOK
<1>6. LoginInv'
  <2>1. Backed(login)'
    <3>1. login'.failed <= wrong' + slipped'
      BY <1>2, <1>3, <1>n DEF Backed
    <3>2. ASSUME wrong' = wrong + 1, Locks(failed) PROVE wrong' >= MAX_FAILED_LOGIN
      <4>1. CASE slipped # 0
        BY <1>2, <1>n, <4>1 DEF Inv, LoginInv
      <4>2. CASE slipped = 0
        BY <1>2, <3>2, <4>2 DEF Backed, Locks
      <4> QED
        BY <4>1, <4>2
    <3>3. row.lock # "none" => wrong' >= MAX_FAILED_LOGIN
      BY <1>2, <1>n DEF Backed
    <3>4. login.lock # "none" => wrong' >= MAX_FAILED_LOGIN
      BY <1>2, <1>n DEF Backed
    <3>5. login'.lock # "none" => wrong' >= MAX_FAILED_LOGIN
      <4>1. login'.lock # "none" => Locks(failed) \/ login.lock # "none"
        BY <1>3
      <4> QED
        BY <1>n, <3>2, <3>3, <3>4, <4>1
    <3> QED
      BY <3>1, <3>5 DEF Backed
  <2>2. ASSUME NEW o \in Browser, Open(o)' PROVE Backed(Loaded(o))'
    <3>1. Open(o) /\ Loaded(o)' = Loaded(o)
      BY <1>1, <2>2, AttemptClosed
    <3>2. Loaded(o).failed \in Nat /\ Backed(Loaded(o))
      BY <3>1 DEF Inv, TypeOK, LoginInv, Loaded, LoginRow
    <3> QED
      BY <1>2, <1>n, <3>1, <3>2 DEF Backed
  <2>3. ASSUME ~crossed'
        PROVE  /\ login'.failed = wrong' + slipped'
               /\ wrong' >= MAX_FAILED_LOGIN => login'.lock # "none"
    <3>1. row.failed = wrong + slipped
      BY <2>3 DEF Inv, LoginInv, row
    <3>2. login'.failed = wrong' + slipped'
      BY <1>2, <1>3, <1>n, <3>1
    <3>3. wrong' >= MAX_FAILED_LOGIN => Locks(failed)
      BY <1>2, <1>3, <1>n, <3>2 DEF Locks
    <3> QED
      BY <1>3, <3>2, <3>3
  <2>4. slipped' # 0 => wrong' >= MAX_FAILED_LOGIN
    <3>1. CASE slipped' = slipped
      BY <1>2, <1>n, <3>1 DEF Inv, LoginInv
    <3>2. CASE row.lock # "none"
      BY <1>2, <1>n, <3>2 DEF Backed
    <3> QED
      BY <1>2, <3>1, <3>2 DEF row
  <2> QED
    BY <2>1, <2>2, <2>3, <2>4 DEF LoginInv
<1> QED
  BY <1>4, <1>5, <1>6 DEF Inv

(* The two steps that count a failure.                                     *)
LEMMA WrongPasswordInv ==
  ASSUME Inv, NEW b \in Browser, WrongPassword(b) \/ CountUnverified(b)
  PROVE  Inv'
<1>1. CASE WrongPassword(b)
  BY <1>1, FailureInv DEF WrongPassword, Verifying
<1>2. CASE CountUnverified(b)
  BY <1>2, FailureInv DEF CountUnverified
<1> QED
  BY <1>1, <1>2

LEMMA DropLoginInv ==
  ASSUME Inv, NEW b \in Browser, DropLogin(b)
  PROVE  Inv'
<1>1. /\ attempt' = [attempt EXCEPT ![b] = NoAttempt]
      /\ UNCHANGED <<environment, member, change, login, bound, session, wrong, slipped, crossed>>
  BY DEF DropLogin
<1>2. TypeOK'
  BY <1>1, AttemptClosed DEF Inv, TypeOK
<1>3. ChangeInv' /\ SessionInv'
  BY <1>1 DEF Inv, ChangeInv, SessionInv
<1>4. LoginInv'
  BY <1>1, AttemptClosed DEF Inv, LoginInv, Backed
<1> QED
  BY <1>2, <1>3, <1>4 DEF Inv

LEMMA ExpireInv == ASSUME Inv, Expire PROVE Inv'
<1>1. /\ login.lock = "held" /\ login' = [login EXCEPT !.lock = "expired"]
      /\ UNCHANGED <<environment, member, change, bound, session, attempt, wrong, slipped, crossed>>
  BY DEF Expire
<1>2. login' \in LoginRow /\ login'.failed = login.failed /\ login'.lock = "expired"
  BY <1>1 DEF Inv, TypeOK, LoginRow
<1>3. TypeOK'
  BY <1>1, <1>2 DEF Inv, TypeOK
<1>4. ChangeInv' /\ SessionInv'
  BY <1>1 DEF Inv, ChangeInv, SessionInv
<1>5. LoginInv'
  BY <1>1, <1>2 DEF Inv, LoginInv, Backed, Open, Loaded
<1> QED
  BY <1>3, <1>4, <1>5 DEF Inv

(* The session a password opens: the platform's, or the environment's.     *)
LEMMA PasswordSession ==
  ASSUME Inv, NEW b \in Browser, NEW entry \in {"platform", "environment"},
         RightPassword(b, entry)
  PROVE  session' \in [Browser -> Session] /\ SessionInv'
<1>0. /\ session[b] \in Session /\ session[b].flow \in {"none", "login", "link"}
      /\ UNCHANGED member
  BY DEF Inv, TypeOK, Session, RightPassword
<1>1. CASE entry = "platform"
  <2> DEFINE s == [session[b] EXCEPT !.user = Local, !.env = FALSE, !.tenant = FALSE]
  <2>1. session' = [session EXCEPT ![b] = s]
    BY <1>1 DEF RightPassword
  <2>2. s \in Session /\ Own(s) /\ Seen(s, member)
    BY <1>0 DEF Session, Own, Seen
  <2> HIDE DEF s
  <2> QED
    BY <1>0, <2>1, <2>2, SessionKept
<1>2. CASE entry = "environment" /\ member[Local] # 0
  <2>1. session' = [session EXCEPT ![b] = Entered(Local, session[b].flow)]
    BY <1>2 DEF RightPassword
  <2>2. LET s == Entered(Local, session[b].flow)
        IN s \in Session /\ Own(s) /\ Seen(s, member)
    BY <1>0, EnteredSession DEF Inv
  <2> QED
    BY <1>0, <2>1, <2>2, SessionKept
<1>3. CASE entry = "environment" /\ member[Local] = 0
  <2> DEFINE s == [session[b] EXCEPT !.env = FALSE, !.tenant = FALSE]
  <2>1. session' = [session EXCEPT ![b] = s]
    BY <1>3 DEF RightPassword
  <2>2. s \in Session /\ Own(s) /\ Seen(s, member)
    BY <1>0 DEF Session, Own, Seen
  <2> HIDE DEF s
  <2> QED
    BY <1>0, <2>1, <2>2, SessionKept
<1> QED
  BY <1>1, <1>2, <1>3

(* The count starts again only for a sign-in that was alone.               *)
LEMMA RightPasswordInv ==
  ASSUME Inv, NEW b \in Browser, NEW entry \in {"platform", "environment"},
         RightPassword(b, entry)
  PROVE  Inv'
<1> DEFINE row == Loaded(b)
<1>1. /\ Open(b)
      /\ login' = Reset(row)
      /\ attempt' = [attempt EXCEPT ![b] = NoAttempt]
      /\ wrong' = (IF Clean(b) THEN 0 ELSE wrong)
      /\ slipped' = (IF Clean(b) THEN 0 ELSE slipped)
      /\ crossed' = ~Clean(b)
      /\ UNCHANGED <<environment, member, change, bound>>
  BY DEF RightPassword, Verifying
<1>2. /\ row \in LoginRow /\ login \in LoginRow
      /\ wrong \in 0 .. MaxWrong /\ slipped \in 0 .. (MaxWrong - wrong)
      /\ row.failed \in Nat /\ login.failed \in Nat
      /\ Backed(login)
  BY DEF Inv, TypeOK, LoginInv, Loaded, LoginRow
<1> HIDE DEF row
<1>3. /\ login'.failed = (IF row.failed = 0 THEN login.failed ELSE 0)
      /\ login'.lock = (IF row.lock = "none" THEN login.lock ELSE "none")
      /\ login' \in LoginRow
  BY <1>1, <1>2 DEF Reset, LoginRow
<1>4. ChangeInv'
  BY <1>1 DEF Inv, ChangeInv
<1>5. session' \in [Browser -> Session] /\ SessionInv'
  BY PasswordSession
<1>6. TypeOK'
  <2>1. wrong' \in 0 .. MaxWrong /\ slipped' \in 0 .. (MaxWrong - wrong')
    BY <1>1, <1>2
  <2>2. crossed' \in BOOLEAN
    BY <1>1
  <2>3. attempt' \in [Browser -> [open : BOOLEAN, row : LoginRow]]
    BY <1>1, AttemptClosed
  <2> QED
    BY <1>1, <1>3, <1>5, <2>1, <2>2, <2>3 DEF Inv, TypeOK
<1>7. LoginInv'
  <2>1. CASE Clean(b)
    <3>1. login = row /\ \A o \in Browser : Open(o) => o = b
      BY <2>1 DEF Clean, row
    <3>2. login'.failed = 0 /\ login'.lock = "none" /\ wrong' = 0 /\ slipped' = 0
      BY <1>1, <1>3, <2>1, <3>1
    <3>3. \A o \in Browser : ~Open(o)'
      BY <1>1, <3>1, AttemptClosed
    <3> QED
      BY <3>2, <3>3 DEF LoginInv, Backed
  <2>2. CASE ~Clean(b)
    <3>1. wrong' = wrong /\ slipped' = slipped /\ crossed'
      BY <1>1, <2>2
    <3>2. Backed(login)'
      BY <1>2, <1>3, <3>1 DEF Backed
    <3>3. ASSUME NEW o \in Browser, Open(o)' PROVE Backed(Loaded(o))'
      BY <1>1, <3>1, <3>3, AttemptClosed DEF Inv, LoginInv, Backed
    <3> QED
      BY <3>1, <3>2, <3>3 DEF Inv, LoginInv
  <2> QED
    BY <2>1, <2>2
<1> QED
  BY <1>4, <1>5, <1>6, <1>7 DEF Inv

-----------------------------------------------------------------------------
(* Steps that only write a session, and an identity's binding.             *)

LEMMA SessionStepInv ==
  ASSUME Inv, session' \in [Browser -> Session], SessionInv',
         bound' \in [Identity -> Principal \cup {Nobody}],
         UNCHANGED <<environment, member, change, login, attempt, wrong, slipped, crossed>>
  PROVE  Inv'
<1>1. TypeOK'
  BY DEF Inv, TypeOK
<1>2. ChangeInv' /\ LoginInv'
  BY DEF Inv, ChangeInv, LoginInv, Backed, Open, Loaded
<1> QED
  BY <1>1, <1>2 DEF Inv

LEMMA BeginEntraInv == ASSUME Inv, NEW b \in Browser, BeginEntra(b) PROVE Inv'
<1> DEFINE flow == IF SignedIn(b) THEN "link" ELSE "login"
           s == [session[b] EXCEPT !.flow = flow]
<1>1. /\ session' = [session EXCEPT ![b] = s]
      /\ UNCHANGED <<environment, member, change, login, bound, attempt, wrong, slipped, crossed>>
  BY DEF BeginEntra
<1>2. s \in Session /\ Own(s) /\ Seen(s, member)
  <2>1. flow \in {"none", "login", "link"}
    OBVIOUS
  <2> HIDE DEF flow
  <2> QED
    BY <2>1, FlowSession DEF Inv, TypeOK, SessionInv
<1> HIDE DEF s
<1>3. session' \in [Browser -> Session] /\ SessionInv'
  BY <1>1, <1>2, SessionKept
<1>4. bound' \in [Identity -> Principal \cup {Nobody}]
  BY <1>1 DEF Inv, TypeOK
<1> QED
  BY <1>1, <1>3, <1>4, SessionStepInv

LEMMA CallbackInv ==
  ASSUME Inv, NEW b \in Browser, NEW i \in Identity, Callback(b, i)
  PROVE  Inv'
<1> DEFINE used == [session[b] EXCEPT !.flow = "none"]
<1>1. UNCHANGED <<environment, member, change, login, attempt, wrong, slipped, crossed>>
  BY DEF Callback
<1>2. used \in Session /\ Own(used) /\ Seen(used, member)
  BY FlowSession DEF Inv, TypeOK, SessionInv
<1>3. \/ session' = [session EXCEPT ![b] = used] /\ UNCHANGED bound
      \/ /\ bound[i] # Nobody
         /\ session' = [session EXCEPT ![b] = Plain(bound[i], "none")]
         /\ UNCHANGED bound
      \/ /\ bound' = [bound EXCEPT ![i] = session[b].user]
         /\ session' = [session EXCEPT ![b] = used]
  BY DEF Callback, EntraSession
<1> HIDE DEF used
<1>4. bound' \in [Identity -> Principal \cup {Nobody}]
  <2>1. session[b].user \in Principal \cup {Nobody}
    BY DEF Inv, TypeOK, Session
  <2> QED
    BY <1>3, <2>1 DEF Inv, TypeOK
<1>5. CASE session' = [session EXCEPT ![b] = used]
  <2>1. session' \in [Browser -> Session] /\ SessionInv'
    BY <1>1, <1>2, <1>5, SessionKept
  <2> QED
    BY <1>1, <1>4, <2>1, SessionStepInv
<1>6. CASE session' = [session EXCEPT ![b] = Plain(bound[i], "none")]
  <2>1. LET s == Plain(bound[i], "none") IN s \in Session /\ Own(s) /\ Seen(s, member)
    BY PlainSession DEF Inv, TypeOK
  <2>2. session' \in [Browser -> Session] /\ SessionInv'
    BY <1>1, <1>6, <2>1, SessionKept
  <2> QED
    BY <1>1, <1>4, <2>2, SessionStepInv
<1> QED
  BY <1>3, <1>5, <1>6

LEMMA LogoutInv == ASSUME Inv, NEW b \in Browser, Logout(b) PROVE Inv'
<1> DEFINE s == Plain(Nobody, session[b].flow)
<1>1. /\ session' = [session EXCEPT ![b] = s]
      /\ UNCHANGED <<environment, member, change, login, bound, attempt, wrong, slipped, crossed>>
  BY DEF Logout
<1>2. s \in Session /\ Own(s) /\ Seen(s, member)
  <2>1. session[b].flow \in {"none", "login", "link"}
    BY DEF Inv, TypeOK, Session
  <2> QED
    BY <2>1, PlainSession
<1> HIDE DEF s
<1>3. session' \in [Browser -> Session] /\ SessionInv'
  BY <1>1, <1>2, SessionKept
<1>4. bound' \in [Identity -> Principal \cup {Nobody}]
  BY <1>1 DEF Inv, TypeOK
<1> QED
  BY <1>1, <1>3, <1>4, SessionStepInv

LEMMA SwitchEnvironmentInv ==
  ASSUME Inv, NEW b \in Browser, SwitchEnvironment(b)
  PROVE  Inv'
<1> DEFINE s == Entered(session[b].user, session[b].flow)
<1>1. /\ session' = [session EXCEPT ![b] = s]
      /\ SignedIn(b)
      /\ UNCHANGED <<environment, member, change, login, bound, attempt, wrong, slipped, crossed>>
  BY DEF SwitchEnvironment
<1>2. s \in Session /\ Own(s) /\ Seen(s, member)
  <2>1. session[b].flow \in {"none", "login", "link"} /\ session[b].user \in Principal
    BY <1>1 DEF Inv, TypeOK, Session, SignedIn
  <2> QED
    BY <2>1, EnteredSession DEF Inv
<1> HIDE DEF s
<1>3. session' \in [Browser -> Session] /\ SessionInv'
  BY <1>1, <1>2, SessionKept
<1>4. bound' \in [Identity -> Principal \cup {Nobody}]
  BY <1>1 DEF Inv, TypeOK
<1> QED
  BY <1>1, <1>3, <1>4, SessionStepInv

(* A refused request leaves no environment; an admitted one keeps its own. *)
LEMMA VisitInv == ASSUME Inv, NEW b \in Browser, Visit(b) PROVE Inv'
<1>1. /\ \/ session' = [session EXCEPT ![b] = [session[b] EXCEPT !.tenant = FALSE]]
         \/ session' = [session EXCEPT ![b] = Refused(session[b])]
      /\ UNCHANGED <<environment, member, change, login, bound, attempt, wrong, slipped, crossed>>
  BY DEF Visit
<1>2. session[b] \in Session /\ Own(session[b]) /\ Seen(session[b], member)
  BY DEF Inv, TypeOK, SessionInv
<1>3. LET s == [session[b] EXCEPT !.tenant = FALSE]
      IN s \in Session /\ Own(s) /\ Seen(s, member)
  BY <1>2 DEF Session, Own, Seen
<1>4. LET s == Refused(session[b]) IN s \in Session /\ Own(s) /\ Seen(s, member)
  <2> DEFINE s == Refused(session[b])
  <2> DEFINE seen == IF session[b].env /\ member[session[b].user] # 0 THEN 0
                     ELSE session[b].seen
  <2>1. seen \in Version
    BY <1>2 DEF Session, Version
  <2>2. s = [session[b] EXCEPT !.env = FALSE, !.tenant = FALSE, !.by = Nobody,
                               !.stale = FALSE, !.torn = FALSE, !.seen = seen]
    BY DEF Refused
  <2> HIDE DEF seen, s
  <2>3. s.env = FALSE /\ s.tenant = FALSE /\ s \in Session
    BY <1>2, <2>1, <2>2 DEF Session
  <2>4. Own(s) /\ Seen(s, member)
    BY <2>3 DEF Own, Seen
  <2> QED
    BY <2>3, <2>4 DEF s
<1>5. session' \in [Browser -> Session] /\ SessionInv'
  BY <1>1, <1>3, <1>4, SessionKept
<1>6. bound' \in [Identity -> Principal \cup {Nobody}]
  BY <1>1 DEF Inv, TypeOK
<1> QED
  BY <1>1, <1>5, <1>6, SessionStepInv

LEMMA SwitchTenantInv == ASSUME Inv, NEW b \in Browser, SwitchTenant(b) PROVE Inv'
<1> DEFINE s == [session[b] EXCEPT !.tenant = TRUE]
<1>1. /\ session' = [session EXCEPT ![b] = s]
      /\ session[b].env
      /\ UNCHANGED <<environment, member, change, login, bound, attempt, wrong, slipped, crossed>>
  BY DEF SwitchTenant, Admitted
<1>2. session[b] \in Session /\ Own(session[b]) /\ Seen(session[b], member)
  BY DEF Inv, TypeOK, SessionInv
<1>3. s \in Session /\ Own(s) /\ Seen(s, member)
  BY <1>1, <1>2 DEF Session, Own, Seen
<1> HIDE DEF s
<1>4. session' \in [Browser -> Session] /\ SessionInv'
  BY <1>1, <1>3, SessionKept
<1>5. bound' \in [Identity -> Principal \cup {Nobody}]
  BY <1>1 DEF Inv, TypeOK
<1> QED
  BY <1>1, <1>4, <1>5, SessionStepInv

LEMMA StepInv == Inv /\ [Next]_vars => Inv'
<1> SUFFICES ASSUME Inv, [Next]_vars PROVE Inv'
  OBVIOUS
<1>1. CASE CreateEnvironment \/ EnsureRoles \/ Expire
  BY <1>1, EnvironmentInv, ExpireInv
<1>2. ASSUME NEW c \in Change,
             \/ \E p \in Principal : FindMembership(c, p)
             \/ CommitMembership(c) \/ DropChange(c)
      PROVE  Inv'
  BY <1>2, FindMembershipInv, CommitMembershipInv, DropChangeInv
<1>3. ASSUME NEW b \in Browser,
             \/ BeginLogin(b) \/ WrongPassword(b) \/ CountUnverified(b) \/ DropLogin(b)
             \/ \E entry \in {"platform", "environment"} : RightPassword(b, entry)
      PROVE  Inv'
  BY <1>3, BeginLoginInv, WrongPasswordInv, DropLoginInv, RightPasswordInv
<1>4. ASSUME NEW b \in Browser,
             \/ BeginEntra(b) \/ Logout(b)
             \/ \E i \in Identity : Callback(b, i)
             \/ SwitchEnvironment(b) \/ SwitchTenant(b) \/ Visit(b)
      PROVE  Inv'
  BY <1>4, BeginEntraInv, LogoutInv, CallbackInv, SwitchEnvironmentInv, SwitchTenantInv,
     VisitInv
<1>5. CASE UNCHANGED vars
  BY <1>5 DEF vars, Inv, TypeOK, ChangeInv, SessionInv, LoginInv, Backed, Open, Loaded
<1> QED
  BY <1>1, <1>2, <1>3, <1>4, <1>5 DEF Next

THEOREM Invariant == Spec => []Inv
<1> QED
  BY InitInv, StepInv, PTL DEF Spec

-----------------------------------------------------------------------------
(* The theorems.                                                           *)

(* Every variable keeps its type: versions stay in their bound, and the    *)
(* failure count never passes the failures there were.                     *)
THEOREM TypeCorrect == Spec => []TypeOK
<1>1. Inv => TypeOK
  BY DEF Inv
<1> QED
  BY <1>1, Invariant, PTL

(* Passwords, Entra, links and log-outs in any order leave nobody in an    *)
(* environment or tenant that another user of the browser has entered.     *)
THEOREM OwnSession == Spec => []SessionIsOwn
<1>1. Inv => SessionIsOwn
  BY DEF Inv, SessionInv, Own, SessionIsOwn
<1> QED
  BY <1>1, Invariant, PTL

(* Membership versions invalidate the sessions that saw an older one,      *)
(* except after a change that was committed over one it had not read.      *)
THEOREM EffectiveChange == Spec => []ChangeIsEffective
<1>1. Inv => ChangeIsEffective
  <2> SUFFICES ASSUME Inv, NEW b \in Browser, Admitted(b), session[b].stale, ~session[b].torn
               PROVE  FALSE
    BY DEF ChangeIsEffective
  <2>1. /\ session[b].env /\ session[b].seen = member[session[b].user]
        /\ session[b].user \in Principal
    BY DEF Admitted, SignedIn, Inv, SessionInv, Own
  <2>2. session[b].seen < member[session[b].user]
    BY <2>1 DEF Inv, SessionInv, Seen
  <2>3. member[session[b].user] \in Nat
    BY <2>1 DEF Inv, TypeOK, Version
  <2> QED
    BY <2>1, <2>2, <2>3
<1> QED
  BY <1>1, Invariant, PTL

(* However sign-ins overlap on a row they do not lock, and however often a *)
(* lock passes while one of them looks at it: a lock-out has its wrong     *)
(* passwords, a count its failures, and all count where none overlap.      *)
THEOREM CountedFailures == Spec => []FailuresCounted
<1>1. Inv => FailuresCounted
  BY DEF Inv, LoginInv, Backed, FailuresCounted
<1> QED
  BY <1>1, Invariant, PTL

-----------------------------------------------------------------------------
(* What is left of the exceptions when nobody overlaps.                    *)

(* No two operators change one membership at once.                         *)
Apart ==
  \A c, d \in Change :
    /\ change[c] # NoChange /\ change[d] # NoChange
    /\ change[c].principal = change[d].principal
    => c = d

(* Then a change writes over what it has read.                             *)
Fresh(c) == change[c] # NoChange => change[c].version = member[change[c].principal]

Untorn == /\ \A c \in Change : Fresh(c)
          /\ \A b \in Browser : ~session[b].torn

LEMMA UntornSession ==
  ASSUME Inv, Untorn, NEW b \in Browser, NEW s, ~s.torn,
         session' = [session EXCEPT ![b] = s], UNCHANGED <<member, change>>
  PROVE  Untorn'
BY DEF Inv, TypeOK, Untorn, Fresh

LEMMA UntornStep == Inv /\ Apart /\ Untorn /\ [Next]_vars => Untorn'
<1> SUFFICES ASSUME Inv, Apart, Untorn, [Next]_vars PROVE Untorn'
  OBVIOUS
<1>a. /\ \A c \in Change : change[c] \in [principal : Principal \cup {Nobody}, version : Version]
      /\ \A b \in Browser : session[b] \in Session /\ ~session[b].torn
      /\ member \in [Principal -> Version]
      /\ change \in [Change -> [principal : Principal \cup {Nobody}, version : Version]]
  BY DEF Inv, TypeOK, Untorn
<1>1. ASSUME NEW c \in Change, NEW p \in Principal, FindMembership(c, p) PROVE Untorn'
  BY <1>a, <1>1 DEF FindMembership, Untorn, Fresh, Read
<1>2. ASSUME NEW c \in Change, CommitMembership(c) PROVE Untorn'
  <2> DEFINE p == change[c].principal
  <2>1. /\ change[c] # NoChange /\ p \in Principal /\ change[c].version = member[p]
        /\ change' = [change EXCEPT ![c] = NoChange]
    BY <1>2 DEF CommitMembership, Inv, ChangeInv, Untorn, Fresh
  <2>2. ~Duplicate(c)
    BY <2>1 DEF Duplicate
  <2>3. /\ member' = [member EXCEPT ![p] = NextVersion(change[c].version)]
        /\ session' = [b \in Browser |-> Outdated(session[b], p, member[p] # change[c].version)]
    BY <1>2, <2>2 DEF CommitMembership
  <2>4. ASSUME NEW d \in Change, change'[d] # NoChange
        PROVE  change'[d].version = member'[change'[d].principal]
    <3>1. d # c /\ change'[d] = change[d] /\ change[d].principal # p
      BY <1>a, <2>1, <2>4 DEF Apart
    <3>2. member'[change[d].principal] = member[change[d].principal]
      BY <1>a, <2>3, <3>1
    <3> QED
      BY <2>4, <3>1, <3>2 DEF Untorn, Fresh
  <2>5. ASSUME NEW b \in Browser PROVE ~session'[b].torn
    <3>1. session'[b] = Outdated(session[b], p, FALSE)
      BY <2>1, <2>3
    <3>2. session[b] \in Session /\ session[b].torn = FALSE
      BY <1>a DEF Session
    <3> QED
      BY <3>1, <3>2 DEF Outdated, Session
  <2> QED
    BY <2>4, <2>5 DEF Untorn, Fresh
<1>3. ASSUME NEW c \in Change, DropChange(c) PROVE Untorn'
  BY <1>a, <1>3 DEF DropChange, Untorn, Fresh
<1>5. ASSUME NEW b \in Browser, BeginEntra(b) PROVE Untorn'
  <2>1. PICK s : ~s.torn /\ session' = [session EXCEPT ![b] = s]
    <3>1. PICK flow : session' = [session EXCEPT ![b] = [session[b] EXCEPT !.flow = flow]]
      BY <1>5 DEF BeginEntra
    <3>2. ~[session[b] EXCEPT !.flow = flow].torn
      BY <1>a DEF Session
    <3> QED
      BY <3>1, <3>2
  <2> QED
    BY <1>5, <2>1, UntornSession DEF BeginEntra
<1>6. ASSUME NEW b \in Browser, Logout(b) PROVE Untorn'
  <2>1. ~Plain(Nobody, session[b].flow).torn
    BY DEF Plain
  <2>2. PICK s : ~s.torn /\ session' = [session EXCEPT ![b] = s]
    BY <1>6, <2>1 DEF Logout
  <2> QED
    BY <1>6, <2>2, UntornSession DEF Logout
<1>7. ASSUME NEW b \in Browser, SwitchEnvironment(b) PROVE Untorn'
  <2>1. ~Entered(session[b].user, session[b].flow).torn
    BY DEF Entered
  <2>2. PICK s : ~s.torn /\ session' = [session EXCEPT ![b] = s]
    BY <1>7, <2>1 DEF SwitchEnvironment
  <2> QED
    BY <1>7, <2>2, UntornSession DEF SwitchEnvironment
<1>8. ASSUME NEW b \in Browser, Visit(b) \/ SwitchTenant(b) PROVE Untorn'
  <2>1. PICK s : ~s.torn /\ session' = [session EXCEPT ![b] = s]
    <3>1. ~[session[b] EXCEPT !.tenant = FALSE].torn /\ ~[session[b] EXCEPT !.tenant = TRUE].torn
      BY <1>a DEF Session
    <3>2. ~Refused(session[b]).torn
      BY <1>a DEF Refused, Session
    <3> QED
      BY <1>8, <3>1, <3>2 DEF Visit, SwitchTenant
  <2> QED
    BY <1>8, <2>1, UntornSession DEF Visit, SwitchTenant
<1>9. ASSUME NEW b \in Browser, NEW entry \in {"platform", "environment"},
             RightPassword(b, entry)
      PROVE  Untorn'
  <2>1. PICK s : ~s.torn /\ session' = [session EXCEPT ![b] = s]
    <3>1. /\ ~[session[b] EXCEPT !.user = Local, !.env = FALSE, !.tenant = FALSE].torn
          /\ ~[session[b] EXCEPT !.env = FALSE, !.tenant = FALSE].torn
      BY <1>a DEF Session
    <3>2. ~Entered(Local, session[b].flow).torn
      BY DEF Entered
    <3> QED
      BY <1>9, <3>1, <3>2 DEF RightPassword
  <2> QED
    BY <1>9, <2>1, UntornSession DEF RightPassword
<1>10. ASSUME NEW b \in Browser, NEW i \in Identity, Callback(b, i) PROVE Untorn'
  <2>1. PICK s : ~s.torn /\ session' = [session EXCEPT ![b] = s]
    <3>1. ~[session[b] EXCEPT !.flow = "none"].torn
      BY <1>a DEF Session
    <3>2. ~EntraSession(b, bound[i]).torn
      BY DEF EntraSession, Plain
    <3> QED
      BY <1>10, <3>1, <3>2 DEF Callback
  <2> QED
    BY <1>10, <2>1, UntornSession DEF Callback
<1>11. CASE UNCHANGED <<member, change, session>>
  BY <1>11 DEF Untorn, Fresh
<1>12. ASSUME NEW b \in Browser,
              BeginLogin(b) \/ WrongPassword(b) \/ CountUnverified(b) \/ DropLogin(b)
       PROVE  Untorn'
  BY <1>11, <1>12 DEF BeginLogin, WrongPassword, CountUnverified, LockIfNeeded, DropLogin
<1>13. CASE CreateEnvironment \/ EnsureRoles \/ Expire \/ UNCHANGED vars
  BY <1>11, <1>13 DEF CreateEnvironment, EnsureRoles, Expire, vars
<1> QED
  BY <1>1, <1>2, <1>3, <1>5, <1>6, <1>7, <1>8, <1>9, <1>10, <1>12, <1>13 DEF Next

(* As long as no two changes of one membership overlap, every change is    *)
(* effective at the next request, without exception: the version read and  *)
(* written back is what ChangeIsEffective excuses, and all it excuses.     *)
THEOREM ApartChangesEffective ==
  Spec /\ []Apart => [](\A b \in Browser : Admitted(b) => ~session[b].stale)
<1>1. Init => Untorn
  BY DEF Init, Untorn, Fresh, Plain
<1>2. Untorn /\ ChangeIsEffective => \A b \in Browser : Admitted(b) => ~session[b].stale
  BY DEF Untorn, ChangeIsEffective
<1> QED
  BY <1>1, <1>2, UntornStep, Invariant, EffectiveChange, PTL DEF Spec

(* No two sign-ins of the account are open at once.                        *)
OneAtATime == \A a, b \in Browser : Open(a) /\ Open(b) => a = b

(* Then the row a sign-in has loaded is the row it writes, but for a lock  *)
(* that has passed since.                                                  *)
Uncrossed ==
  /\ ~crossed
  /\ \A b \in Browser : Open(b) =>
       /\ login.failed = Loaded(b).failed
       /\ Loaded(b).lock # "held" => login = Loaded(b)

LEMMA UncrossedStep == Inv /\ OneAtATime /\ Uncrossed /\ [Next]_vars => Uncrossed'
<1> SUFFICES ASSUME Inv, OneAtATime, Uncrossed, [Next]_vars PROVE Uncrossed'
  OBVIOUS
<1>a. attempt \in [Browser -> [open : BOOLEAN, row : LoginRow]]
  BY DEF Inv, TypeOK
<1>1. ASSUME NEW b \in Browser, BeginLogin(b) PROVE Uncrossed'
  BY <1>a, <1>1 DEF BeginLogin, OneAtATime, Uncrossed, Open, Loaded
<1>2. ASSUME NEW b \in Browser, Open(b), attempt' = [attempt EXCEPT ![b] = NoAttempt],
             ~crossed'
      PROVE  Uncrossed'
  BY <1>a, <1>2 DEF OneAtATime, Uncrossed, Open, NoAttempt
<1>3. ASSUME NEW b \in Browser, WrongPassword(b) \/ CountUnverified(b) PROVE Uncrossed'
  <2>1. Open(b) /\ ~crossed'
    BY <1>3 DEF WrongPassword, CountUnverified, Verifying, Uncrossed
  <2> QED
    BY <1>2, <1>3, <2>1 DEF WrongPassword, CountUnverified, LockIfNeeded
<1>4. ASSUME NEW b \in Browser, NEW entry \in {"platform", "environment"},
             RightPassword(b, entry)
      PROVE  Uncrossed'
  <2>1. Open(b) /\ Clean(b)
    BY <1>4 DEF RightPassword, Verifying, Clean, Uncrossed, OneAtATime
  <2> QED
    BY <1>2, <1>4, <2>1 DEF RightPassword
<1>5. ASSUME NEW b \in Browser, DropLogin(b) PROVE Uncrossed'
  BY <1>2, <1>5 DEF DropLogin, Uncrossed
<1>6. CASE Expire
  <2>1. login'.failed = login.failed /\ UNCHANGED <<attempt, crossed>>
    BY <1>6 DEF Expire, Inv, TypeOK, LoginRow
  <2> QED
    BY <1>6, <2>1 DEF Expire, Uncrossed, Open, Loaded
<1>7. CASE UNCHANGED <<login, attempt, crossed>>
  BY <1>7 DEF Uncrossed, Open, Loaded
<1> QED
  BY <1>1, <1>3, <1>4, <1>5, <1>6, <1>7
  DEF Next, vars, CreateEnvironment, EnsureRoles, FindMembership, CommitMembership,
      DropChange, BeginEntra, Logout, Callback, SwitchEnvironment, Visit, SwitchTenant

(* Without overlapping sign-ins no failure goes missing, through any number*)
(* of locks that pass: the count is the wrong passwords and those that     *)
(* slipped in since the last right one, none slip in before the limit is   *)
(* reached by wrong ones, and the account is locked exactly from there on. *)
THEOREM LoneSignInsExact ==
  Spec /\ []OneAtATime =>
    []( /\ login.failed = wrong + slipped
        /\ login.failed < MAX_FAILED_LOGIN => slipped = 0
        /\ login.lock # "none" <=> wrong >= MAX_FAILED_LOGIN )
<1>1. Init => Uncrossed
  BY DEF Init, Uncrossed, Open, NoAttempt
<1>2. Inv /\ Uncrossed =>
        /\ login.failed = wrong + slipped
        /\ login.failed < MAX_FAILED_LOGIN => slipped = 0
        /\ login.lock # "none" <=> wrong >= MAX_FAILED_LOGIN
  <2> SUFFICES ASSUME Inv, Uncrossed
               PROVE  /\ login.failed = wrong + slipped
                      /\ login.failed < MAX_FAILED_LOGIN => slipped = 0
                      /\ login.lock # "none" <=> wrong >= MAX_FAILED_LOGIN
    OBVIOUS
  <2>1. /\ login.failed = wrong + slipped
        /\ login.lock # "none" <=> wrong >= MAX_FAILED_LOGIN
        /\ slipped # 0 => wrong >= MAX_FAILED_LOGIN
    BY DEF Inv, LoginInv, Backed, Uncrossed
  <2>2. wrong \in Nat /\ slipped \in Nat
    BY DEF Inv, TypeOK
  <2> QED
    BY <2>1, <2>2
<1> QED
  BY <1>1, <1>2, UncrossedStep, Invariant, PTL DEF Spec
=============================================================================
