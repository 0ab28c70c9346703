------------------------------ MODULE Accounts ------------------------------
(***************************************************************************)
(* Registration, login, deletion of an account and the messages to the     *)
(* administrator (app/services/auth.py, app/api/v1/auth.py), with the two  *)
(* limits kept in memory.  A request tests its limit when it begins and    *)
(* records what it did when it ends, and others run in between.            *)
(***************************************************************************)
EXTENDS Integers, FiniteSets

CONSTANTS
  Visitors,          \* requests
  Emails, FoldedOf,  \* addresses as users write them, and in lower case
  Limit,             \* settings.rate_limit_attempts
  Window,            \* settings.rate_limit_window_seconds, in ticks
  Cooldown,          \* _UPGRADE_COOLDOWN_SECONDS, in ticks
  MaxUsers, MaxClock \* bounds

ASSUME AccountsAssumption ==
  /\ IsFiniteSet(Visitors) /\ Limit \in Nat /\ Window \in Nat /\ Cooldown \in Nat
  /\ MaxUsers \in Nat \ {0} /\ Emails # {}

VARIABLES
  users,     \* table users: [ids -> address]
  created,   \* ids given out
  attempts,  \* _login_attempts: [folded addresses -> failures [by, time]]
  mails,     \* [ids -> messages [by, time]]; _upgrade_cooldowns keeps the last time
  visit,     \* [Visitors -> what the request is about]
  now,
  peak       \* history: the most requests that were past a limit together

accountVars == <<users, created, attempts, mails, visit, now, peak>>

Keys == {FoldedOf[e] : e \in Emails}
Recent(events, span) == {e \in events : e.time > now - span}
Event(v) == [by |-> v, time |-> now]

LoggingIn(k) == {v \in Visitors : visit[v].at = "verifying" /\ FoldedOf[visit[v].email] = k}
Mailing(u) == {v \in Visitors : visit[v].at = "mailing" /\ visit[v].user = u}
Raised(n, size) == IF size > n THEN size ELSE n

Is(v, place) == visit[v].at = place
Leaves(v) == visit' = [visit EXCEPT ![v] = [at |-> "over"]]

-----------------------------------------------------------------------------
(* POST /auth/register                                                     *)

Taken(email) == \E u \in DOMAIN users : users[u] = email

(* The lookup; an address that exists is refused with 409.                 *)
Register(v, email) ==
  /\ Is(v, "idle")
  /\ visit' = [visit EXCEPT ![v] = IF Taken(email) THEN [at |-> "over"]
                                   ELSE [at |-> "registering", email |-> email]]
  /\ UNCHANGED <<users, created, attempts, mails, now, peak>>

(* INSERT and commit: the unique index refuses an address that another     *)
(* request registered since the lookup.                                    *)
Insert(v) ==
  /\ Is(v, "registering") /\ created < MaxUsers
  /\ IF Taken(visit[v].email) THEN UNCHANGED <<users, created>>
     ELSE /\ created' = created + 1
          /\ users' = [u \in DOMAIN users \union {created'} |->
                         IF u = created' THEN visit[v].email ELSE users[u]]
  /\ Leaves(v)
  /\ UNCHANGED <<attempts, mails, now, peak>>

-----------------------------------------------------------------------------
(* POST /auth/login                                                        *)

(* Mutant of MayTry: one attempt more.                                     *)
MayTryOnceMore(failures) == Cardinality(failures) <= Limit

MayTry(failures) == Cardinality(failures) < Limit

(* check_login_rate_limit purges what left the window, then counts.        *)
Login(v, email, right) ==
  /\ Is(v, "idle")
  /\ LET k == FoldedOf[email]
         recent == Recent(attempts[k], Window)
     IN /\ attempts' = [attempts EXCEPT ![k] = recent]
        /\ IF MayTry(recent)
           THEN /\ visit' = [visit EXCEPT ![v] = [at |-> "verifying", email |-> email, right |-> right]]
                /\ peak' = [peak EXCEPT !.login[k] = Raised(@, Cardinality(LoggingIn(k)) + 1)]
           ELSE Leaves(v) /\ UNCHANGED peak
  /\ UNCHANGED <<users, created, mails, now>>

(* The lookup answers: a failure is recorded, a success forgets them all.  *)
Verify(v) ==
  /\ Is(v, "verifying")
  /\ LET k == FoldedOf[visit[v].email] IN
     attempts' = [attempts EXCEPT ![k] =
       IF Taken(visit[v].email) /\ visit[v].right THEN {} ELSE @ \union {Event(v)}]
  /\ Leaves(v)
  /\ UNCHANGED <<users, created, mails, now, peak>>

-----------------------------------------------------------------------------
(* Requests with a token, which stays valid when its user is gone          *)

(* DELETE /auth/account: a wrong password is refused and not counted.      *)
DeleteAccount(v, u, right) ==
  /\ Is(v, "idle")
  /\ users' = IF right THEN [w \in DOMAIN users \ {u} |-> users[w]] ELSE users
  /\ Leaves(v)
  /\ UNCHANGED <<created, attempts, mails, now, peak>>

CoolingDown(u) == Recent(mails[u], Cooldown) # {}

(* POST /auth/upgrade and /auth/donate: 429, or on to the user and e-mail. *)
Message(v, u) ==
  /\ Is(v, "idle")
  /\ IF CoolingDown(u) THEN Leaves(v) /\ UNCHANGED peak
     ELSE /\ visit' = [visit EXCEPT ![v] = [at |-> "mailing", user |-> u]]
          /\ peak' = [peak EXCEPT !.mail[u] = Raised(@, Cardinality(Mailing(u)) + 1)]
  /\ UNCHANGED <<users, created, attempts, mails, now>>

(* The message is sent or fails to be, which counts as well; there is none *)
(* when the user is gone.                                                  *)
SendMessage(v) ==
  /\ Is(v, "mailing")
  /\ LET u == visit[v].user IN
     mails' = IF u \in DOMAIN users THEN [mails EXCEPT ![u] = @ \union {Event(v)}] ELSE mails
  /\ Leaves(v)
  /\ UNCHANGED <<users, created, attempts, now, peak>>

Elapse ==
  /\ now < MaxClock /\ now' = now + 1
  /\ UNCHANGED <<users, created, attempts, mails, visit, peak>>

AccountInit ==
  /\ users = [u \in {1} |-> CHOOSE e \in Emails : TRUE] /\ created = 1
  /\ attempts = [k \in Keys |-> {}] /\ mails = [u \in 1 .. MaxUsers |-> {}]
  /\ visit = [v \in Visitors |-> [at |-> "idle"]] /\ now = 0
  /\ peak = [login |-> [k \in Keys |-> 0], mail |-> [u \in 1 .. MaxUsers |-> 0]]

AccountNext ==
  \/ \E v \in Visitors : Insert(v) \/ Verify(v) \/ SendMessage(v)
  \/ \E v \in Visitors, e \in Emails, right \in BOOLEAN : Register(v, e) \/ Login(v, e, right)
  \/ \E v \in Visitors, u \in 1 .. created, right \in BOOLEAN : DeleteAccount(v, u, right)
  \/ \E v \in Visitors, u \in 1 .. created : Message(v, u)
  \/ Elapse

AccountSpec == AccountInit /\ [][AccountNext]_accountVars

-----------------------------------------------------------------------------
(* Properties                                                              *)

(* "Too many failed attempts in the window": requests that overlap pass    *)
(* the test together, so what a window holds exceeds the limit by as many  *)
(* as were past the test at once, less one, and never by more; likewise    *)
(* for the messages of one cooldown.  An address has one account.          *)
LimitsHold ==
  /\ \A k \in Keys :
       Cardinality(Recent(attempts[k], Window)) + Cardinality(LoggingIn(k)) <= Limit - 1 + Raised(1, peak.login[k])
  /\ \A u \in 1 .. created :
       Cardinality(Recent(mails[u], Cooldown)) + Cardinality(Mailing(u)) <= Raised(1, peak.mail[u])
  /\ \A u, w \in DOMAIN users : users[u] = users[w] => u = w
=============================================================================
