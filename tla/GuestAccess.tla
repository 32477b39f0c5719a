---------------------------- MODULE GuestAccess ----------------------------
(***************************************************************************)
(* Accounts without registration: guest and developer logins, sessions     *)
(* whose expiry slides, the guests' budgets, their projects, and the       *)
(* nightly purge of old guest orgs.                                        *)
(*                                                                         *)
(* An account is one org with its one user.  Account 0 is the developers'  *)
(* shared account; the others are guests, one for each guest login that    *)
(* the limiter let pass.  A login makes org, user and session in three     *)
(* transactions.  Every request comes from one address: the limiter keeps  *)
(* a window of its own for each.  The magic-link endpoints answer 404, so  *)
(* nothing makes or consumes a link.                                       *)
(***************************************************************************)
EXTENDS Integers, FiniteSets, Sequences

CONSTANTS
  Browser,        \* cookie jars
  Tab,            \* each has one request under way
  JarOf,          \* whose cookies a tab sends
  Feature,        \* what is metered: "address", "chat"
  Displayed,      \* the limit of each feature that guests are shown
  FactorPercent,  \* guest_quota_factor, in percent
  SessionTTL, Retention, Window,   \* 30 days, 14 days, 1 hour
  LoginLimit,     \* guest logins of one address in a Window
  MaxClock,       \* bound: ticks
  MaxGuests,      \* bound: guest accounts
  MaxSessions,    \* bound: sessions
  MaxRequests,    \* bound: requests
  MaxRestarts     \* bound: restarts of the process

ASSUME ActorsAssumption == IsFiniteSet(Tab) /\ JarOf \in [Tab -> Browser]
ASSUME BudgetAssumption ==
  /\ Feature \subseteq {"address", "chat"}
  /\ Displayed \in [Feature -> Nat] /\ FactorPercent \in Nat
ASSUME TimesAssumption ==
  SessionTTL \in Nat \ {0} /\ Retention \in Nat /\ Window \in Nat \ {0}
ASSUME BoundsAssumption ==
  /\ LoginLimit \in Nat /\ MaxClock \in Nat /\ MaxGuests \in Nat
  /\ MaxSessions \in Nat /\ MaxRequests \in Nat /\ MaxRestarts \in Nat

VARIABLES
  clock,
  orgAt,      \* orgs.created_at of each account (None: no such row)
  user,       \* accounts with a users row
  used,       \* guest_usage.used (None: no such row)
  projects,   \* number of projects rows of each account
  session,    \* sessions rows, in the order of their making
  window,     \* _guest_session_window of the address: <<time, number>>
  cookie,     \* what each browser holds
  req,        \* the request of each tab
  opened,     \* guest accounts opened so far
  granted,    \* history: metered requests let through
  requests, restarts

vars == <<clock, orgAt, user, used, projects, session, window, cookie, req,
          opened, granted, requests, restarts>>

Dev == 0
Guest == 1 .. MaxGuests
Account == Guest \cup {Dev}
None == -1   \* no such row
Clock == 0 .. MaxClock
Time == 0 .. MaxClock + SessionTTL
NoSession == 0
SessionId == 1 .. MaxSessions

Row == [account: Account, expires: Time, revoked: BOOLEAN, live: BOOLEAN]
Cookie == [token: SessionId \cup {NoSession}, until: Time]
NoCookie == [token |-> NoSession, until |-> 0]

Op == {"guest", "dev", "session", "logout", "address", "chat"}
Stage == {"start", "read", "limited", "org", "finduser", "user", "login",
          "admitted", "charged"}
Request == [stage: Stage, op: Op, token: SessionId \cup {NoSession},
            account: Account, late: BOOLEAN]
Idle == [stage |-> "idle", op |-> "session", token |-> NoSession,
         account |-> Dev, late |-> FALSE]

TypeOK ==
  /\ clock \in Clock
  /\ orgAt \in [Account -> Clock \cup {None}]
  /\ user \subseteq Account
  /\ used \in [Account -> [Feature -> Nat \cup {None}]]
  /\ projects \in [Account -> Nat]
  /\ session \in Seq(Row) /\ Len(session) <= MaxSessions
  /\ window \subseteq Clock \X Nat /\ IsFiniteSet(window)
  /\ cookie \in [Browser -> Cookie]
  /\ req \in [Tab -> Request \cup {Idle}]
  /\ opened \in 0 .. MaxGuests
  /\ granted \in [Account -> [Feature -> Nat]]
  /\ requests \in 0 .. MaxRequests
  /\ restarts \in 0 .. MaxRestarts

Init ==
  /\ clock = 0
  /\ orgAt = [a \in Account |-> None]
  /\ user = {}
  /\ used = [a \in Account |-> [f \in Feature |-> None]]
  /\ projects = [a \in Account |-> 0]
  /\ session = <<>>
  /\ window = {}
  /\ cookie = [b \in Browser |-> NoCookie]
  /\ req = [t \in Tab |-> Idle]
  /\ opened = 0
  /\ granted = [a \in Account |-> [f \in Feature |-> 0]]
  /\ requests = 0
  /\ restarts = 0

-----------------------------------------------------------------------------
rows == <<orgAt, user, used, projects>>

\* enforced_limit: ceil(displayed * factor).
EnforcedLimit(f) == (Displayed[f] * FactorPercent + 99) \div 100

\* A browser drops a cookie at its max_age, which sliding does not extend.
Sent(t) ==
  IF clock < cookie[JarOf[t]].until THEN cookie[JarOf[t]].token ELSE NoSession

LoggedOut(token) == token # NoSession /\ session[token].revoked

Begin(t, op) ==
  /\ req[t] = Idle
  /\ requests < MaxRequests
  /\ requests' = requests + 1
  /\ req' = [req EXCEPT ![t] = [stage |-> "start", op |-> op, token |-> Sent(t),
                               account |-> Dev, late |-> LoggedOut(Sent(t))]]
  /\ UNCHANGED <<clock, rows, session, window, cookie, opened, granted, restarts>>

\* The request is over, whatever it answers.
Ends(t) == req' = [req EXCEPT ![t] = Idle]
MovesTo(t, stage) == req' = [req EXCEPT ![t].stage = stage]

-----------------------------------------------------------------------------
\* get_session.  is_expired: expires_at <= now.
Valid(token) ==
  /\ token # NoSession
  /\ session[token].live /\ ~session[token].revoked
  /\ session[token].expires > clock
  /\ session[token].account \in user

ReadSession(t) ==
  /\ req[t].stage = "start" /\ req[t].op \notin {"dev", "logout"}
  /\ Valid(req[t].token)
  /\ MovesTo(t, "read")
  /\ UNCHANGED <<clock, rows, session, window, cookie, opened, granted, requests, restarts>>

\* get_current_session answers 401.
NotAuthenticated(t) ==
  /\ req[t].stage = "start" /\ req[t].op \in Feature \cup {"session"}
  /\ ~Valid(req[t].token)
  /\ Ends(t)
  /\ UNCHANGED <<clock, rows, session, window, cookie, opened, granted, requests, restarts>>

\* Mutated form: the row is written back as it was read.
SlidWholeRow(token) ==
  [session EXCEPT ![token] = [@ EXCEPT !.expires = clock + SessionTTL, !.revoked = FALSE]]

\* The update writes last_seen_at and expires_at only.
Slid(token) == [session EXCEPT ![token] = [@ EXCEPT !.expires = clock + SessionTTL]]

\* A row deleted since it was read: the update fails, and the request.
SlideSession(t) ==
  LET s == req[t].token IN
  /\ req[t].stage = "read"
  /\ IF session[s].live
     THEN /\ session' = Slid(s)
          /\ IF req[t].op \in {"guest", "session"} THEN Ends(t)
             ELSE req' = [req EXCEPT ![t] = [@ EXCEPT !.stage = "admitted",
                                                      !.account = session[s].account]]
     ELSE Ends(t) /\ session' = session
  /\ UNCHANGED <<clock, rows, window, cookie, opened, granted, requests, restarts>>

-----------------------------------------------------------------------------
\* _guest_session_allowed.
Recent == {login \in window : login[1] + Window > clock}

GuestAllowed(t) ==
  /\ req[t].stage = "start" /\ req[t].op = "guest"
  /\ ~Valid(req[t].token)
  /\ IF Cardinality(Recent) < LoginLimit
     THEN window' = Recent \cup {<<clock, Cardinality(Recent)>>} /\ MovesTo(t, "limited")
     ELSE window' = Recent /\ Ends(t)
  /\ UNCHANGED <<clock, rows, session, cookie, opened, granted, requests, restarts>>

\* get_or_create_org of a fresh slug.
MakeGuestOrg(t) ==
  /\ req[t].stage = "limited" /\ opened < MaxGuests
  /\ opened' = opened + 1
  /\ orgAt' = [orgAt EXCEPT ![opened + 1] = clock]
  /\ req' = [req EXCEPT ![t] = [@ EXCEPT !.stage = "user", !.account = opened + 1]]
  /\ UNCHANGED <<clock, user, used, projects, session, window, cookie, granted,
                 requests, restarts>>

\* dev_login looks the shared org up, then its user; each is inserted only
\* when it was not there ...
FindDevOrg(t) ==
  /\ req[t].stage = "start" /\ req[t].op = "dev"
  /\ MovesTo(t, IF orgAt[Dev] = None THEN "org" ELSE "finduser")
  /\ UNCHANGED <<clock, rows, session, window, cookie, opened, granted, requests, restarts>>

FindDevUser(t) ==
  /\ req[t].stage = "finduser"
  /\ MovesTo(t, IF Dev \in user THEN "login" ELSE "user")
  /\ UNCHANGED <<clock, rows, session, window, cookie, opened, granted, requests, restarts>>

\* ... and the insert fails when another login was faster (slug is unique).
MakeDevOrg(t) ==
  /\ req[t].stage = "org"
  /\ IF orgAt[Dev] = None
     THEN orgAt' = [orgAt EXCEPT ![Dev] = clock] /\ MovesTo(t, "finduser")
     ELSE orgAt' = orgAt /\ Ends(t)
  /\ UNCHANGED <<clock, user, used, projects, session, window, cookie, opened,
                 granted, requests, restarts>>

\* A user needs its org, and is one of its kind (uq_users_org_email).
MakeUser(t) ==
  LET a == req[t].account IN
  /\ req[t].stage = "user"
  /\ IF orgAt[a] # None /\ a \notin user
     THEN user' = user \cup {a} /\ MovesTo(t, "login")
     ELSE user' = user /\ Ends(t)
  /\ UNCHANGED <<clock, orgAt, used, projects, session, window, cookie, opened,
                 granted, requests, restarts>>

NewSession(a) ==
  [account |-> a, expires |-> clock + SessionTTL, revoked |-> FALSE, live |-> TRUE]

\* create_session and the answer that sets the cookie, if it arrives.
MakeSession(t) ==
  LET a == req[t].account IN
  /\ req[t].stage = "login" /\ Len(session) < MaxSessions
  /\ IF a \in user
     THEN /\ session' = Append(session, NewSession(a))
          /\ cookie' \in {cookie, [cookie EXCEPT ![JarOf[t]] =
                            [token |-> Len(session) + 1, until |-> clock + SessionTTL]]}
     ELSE UNCHANGED <<session, cookie>>
  /\ Ends(t)
  /\ UNCHANGED <<clock, rows, window, opened, granted, requests, restarts>>

-----------------------------------------------------------------------------
\* Mutated form: a missing row is made whether or not its user is there.
Insertable1(a, f) == TRUE

\* The insert on conflict do nothing: a new row needs its user.
Insertable(a, f) == used[a][f] # None \/ a \in user

Counted(a, f) == IF used[a][f] = None THEN 0 ELSE used[a][f]

\* increment_and_check: one transaction, insert then conditional update.
Charge(t) ==
  LET a == req[t].account
      f == req[t].op
  IN
  /\ req[t].stage = "admitted" /\ a \in Guest
  /\ IF ~Insertable(a, f)
     THEN Ends(t) /\ UNCHANGED <<used, granted>>
     ELSE IF Counted(a, f) < EnforcedLimit(f)
     THEN /\ used' = [used EXCEPT ![a][f] = Counted(a, f) + 1]
          /\ granted' = [granted EXCEPT ![a][f] = @ + 1]
          /\ MovesTo(t, "charged")
     ELSE /\ used' = [used EXCEPT ![a][f] = Counted(a, f)]
          /\ Ends(t) /\ granted' = granted
  /\ UNCHANGED <<clock, orgAt, user, projects, session, window, cookie, opened,
                 requests, restarts>>

\* Only guests are metered.
Pass(t) ==
  /\ req[t].stage = "admitted" /\ req[t].account = Dev
  /\ MovesTo(t, "charged")
  /\ UNCHANGED <<clock, rows, session, window, cookie, opened, granted, requests, restarts>>

\* The work that was charged for, or its failure: a project needs its org;
\* an answer writes nothing here.
Work(t) ==
  LET a == req[t].account IN
  /\ req[t].stage = "charged"
  /\ \/ projects' = projects
     \/ /\ req[t].op = "address" /\ orgAt[a] # None
        /\ projects' = [projects EXCEPT ![a] = @ + 1]
  /\ Ends(t)
  /\ UNCHANGED <<clock, orgAt, user, used, session, window, cookie, opened,
                 granted, requests, restarts>>

-----------------------------------------------------------------------------
\* revoke_session; the answer clears the cookie, if it arrives.
Logout(t) ==
  LET s == req[t].token IN
  /\ req[t].stage = "start" /\ req[t].op = "logout"
  /\ session' = IF s # NoSession /\ session[s].live
                THEN [session EXCEPT ![s] = [@ EXCEPT !.revoked = TRUE]] ELSE session
  /\ cookie' \in {cookie, [cookie EXCEPT ![JarOf[t]] = NoCookie]}
  /\ Ends(t)
  /\ UNCHANGED <<clock, rows, window, opened, granted, requests, restarts>>

Old == {a \in Guest : orgAt[a] # None /\ orgAt[a] + Retention < clock}

\* Mutated form: the users keep their usage rows.
UsageAfterPurge1 == used

\* Deleting the org cascades to everything of the account.
UsageAfterPurge ==
  [a \in Account |-> IF a \in Old THEN [f \in Feature |-> None] ELSE used[a]]

PurgeGuestOrgs ==
  /\ Old # {}
  /\ orgAt' = [a \in Account |-> IF a \in Old THEN None ELSE orgAt[a]]
  /\ user' = user \ Old
  /\ used' = UsageAfterPurge
  /\ projects' = [a \in Account |-> IF a \in Old THEN 0 ELSE projects[a]]
  /\ session' = [s \in DOMAIN session |->
                   [session[s] EXCEPT !.live = @ /\ session[s].account \notin Old]]
  /\ UNCHANGED <<clock, window, cookie, req, opened, granted, requests, restarts>>

Tick ==
  /\ clock < MaxClock
  /\ clock' = clock + 1
  /\ UNCHANGED <<rows, session, window, cookie, req, opened, granted, requests, restarts>>

\* The limiter's window is lost with the process.
Restart ==
  /\ restarts < MaxRestarts
  /\ restarts' = restarts + 1
  /\ window' = {}
  /\ req' = [t \in Tab |-> Idle]
  /\ UNCHANGED <<clock, rows, session, cookie, opened, granted, requests>>

-----------------------------------------------------------------------------
Session(t) == ReadSession(t) \/ NotAuthenticated(t) \/ SlideSession(t) \/ Logout(t)
GuestLogin(t) == GuestAllowed(t) \/ MakeGuestOrg(t)
DevLogin(t) == FindDevOrg(t) \/ FindDevUser(t) \/ MakeDevOrg(t)
Metered(t) == Charge(t) \/ Pass(t) \/ Work(t)

Handle(t) ==
  \/ \E op \in Op \ ({"address", "chat"} \ Feature) : Begin(t, op)
  \/ Session(t)
  \/ GuestLogin(t)
  \/ DevLogin(t)
  \/ MakeUser(t)
  \/ MakeSession(t)
  \/ Metered(t)

Next ==
  \/ \E t \in Tab : Handle(t)
  \/ PurgeGuestOrgs
  \/ Tick
  \/ Restart

Spec == Init /\ [][Next]_vars

-----------------------------------------------------------------------------
\* A guest is let through no more often than the enforced limit, however its
\* requests race each other and the purge, which deletes the counter.
GrantsWithinLimit ==
  \A a \in Guest, f \in Feature : granted[a][f] <= EnforcedLimit(f)

\* Sessions, budgets and projects belong to accounts that are there: a purge
\* leaves nothing behind, and nothing is added after it by the requests it
\* overtakes.
NoOrphans ==
  /\ \A a \in user : orgAt[a] # None
  /\ \A s \in DOMAIN session : session[s].live => session[s].account \in user
  /\ \A a \in Account, f \in Feature : used[a][f] # None => a \in user
  /\ \A a \in Account : projects[a] > 0 => orgAt[a] # None

\* A request that begins after its session was logged out is never let in,
\* not even when another request of the session was under way at the time.
LoggedOutStaysOut ==
  \A t \in Tab : req[t].late => req[t].stage \notin {"admitted", "charged"}
=============================================================================
