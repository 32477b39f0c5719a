------------------------- MODULE GuestAccessProofs -------------------------
(***************************************************************************)
(* Theorems of the guest accounts: their rows are never orphaned, no guest *)
(* is let through more often than its budget, and a session that was       *)
(* logged out stays out, for any number of tabs, guests and sessions.      *)
(*                                                                         *)
(* The budget needs more than its counter, which a purge deletes: an org   *)
(* is made once, so an account that has an org and no user yet was never   *)
(* let through, and without a user no new counter can be inserted.         *)
(***************************************************************************)
EXTENDS GuestAccess, FiniteSetTheorems, TLAPS

RowsTyped ==
  /\ orgAt \in [Account -> Clock \cup {None}]
  /\ user \subseteq Account
  /\ used \in [Account -> [Feature -> Nat \cup {None}]]
  /\ projects \in [Account -> Nat]
  /\ granted \in [Account -> [Feature -> Nat]]
  /\ opened \in 0 .. MaxGuests

SessionsTyped == session \in Seq(Row) /\ Len(session) <= MaxSessions

BoundsTyped ==
  /\ clock \in Clock
  /\ window \subseteq Clock \X Nat /\ IsFiniteSet(window)
  /\ requests \in 0 .. MaxRequests
  /\ restarts \in 0 .. MaxRestarts

CookiesOK ==
  /\ cookie \in [Browser -> Cookie]
  /\ \A b \in Browser : cookie[b].token <= Len(session)

\* What holds of one request.
LetIn == {"admitted", "charged"}
RequestOK(r) ==
  /\ r \in Request \cup {Idle}
  /\ r.token <= Len(session)
  /\ r.op \in {"guest", "dev", "session", "logout"} \cup Feature
  /\ r.stage = "read" => r.op \notin {"dev", "logout"} /\ r.token # NoSession
  /\ r.stage \in LetIn => r.op \in Feature
  /\ r.late => /\ r.token # NoSession /\ session[r.token].revoked
               /\ r.stage \notin LetIn \cup {"read"}

RequestsOK == req \in [Tab -> Request \cup {Idle}] /\ \A t \in Tab : RequestOK(req[t])

\* An account has its org before its user and its user before its counter;
\* the counter is what was granted.
Unopened == \A a \in Guest : a > opened => orgAt[a] = None
Budgets ==
  \A a \in Guest, f \in Feature :
    /\ a > opened => granted[a][f] = 0
    /\ orgAt[a] # None /\ a \notin user => granted[a][f] = 0
    /\ a \in user /\ used[a][f] = None => granted[a][f] = 0
    /\ used[a][f] # None => granted[a][f] = used[a][f]

UsersHaveOrgs == \A a \in user : orgAt[a] # None
SessionsHaveUsers == \A s \in DOMAIN session : session[s].live => session[s].account \in user
CountersHaveUsers == \A a \in Account, f \in Feature : used[a][f] # None => a \in user
ProjectsHaveOrgs == \A a \in Account : projects[a] > 0 => orgAt[a] # None

RowsInv ==
  /\ RowsTyped /\ Unopened /\ Budgets /\ UsersHaveOrgs /\ CountersHaveUsers /\ ProjectsHaveOrgs
  /\ GrantsWithinLimit

IInv ==
  /\ RowsTyped /\ SessionsTyped /\ BoundsTyped /\ CookiesOK /\ RequestsOK
  /\ Unopened /\ Budgets /\ UsersHaveOrgs /\ SessionsHaveUsers /\ CountersHaveUsers
  /\ ProjectsHaveOrgs /\ GrantsWithinLimit

USE ActorsAssumption, BudgetAssumption, TimesAssumption, BoundsAssumption

-----------------------------------------------------------------------------
LEMMA Limits == \A f \in Feature : EnforcedLimit(f) \in Nat
  BY DEF EnforcedLimit

LEMMA InitInv == Init => IInv
<1> SUFFICES ASSUME Init PROVE IInv
  OBVIOUS
<1>1. RowsTyped /\ BoundsTyped
  BY FS_EmptySet DEF Init, RowsTyped, BoundsTyped, Clock, None
<1>2. SessionsTyped /\ SessionsHaveUsers
  BY DEF Init, SessionsTyped, SessionsHaveUsers
<1>3. CookiesOK
  BY DEF Init, CookiesOK, Cookie, NoCookie, NoSession, Time
<1>4. RequestsOK
  BY DEF Init, RequestsOK, RequestOK, Idle, NoSession, LetIn
<1>5. Unopened /\ Budgets /\ UsersHaveOrgs /\ CountersHaveUsers /\ ProjectsHaveOrgs
  BY DEF Init, Unopened, Budgets, UsersHaveOrgs, CountersHaveUsers, ProjectsHaveOrgs, Guest, Account
<1>6. GrantsWithinLimit
  BY Limits DEF Init, GrantsWithinLimit, Account
<1> QED
  BY <1>1, <1>2, <1>3, <1>4, <1>5, <1>6 DEF IInv

-----------------------------------------------------------------------------
\* Sessions that are only added, slid, revoked or purged keep what a request
\* relies on.
Grown ==
  /\ Len(session) <= Len(session')
  /\ \A s \in DOMAIN session : session[s].revoked => session'[s].revoked

LEMMA RequestStep ==
  ASSUME IInv, Grown, SessionsTyped', NEW t \in Tab, NEW r,
         req' = [req EXCEPT ![t] = r],
         /\ r \in Request \cup {Idle}
         /\ r.token <= Len(session')
         /\ r.op \in {"guest", "dev", "session", "logout"} \cup Feature
         /\ r.stage = "read" => r.op \notin {"dev", "logout"} /\ r.token # NoSession
         /\ r.stage \in LetIn => r.op \in Feature
         /\ r.late => /\ r.token # NoSession /\ session'[r.token].revoked
                      /\ r.stage \notin LetIn \cup {"read"}
  PROVE  RequestsOK'
<1>1. req' \in [Tab -> Request \cup {Idle}]
  BY DEF IInv, RequestsOK
<1>2. ASSUME NEW q \in Tab PROVE RequestOK(req[q])'
  <2>1. CASE q = t
    <3>1. req'[q] = r
      BY <2>1 DEF IInv, RequestsOK
    <3> QED
      BY <3>1 DEF RequestOK
  <2>2. CASE q # t
    <3>1. req'[q] = req[q]
      BY <2>2 DEF IInv, RequestsOK
    <3>2. RequestOK(req[q])
      BY DEF IInv, RequestsOK
    <3>3. req[q].token \in Nat /\ (req[q].token # NoSession => req[q].token \in DOMAIN session)
      BY <3>2 DEF RequestOK, Request, Idle, NoSession, SessionId, IInv, SessionsTyped
    <3> QED
      BY <3>1, <3>2, <3>3 DEF RequestOK, Grown, IInv, SessionsTyped
  <2> QED
    BY <2>1, <2>2
<1> QED
  BY <1>1, <1>2 DEF RequestsOK

LEMMA RequestsKept ==
  ASSUME IInv, Grown, SessionsTyped', req' = req
  PROVE  RequestsOK'
<1>1. ASSUME NEW q \in Tab PROVE RequestOK(req[q])'
  <2>1. RequestOK(req[q])
    BY DEF IInv, RequestsOK
  <2>2. req[q].token \in Nat /\ (req[q].token # NoSession => req[q].token \in DOMAIN session)
    BY <2>1 DEF RequestOK, Request, Idle, NoSession, SessionId, IInv, SessionsTyped
  <2> QED
    BY <2>1, <2>2 DEF RequestOK, Grown, IInv, SessionsTyped
<1> QED
  BY <1>1 DEF RequestsOK, IInv

LEMMA RequestEnds ==
  ASSUME IInv, Grown, SessionsTyped', NEW t \in Tab, Ends(t)
  PROVE  RequestsOK'
<1>1. /\ Idle \in Request \cup {Idle}
      /\ Idle.token <= Len(session')
      /\ Idle.op \in {"guest", "dev", "session", "logout"} \cup Feature
      /\ Idle.stage \notin LetIn \cup {"read"}
      /\ ~Idle.late
  BY DEF Idle, NoSession, LetIn, SessionsTyped
<1> QED
  BY <1>1, RequestStep DEF Ends

\* A request that is not late, or goes where a late one may, moves on.
LEMMA RequestMoves ==
  ASSUME IInv, Grown, SessionsTyped', NEW t \in Tab, NEW stage \in Stage,
         NEW a \in Account, req[t] # Idle,
         req' = [req EXCEPT ![t] = [@ EXCEPT !.stage = stage, !.account = a]],
         stage = "read" => req[t].op \notin {"dev", "logout"} /\ req[t].token # NoSession,
         stage \in LetIn => req[t].op \in Feature,
         req[t].late => stage \notin LetIn \cup {"read"}
  PROVE  RequestsOK'
<1> DEFINE r == [req[t] EXCEPT !.stage = stage, !.account = a]
<1>1. RequestOK(req[t]) /\ req[t] \in Request
  BY DEF IInv, RequestsOK
<1>2. /\ r \in Request /\ r.stage = stage
      /\ r.token = req[t].token /\ r.op = req[t].op /\ r.late = req[t].late
  BY <1>1 DEF Request
<1>3. /\ req[t].token \in Nat /\ req[t].token <= Len(session)
      /\ req[t].token # NoSession => req[t].token \in DOMAIN session
  BY <1>1 DEF RequestOK, Request, NoSession, SessionId, IInv, SessionsTyped
<1>4. req[t].token <= Len(session')
  <2>1. Len(session) \in Nat /\ Len(session') \in Nat /\ Len(session) <= Len(session')
    BY DEF Grown, IInv, SessionsTyped
  <2> QED
    BY <1>3, <2>1
<1>5. req[t].late => req[t].token # NoSession /\ session'[req[t].token].revoked
  BY <1>1, <1>3 DEF RequestOK, Grown
<1>7. req' = [req EXCEPT ![t] = r]
  OBVIOUS
<1>6. r.op \in {"guest", "dev", "session", "logout"} \cup Feature
  BY <1>1, <1>2 DEF RequestOK
<1> HIDE DEF r
<1> QED
  BY <1>2, <1>4, <1>5, <1>6, <1>7, RequestStep

LEMMA StageMoves ==
  ASSUME IInv, Grown, SessionsTyped', NEW t \in Tab, NEW stage \in Stage, req[t] # Idle,
         MovesTo(t, stage),
         stage = "read" => req[t].op \notin {"dev", "logout"} /\ req[t].token # NoSession,
         stage \in LetIn => req[t].op \in Feature,
         req[t].late => stage \notin LetIn \cup {"read"}
  PROVE  RequestsOK'
<1>1. req[t] \in Request
  BY DEF IInv, RequestsOK
<1>2. req[t].account \in Account
  BY <1>1 DEF Request
<1>3. [req[t] EXCEPT !.stage = stage]
        = [req[t] EXCEPT !.stage = stage, !.account = req[t].account]
  BY <1>1 DEF Request
<1>4. req' = [req EXCEPT ![t] = [@ EXCEPT !.stage = stage, !.account = req[t].account]]
  BY <1>3 DEF MovesTo
<1> QED
  BY <1>2, <1>4, RequestMoves

LEMMA RowsKept ==
  ASSUME IInv, UNCHANGED <<rows, granted, opened>>
  PROVE  RowsInv'
  BY DEF RowsInv, IInv, rows, RowsTyped, Unopened, Budgets, UsersHaveOrgs, CountersHaveUsers,
         ProjectsHaveOrgs, GrantsWithinLimit, EnforcedLimit

LEMMA SessionsKept ==
  ASSUME IInv, UNCHANGED <<session, cookie>>
  PROVE  SessionsTyped' /\ CookiesOK' /\ Grown /\ (user \subseteq user' => SessionsHaveUsers')
<1>1. SessionsTyped' /\ CookiesOK' /\ Grown
  BY DEF IInv, SessionsTyped, CookiesOK, Grown
<1>2. user \subseteq user' => SessionsHaveUsers'
  BY DEF IInv, SessionsHaveUsers
<1> QED
  BY <1>1, <1>2

-----------------------------------------------------------------------------
\* Steps that only move a request, the clock or the limiter's window.
LEMMA BeginInv ==
  ASSUME IInv, NEW t \in Tab, NEW op \in Op \ ({"address", "chat"} \ Feature), Begin(t, op)
  PROVE  RequestsOK'
<1> DEFINE r == [stage |-> "start", op |-> op, token |-> Sent(t), account |-> Dev,
                 late |-> LoggedOut(Sent(t))]
<1>1. /\ cookie[JarOf[t]] \in Cookie /\ cookie[JarOf[t]].token <= Len(session)
  BY DEF IInv, CookiesOK
<1>2. /\ Sent(t) \in SessionId \cup {NoSession} /\ Sent(t) <= Len(session)
  BY <1>1 DEF Sent, Cookie, NoSession, IInv, SessionsTyped
<1>3. LoggedOut(Sent(t)) \in BOOLEAN
      /\ (LoggedOut(Sent(t)) => Sent(t) # NoSession /\ session[Sent(t)].revoked)
  <2>1. Sent(t) # NoSession => session[Sent(t)] \in Row
    BY <1>2 DEF SessionId, NoSession, IInv, SessionsTyped
  <2> QED
    BY <2>1 DEF LoggedOut, Row
<1>4. req' = [req EXCEPT ![t] = r]
  BY DEF Begin
<1>5. session' = session
  BY DEF Begin
<1>6. Grown /\ SessionsTyped'
  BY <1>5 DEF Grown, IInv, SessionsTyped
<1>7. r \in Request /\ r.stage = "start"
  BY <1>2, <1>3 DEF Request, Stage, Account, Op, LoggedOut
<1>8. /\ r.token <= Len(session')
      /\ r.op \in {"guest", "dev", "session", "logout"} \cup Feature
      /\ r.late => r.token # NoSession /\ session'[r.token].revoked
  BY <1>2, <1>3, <1>5 DEF Op
<1> HIDE DEF r
<1> QED
  BY <1>4, <1>6, <1>7, <1>8, RequestStep DEF LetIn

LEMMA QuietInv ==
  ASSUME IInv, NEW t \in Tab,
         \/ ReadSession(t)
         \/ NotAuthenticated(t)
         \/ GuestAllowed(t)
         \/ FindDevOrg(t)
         \/ FindDevUser(t)
         \/ Pass(t)
  PROVE  RequestsOK'
<1>1. UNCHANGED <<session, cookie>>
  BY DEF ReadSession, NotAuthenticated, GuestAllowed, FindDevOrg, FindDevUser, Pass
<1>2. Grown /\ SessionsTyped'
  BY <1>1, SessionsKept
<1>3. RequestOK(req[t])
  BY DEF IInv, RequestsOK
<1>4. CASE ReadSession(t)
  <2>1. /\ req[t].op \notin {"dev", "logout"} /\ req[t].token # NoSession
        /\ ~req[t].late /\ req[t] # Idle /\ MovesTo(t, "read")
    BY <1>3, <1>4 DEF ReadSession, Valid, RequestOK, Idle
  <2> QED
    BY <1>2, <2>1, StageMoves DEF Stage, LetIn
<1>5. CASE NotAuthenticated(t)
  BY <1>2, <1>5, RequestEnds DEF NotAuthenticated
<1>6. CASE GuestAllowed(t)
  <2>1. req[t] # Idle /\ (MovesTo(t, "limited") \/ Ends(t))
    BY <1>6 DEF GuestAllowed, Idle
  <2> QED
    BY <1>2, <2>1, RequestEnds, StageMoves DEF Stage, LetIn
<1>7. CASE FindDevOrg(t)
  <2>1. req[t] # Idle /\ (MovesTo(t, "org") \/ MovesTo(t, "finduser"))
    BY <1>7 DEF FindDevOrg, Idle
  <2> QED
    BY <1>2, <2>1, StageMoves DEF Stage, LetIn
<1>8. CASE FindDevUser(t)
  <2>1. req[t] # Idle /\ (MovesTo(t, "login") \/ MovesTo(t, "user"))
    BY <1>8 DEF FindDevUser, Idle
  <2> QED
    BY <1>2, <2>1, StageMoves DEF Stage, LetIn
<1>9. CASE Pass(t)
  <2>1. /\ req[t] # Idle /\ MovesTo(t, "charged")
        /\ req[t].op \in Feature /\ ~req[t].late
    BY <1>3, <1>9 DEF Pass, Idle, RequestOK, LetIn
  <2> QED
    BY <1>2, <2>1, StageMoves DEF Stage, LetIn
<1> QED
  BY <1>4, <1>5, <1>6, <1>7, <1>8, <1>9

-----------------------------------------------------------------------------
\* Steps on the rows.
LEMMA SlideInv ==
  ASSUME IInv, NEW t \in Tab, SlideSession(t)
  PROVE  SessionsTyped' /\ SessionsHaveUsers' /\ CookiesOK' /\ RequestsOK'
<1> DEFINE s == req[t].token
<1>1. /\ RequestOK(req[t]) /\ req[t].stage = "read" /\ req[t] \in Request
      /\ ~req[t].late /\ req[t].op \in {"guest", "session"} \cup Feature
  BY DEF IInv, RequestsOK, SlideSession, RequestOK, Idle
<1>2. s \in DOMAIN session /\ session[s] \in Row
  BY <1>1 DEF RequestOK, Request, SessionId, NoSession, IInv, SessionsTyped
<1>3. CASE session[s].live
  <2> DEFINE row == [session[s] EXCEPT !.expires = clock + SessionTTL]
  <2>1. session' = [session EXCEPT ![s] = row]
    BY <1>3 DEF SlideSession, Slid
  <2>a. clock + SessionTTL \in Time
    BY DEF Time, Clock, IInv, BoundsTyped
  <2>2. /\ row \in Row /\ row.account = session[s].account
        /\ row.revoked = session[s].revoked /\ row.live = session[s].live
    BY <1>2, <2>a DEF Row
  <2> HIDE DEF row
  <2>3. SessionsTyped' /\ Len(session') = Len(session) /\ DOMAIN session' = DOMAIN session
    BY <1>2, <2>1, <2>2 DEF IInv, SessionsTyped
  <2>4. \A q \in DOMAIN session : /\ session'[q].revoked = session[q].revoked
                                  /\ session'[q].live = session[q].live
                                  /\ session'[q].account = session[q].account
    BY <1>2, <2>1, <2>2
  <2>5. Grown
    BY <2>3, <2>4 DEF Grown, IInv, SessionsTyped
  <2>6. SessionsHaveUsers' /\ CookiesOK'
    BY <2>3, <2>4 DEF SlideSession, rows, IInv, SessionsHaveUsers, CookiesOK
  <2>7. RequestsOK'
    <3>1. CASE Ends(t)
      BY <2>3, <2>5, <3>1, RequestEnds
    <3>2. CASE ~Ends(t)
      <4>1. /\ req[t].op \in Feature
            /\ req' = [req EXCEPT ![t] = [@ EXCEPT !.stage = "admitted",
                                                   !.account = session[s].account]]
        BY <1>1, <1>3, <3>2 DEF SlideSession
      <4>2. session[s].account \in Account /\ req[t] # Idle
        BY <1>1, <1>2 DEF Row, Idle
      <4> QED
        BY <1>1, <2>3, <2>5, <4>1, <4>2, RequestMoves DEF Stage, LetIn
    <3> QED
      BY <3>1, <3>2
  <2> QED
    BY <2>3, <2>6, <2>7
<1>4. CASE ~session[s].live
  <2>1. Ends(t) /\ UNCHANGED <<session, cookie, user>>
    BY <1>4 DEF SlideSession, rows
  <2> QED
    BY <2>1, SessionsKept, RequestEnds
<1> QED
  BY <1>3, <1>4

LEMMA MakeOrgInv ==
  ASSUME IInv, NEW t \in Tab, MakeGuestOrg(t) \/ MakeDevOrg(t)
  PROVE  RowsInv' /\ RequestsOK'
<1>1. UNCHANGED <<session, cookie, user, used, projects, granted>>
  BY DEF MakeGuestOrg, MakeDevOrg
<1>2. Grown /\ SessionsTyped'
  BY <1>1, SessionsKept
<1>3. RequestOK(req[t])
  BY DEF IInv, RequestsOK
<1>4. CASE MakeGuestOrg(t)
  <2> DEFINE a == opened + 1
  <2>1. /\ a \in Guest /\ a \in Account /\ opened' = a /\ opened \in Nat
        /\ orgAt' = [orgAt EXCEPT ![a] = clock] /\ clock \in Nat /\ clock \in Clock
        /\ opened < a
    BY <1>4 DEF MakeGuestOrg, Guest, Account, IInv, RowsTyped, BoundsTyped, Clock
  <2>2. RowsTyped'
    BY <1>1, <1>4, <2>1 DEF MakeGuestOrg, IInv, RowsTyped, Guest
  <2>3. \A b \in Account : b # a => orgAt'[b] = orgAt[b]
    BY <2>1 DEF IInv, RowsTyped
  <2>4. orgAt'[a] # None
    BY <2>1 DEF IInv, RowsTyped, None
  <2>5. a \notin user /\ (\A f \in Feature : granted[a][f] = 0 /\ used[a][f] = None)
    BY <2>1 DEF IInv, Unopened, Budgets, UsersHaveOrgs, CountersHaveUsers, Guest
  <2> HIDE DEF a
  <2>6. Budgets'
    <3> SUFFICES ASSUME NEW b \in Guest, NEW f \in Feature
                 PROVE  /\ b > opened' => granted[b][f] = 0
                        /\ orgAt'[b] # None /\ b \notin user => granted[b][f] = 0
                        /\ b \in user /\ used[b][f] = None => granted[b][f] = 0
                        /\ used[b][f] # None => granted[b][f] = used[b][f]
      BY <1>1 DEF Budgets
    <3>1. CASE b = a
      BY <2>1, <2>5, <3>1 DEF Guest
    <3>2. CASE b # a
      <4>1. orgAt'[b] = orgAt[b]
        BY <2>3, <3>2 DEF Account
      <4>2. b > opened' => b > opened
        BY <2>1, <1>4 DEF MakeGuestOrg, Guest
      <4> QED
        BY <4>1, <4>2 DEF IInv, Budgets
    <3> QED
      BY <3>1, <3>2
  <2>c. Unopened'
    BY <2>1, <2>3 DEF IInv, Unopened, Guest, Account
  <2>7. UsersHaveOrgs' /\ CountersHaveUsers' /\ ProjectsHaveOrgs' /\ GrantsWithinLimit'
    BY <1>1, <2>3, <2>4 DEF IInv, RowsTyped, UsersHaveOrgs, CountersHaveUsers,
       ProjectsHaveOrgs, GrantsWithinLimit, EnforcedLimit
  <2>8. RequestsOK'
    <3>1. req[t] # Idle /\ req' = [req EXCEPT ![t] = [@ EXCEPT !.stage = "user", !.account = a]]
      BY <1>4 DEF MakeGuestOrg, Idle, a
    <3> QED
      BY <1>2, <2>1, <3>1, RequestMoves DEF Stage, LetIn
  <2> QED
    BY <2>2, <2>6, <2>7, <2>8, <2>c DEF RowsInv
<1>5. CASE MakeDevOrg(t)
  <2>a. Dev \in Account /\ Guest \subseteq Account /\ Dev \notin Guest
    BY DEF Guest, Account, Dev
  <2>b. /\ opened' = opened
        /\ orgAt' # orgAt => orgAt[Dev] = None /\ orgAt' = [orgAt EXCEPT ![Dev] = clock]
    <3>1. opened' = opened
      BY <1>5 DEF MakeDevOrg
    <3>2. orgAt[Dev] = None => orgAt' = [orgAt EXCEPT ![Dev] = clock]
      BY <1>5 DEF MakeDevOrg
    <3>3. orgAt[Dev] # None => orgAt' = orgAt
      BY <1>5 DEF MakeDevOrg
    <3> QED
      BY <3>1, <3>2, <3>3
  <2>1. /\ \A b \in Guest : orgAt'[b] = orgAt[b]
        /\ \A b \in Account : orgAt[b] # None => orgAt'[b] = orgAt[b]
        /\ orgAt' \in [Account -> Clock \cup {None}] /\ opened' = opened
    BY <2>a, <2>b DEF IInv, RowsTyped, BoundsTyped
  <2>2. RowsTyped' /\ Unopened' /\ Budgets'
    BY <1>1, <2>1 DEF IInv, RowsTyped, Unopened, Budgets
  <2>3. UsersHaveOrgs' /\ CountersHaveUsers' /\ ProjectsHaveOrgs' /\ GrantsWithinLimit'
    BY <1>1, <2>1 DEF IInv, RowsTyped, UsersHaveOrgs, CountersHaveUsers,
       ProjectsHaveOrgs, GrantsWithinLimit, EnforcedLimit
  <2>4. RequestsOK'
    <3>1. req[t] # Idle /\ (MovesTo(t, "finduser") \/ Ends(t))
      BY <1>5 DEF MakeDevOrg, Idle
    <3> QED
      BY <1>2, <3>1, RequestEnds, StageMoves DEF Stage, LetIn
  <2> QED
    BY <2>2, <2>3, <2>4 DEF RowsInv
<1> QED
  BY <1>4, <1>5

LEMMA MakeUserInv ==
  ASSUME IInv, NEW t \in Tab, MakeUser(t)
  PROVE  RowsInv' /\ SessionsHaveUsers' /\ RequestsOK'
<1> DEFINE a == req[t].account
<1>1. UNCHANGED <<session, cookie, orgAt, used, projects, granted, opened>>
  BY DEF MakeUser
<1>2. Grown /\ SessionsTyped'
  BY <1>1, SessionsKept
<1>3. req[t] \in Request /\ req[t] # Idle /\ req[t].account \in Account
  BY DEF MakeUser, IInv, RequestsOK, Request, Idle
<1>4. CASE orgAt[a] # None /\ a \notin user
  <2>1. user' = user \cup {a} /\ MovesTo(t, "login")
    BY <1>4 DEF MakeUser
  <2>2. RequestsOK'
    BY <1>2, <1>3, <2>1, StageMoves DEF Stage, LetIn
  <2>3. RowsTyped'
    BY <1>1, <1>3, <2>1 DEF IInv, RowsTyped
  <2>4. Unopened' /\ UsersHaveOrgs' /\ CountersHaveUsers' /\ ProjectsHaveOrgs'
        /\ GrantsWithinLimit' /\ SessionsHaveUsers'
    BY <1>1, <1>4, <2>1 DEF IInv, Unopened, UsersHaveOrgs, CountersHaveUsers,
       ProjectsHaveOrgs, GrantsWithinLimit, EnforcedLimit, SessionsHaveUsers
  <2>5. Budgets'
    BY <1>1, <1>4, <2>1 DEF IInv, Budgets
  <2> QED
    BY <2>2, <2>3, <2>4, <2>5 DEF RowsInv
<1>5. CASE ~(orgAt[a] # None /\ a \notin user)
  <2>1. user' = user /\ Ends(t)
    BY <1>5 DEF MakeUser
  <2> QED
    BY <1>1, <1>2, <2>1, RequestEnds, RowsKept, SessionsKept DEF rows
<1> QED
  BY <1>4, <1>5

LEMMA MakeSessionInv ==
  ASSUME IInv, NEW t \in Tab, MakeSession(t)
  PROVE  SessionsTyped' /\ SessionsHaveUsers' /\ CookiesOK' /\ RequestsOK'
<1> DEFINE a == req[t].account
<1>1. Ends(t) /\ user' = user /\ a \in Account
  BY DEF MakeSession, rows, IInv, RequestsOK, Request, Idle, Account
<1>2. CASE a \in user
  <2> DEFINE row == NewSession(a)
  <2>a. clock + SessionTTL \in Time
    BY DEF Time, Clock, IInv, BoundsTyped
  <2>1. row \in Row /\ row.account = a /\ ~row.revoked
    BY <1>1, <2>a DEF NewSession, Row
  <2>2. session' = Append(session, row) /\ Len(session) < MaxSessions
    BY <1>2 DEF MakeSession
  <2>3. cookie' = cookie \/ cookie' = [cookie EXCEPT ![JarOf[t]] =
                            [token |-> Len(session) + 1, until |-> clock + SessionTTL]]
    BY <1>2 DEF MakeSession
  <2> HIDE DEF row
  <2>4. /\ SessionsTyped' /\ Len(session') = Len(session) + 1
        /\ \A q \in DOMAIN session : session'[q] = session[q]
        /\ session'[Len(session) + 1] = row
    BY <2>1, <2>2 DEF IInv, SessionsTyped
  <2>5. Grown
    BY <2>4 DEF Grown, IInv, SessionsTyped
  <2>6. SessionsHaveUsers'
    <3> SUFFICES ASSUME NEW q \in DOMAIN session', session'[q].live
                 PROVE  session'[q].account \in user
      BY <1>1 DEF SessionsHaveUsers
    <3>1. q \in DOMAIN session \/ q = Len(session) + 1
      BY <2>4 DEF IInv, SessionsTyped
    <3> QED
      BY <1>2, <2>1, <2>4, <3>1 DEF IInv, SessionsHaveUsers
  <2>7. CookiesOK'
    <3>1. [token |-> Len(session) + 1, until |-> clock + SessionTTL] \in Cookie
      BY <2>2, <2>a DEF Cookie, SessionId, IInv, SessionsTyped
    <3>2. \A b \in Browser : cookie[b].token \in Nat
      BY DEF IInv, CookiesOK, Cookie, SessionId, NoSession
    <3>3. Len(session) \in Nat
      BY DEF IInv, SessionsTyped
    <3> QED
      BY <2>3, <2>4, <3>1, <3>2, <3>3 DEF IInv, CookiesOK
  <2> QED
    BY <1>1, <2>4, <2>5, <2>6, <2>7, RequestEnds
<1>3. CASE a \notin user
  <2>1. UNCHANGED <<session, cookie>>
    BY <1>3 DEF MakeSession
  <2> QED
    BY <1>1, <2>1, SessionsKept, RequestEnds
<1> QED
  BY <1>2, <1>3

LEMMA LogoutInv ==
  ASSUME IInv, NEW t \in Tab, Logout(t)
  PROVE  SessionsTyped' /\ SessionsHaveUsers' /\ CookiesOK' /\ RequestsOK'
<1> DEFINE s == req[t].token
<1>1. Ends(t) /\ user' = user /\ RequestOK(req[t]) /\ req[t] \in Request
  BY DEF Logout, rows, IInv, RequestsOK, Idle
<1>2. s # NoSession => s \in DOMAIN session /\ session[s] \in Row
  BY <1>1 DEF RequestOK, Request, SessionId, NoSession, IInv, SessionsTyped
<1>3. \/ session' = session
      \/ /\ s \in DOMAIN session
         /\ session' = [session EXCEPT ![s] = [@ EXCEPT !.revoked = TRUE]]
  BY <1>2 DEF Logout
<1>4. /\ SessionsTyped' /\ DOMAIN session' = DOMAIN session /\ Len(session') = Len(session)
      /\ \A q \in DOMAIN session : /\ session[q].revoked => session'[q].revoked
                                   /\ session'[q].live = session[q].live
                                   /\ session'[q].account = session[q].account
  <2>1. CASE session' = session
    BY <2>1 DEF IInv, SessionsTyped
  <2>2. CASE s \in DOMAIN session /\ session' = [session EXCEPT ![s] = [@ EXCEPT !.revoked = TRUE]]
    <3> DEFINE row == [session[s] EXCEPT !.revoked = TRUE]
    <3>1. session[s] \in Row
      BY <2>2 DEF IInv, SessionsTyped
    <3>2. /\ row \in Row /\ row.revoked /\ row.live = session[s].live
          /\ row.account = session[s].account
      BY <3>1 DEF Row
    <3>3. session' = [session EXCEPT ![s] = row]
      BY <2>2
    <3> HIDE DEF row
    <3> QED
      BY <2>2, <3>2, <3>3 DEF IInv, SessionsTyped
  <2> QED
    BY <1>3, <2>1, <2>2
<1>5. Grown
  BY <1>4 DEF Grown, IInv, SessionsTyped
<1>6. CookiesOK'
  <2>1. cookie' = cookie \/ cookie' = [cookie EXCEPT ![JarOf[t]] = NoCookie]
    BY DEF Logout
  <2>2. NoCookie \in Cookie /\ NoCookie.token <= Len(session)
    BY DEF NoCookie, Cookie, NoSession, Time, IInv, SessionsTyped
  <2> QED
    BY <1>4, <2>1, <2>2 DEF IInv, CookiesOK
<1>7. SessionsHaveUsers'
  BY <1>1, <1>4 DEF IInv, SessionsHaveUsers
<1> QED
  BY <1>1, <1>4, <1>5, <1>6, <1>7, RequestEnds

\* A grant needs a counter below the limit, and a new counter a user.
LEMMA ChargeInv ==
  ASSUME IInv, NEW t \in Tab, Charge(t)
  PROVE  RowsInv' /\ RequestsOK'
<1> DEFINE a == req[t].account
           f == req[t].op
<1>1. UNCHANGED <<session, cookie, orgAt, user, projects, opened>>
  BY DEF Charge
<1>2. Grown /\ SessionsTyped'
  BY <1>1, SessionsKept
<1>3. /\ req[t] # Idle /\ f \in Feature /\ ~req[t].late
      /\ a \in Guest /\ a \in Account /\ EnforcedLimit(f) \in Nat
  BY Limits DEF Charge, IInv, RequestsOK, RequestOK, Idle, LetIn, Account
<1>4. /\ used[a][f] \in Nat \cup {None} /\ granted[a][f] \in Nat
      /\ Counted(a, f) \in Nat
  <2>1. used[a][f] \in Nat \cup {None} /\ granted[a][f] \in Nat
    <3>1. RowsTyped
      BY DEF IInv
    <3>2. granted[a] \in [Feature -> Nat] /\ used[a] \in [Feature -> Nat \cup {None}]
      BY <1>3, <3>1 DEF RowsTyped
    <3> QED
      BY <1>3, <3>2
  <2> QED
    BY <2>1 DEF Counted
<1>5. RequestsOK'
  <2>1. Ends(t) \/ MovesTo(t, "charged")
    BY DEF Charge
  <2> QED
    BY <1>2, <1>3, <2>1, RequestEnds, StageMoves DEF Stage, LetIn
<1>6. CASE ~Insertable(a, f)
  <2>1. UNCHANGED <<used, granted>>
    BY <1>6 DEF Charge
  <2> QED
    BY <1>1, <1>5, <2>1, RowsKept DEF rows
<1>7. CASE Insertable(a, f)
  <2>1. a \in user /\ granted[a][f] = Counted(a, f)
    BY <1>3, <1>4, <1>7 DEF Insertable, Counted, IInv, CountersHaveUsers, Budgets, None
  <2>2. PICK n \in Nat :
          /\ used' = [used EXCEPT ![a][f] = n]
          /\ granted' = [granted EXCEPT ![a][f] = n]
          /\ n > granted[a][f] => n <= EnforcedLimit(f)
          /\ n >= granted[a][f]
    <3>1. CASE Counted(a, f) < EnforcedLimit(f)
      <4>1. used' = [used EXCEPT ![a][f] = Counted(a, f) + 1]
        BY <1>7, <3>1 DEF Charge
      <4>2. granted' = [granted EXCEPT ![a][f] = granted[a][f] + 1]
        BY <1>7, <3>1 DEF Charge
      <4> DEFINE m == Counted(a, f) + 1
      <4>3. m \in Nat /\ m <= EnforcedLimit(f) /\ m >= granted[a][f]
        BY <1>3, <1>4, <2>1, <3>1
      <4>4. used' = [used EXCEPT ![a][f] = m] /\ granted' = [granted EXCEPT ![a][f] = m]
        BY <2>1, <4>1, <4>2
      <4> HIDE DEF m
      <4> QED
        BY <4>3, <4>4
    <3>2. CASE ~(Counted(a, f) < EnforcedLimit(f))
      <4>1. used' = [used EXCEPT ![a][f] = Counted(a, f)]
        BY <1>7, <3>2 DEF Charge
      <4>2. granted' = granted
        BY <1>7, <3>2 DEF Charge
      <4>3. granted = [granted EXCEPT ![a][f] = granted[a][f]]
        BY <1>3 DEF IInv, RowsTyped
      <4> DEFINE m == Counted(a, f)
      <4>4. used' = [used EXCEPT ![a][f] = m] /\ granted' = [granted EXCEPT ![a][f] = m]
        BY <2>1, <4>1, <4>2, <4>3
      <4>5. m \in Nat /\ m >= granted[a][f] /\ ~(m > granted[a][f])
        BY <1>4, <2>1
      <4> HIDE DEF m
      <4> QED
        BY <4>4, <4>5
    <3> QED
      BY <3>1, <3>2
  <2>3. /\ used'[a][f] = n /\ granted'[a][f] = n
        /\ \A b \in Account, g \in Feature :
             b # a \/ g # f => used'[b][g] = used[b][g] /\ granted'[b][g] = granted[b][g]
    BY <1>3, <2>2 DEF IInv, RowsTyped
  <2>4. RowsTyped'
    BY <1>1, <1>3, <2>2 DEF IInv, RowsTyped
  <2>5. Unopened' /\ UsersHaveOrgs' /\ ProjectsHaveOrgs'
    BY <1>1 DEF IInv, Unopened, UsersHaveOrgs, ProjectsHaveOrgs
  <2>6. CountersHaveUsers'
    BY <1>1, <2>1, <2>3 DEF IInv, CountersHaveUsers
  <2>7. n # None
    BY <2>2 DEF None
  <2>8. Budgets'
    <3> SUFFICES ASSUME NEW b \in Guest, NEW g \in Feature
                 PROVE  /\ b > opened => granted'[b][g] = 0
                        /\ orgAt[b] # None /\ b \notin user => granted'[b][g] = 0
                        /\ b \in user /\ used'[b][g] = None => granted'[b][g] = 0
                        /\ used'[b][g] # None => granted'[b][g] = used'[b][g]
      BY <1>1 DEF Budgets
    <3>1. CASE b = a /\ g = f
      <4>1. ~(a > opened)
        BY <1>3, <2>1 DEF IInv, Unopened, UsersHaveOrgs
      <4> QED
        BY <2>1, <2>3, <2>7, <3>1, <4>1
    <3>2. CASE ~(b = a /\ g = f)
      BY <2>3, <3>2 DEF IInv, Budgets, Account
    <3> QED
      BY <3>1, <3>2
  <2>9. GrantsWithinLimit'
    <3> SUFFICES ASSUME NEW b \in Guest, NEW g \in Feature
                 PROVE  granted'[b][g] <= EnforcedLimit(g)
      BY DEF GrantsWithinLimit, EnforcedLimit
    <3>1. granted[b][g] <= EnforcedLimit(g)
      BY DEF IInv, GrantsWithinLimit
    <3>2. CASE b = a /\ g = f
      <4>1. n > granted[a][f] \/ n = granted[a][f]
        BY <1>4, <2>2
      <4> QED
        BY <2>2, <2>3, <3>1, <3>2, <4>1
    <3>3. CASE ~(b = a /\ g = f)
      BY <2>3, <3>1, <3>3 DEF Account
    <3> QED
      BY <3>2, <3>3
  <2> QED
    BY <1>5, <2>4, <2>5, <2>6, <2>8, <2>9 DEF RowsInv
<1> QED
  BY <1>6, <1>7

LEMMA WorkInv ==
  ASSUME IInv, NEW t \in Tab, Work(t)
  PROVE  RowsInv' /\ RequestsOK'
<1> DEFINE a == req[t].account
<1>1. UNCHANGED <<session, cookie, orgAt, user, used, granted, opened>> /\ Ends(t)
  BY DEF Work
<1>2. RequestsOK'
  BY <1>1, SessionsKept, RequestEnds
<1>3. a \in Account
  BY DEF IInv, RequestsOK, Request, Idle, Account
<1>4. \/ projects' = projects
      \/ orgAt[a] # None /\ projects' = [projects EXCEPT ![a] = @ + 1]
  BY DEF Work
<1>5. RowsTyped' /\ ProjectsHaveOrgs'
  BY <1>1, <1>3, <1>4 DEF IInv, RowsTyped, ProjectsHaveOrgs
<1>6. Unopened' /\ Budgets' /\ UsersHaveOrgs' /\ CountersHaveUsers' /\ GrantsWithinLimit'
  BY <1>1 DEF IInv, Unopened, Budgets, UsersHaveOrgs, CountersHaveUsers,
     GrantsWithinLimit, EnforcedLimit
<1> QED
  BY <1>2, <1>5, <1>6 DEF RowsInv

\* A purged account keeps what it was granted, and has neither org nor user.
LEMMA PurgeInv ==
  ASSUME IInv, PurgeGuestOrgs
  PROVE  RowsInv' /\ SessionsTyped' /\ SessionsHaveUsers' /\ CookiesOK' /\ RequestsOK'
<1>1. /\ \A a \in Account : orgAt'[a] = IF a \in Old THEN None ELSE orgAt[a]
      /\ user' = user \ Old
      /\ \A a \in Account : used'[a] = IF a \in Old THEN [f \in Feature |-> None] ELSE used[a]
      /\ \A a \in Account : projects'[a] = IF a \in Old THEN 0 ELSE projects[a]
      /\ UNCHANGED <<cookie, req, opened, granted>>
  BY DEF PurgeGuestOrgs, UsageAfterPurge
<1>2. Old \subseteq Guest /\ Old \subseteq Account
  BY DEF Old, Account
<1>3. RowsTyped'
  <2>1. orgAt' \in [Account -> Clock \cup {None}] /\ projects' \in [Account -> Nat]
    BY DEF PurgeGuestOrgs, IInv, RowsTyped
  <2>2. used' \in [Account -> [Feature -> Nat \cup {None}]]
    BY DEF PurgeGuestOrgs, UsageAfterPurge, IInv, RowsTyped
  <2> QED
    BY <1>1, <2>1, <2>2 DEF IInv, RowsTyped
<1>4. Unopened' /\ UsersHaveOrgs' /\ ProjectsHaveOrgs' /\ GrantsWithinLimit'
  BY <1>1, <1>2 DEF IInv, RowsTyped, Unopened, UsersHaveOrgs, ProjectsHaveOrgs,
     GrantsWithinLimit, EnforcedLimit, Account
<1>5. CountersHaveUsers'
  <2> SUFFICES ASSUME NEW a \in Account, NEW f \in Feature, used'[a][f] # None
               PROVE  a \in user'
    BY DEF CountersHaveUsers
  <2>1. a \notin Old
    BY <1>1
  <2> QED
    BY <1>1, <2>1 DEF IInv, CountersHaveUsers
<1>6. Budgets'
  <2> SUFFICES ASSUME NEW a \in Guest, NEW f \in Feature
               PROVE  /\ a > opened => granted[a][f] = 0
                      /\ orgAt'[a] # None /\ a \notin user' => granted[a][f] = 0
                      /\ a \in user' /\ used'[a][f] = None => granted[a][f] = 0
                      /\ used'[a][f] # None => granted[a][f] = used'[a][f]
    BY <1>1 DEF Budgets
  <2>1. a \in Account
    BY DEF Account
  <2>2. CASE a \in Old
    BY <1>1, <2>1, <2>2 DEF IInv, Budgets
  <2>3. CASE a \notin Old
    BY <1>1, <2>1, <2>3 DEF IInv, Budgets
  <2> QED
    BY <2>2, <2>3
<1>7. /\ SessionsTyped' /\ DOMAIN session' = DOMAIN session /\ Len(session') = Len(session)
      /\ \A s \in DOMAIN session :
           /\ session'[s].revoked = session[s].revoked
           /\ session'[s].account = session[s].account
           /\ session'[s].live => session[s].live /\ session[s].account \notin Old
  <2> DEFINE New(s) == [session[s] EXCEPT !.live = @ /\ session[s].account \notin Old]
  <2>1. session' = [s \in DOMAIN session |-> New(s)]
    BY DEF PurgeGuestOrgs
  <2>2. \A s \in DOMAIN session :
          /\ New(s) \in Row /\ New(s).revoked = session[s].revoked
          /\ New(s).account = session[s].account
          /\ New(s).live => session[s].live /\ session[s].account \notin Old
    <3> TAKE s \in DOMAIN session
    <3>1. session[s] \in Row
      BY DEF IInv, SessionsTyped
    <3> DEFINE l == session[s].live /\ session[s].account \notin Old
    <3>2. l \in BOOLEAN
      BY <3>1 DEF Row
    <3>3. New(s) = [session[s] EXCEPT !.live = l]
      OBVIOUS
    <3>4. l => session[s].live /\ session[s].account \notin Old
      OBVIOUS
    <3> HIDE DEF l
    <3> QED
      BY <3>1, <3>2, <3>3, <3>4 DEF Row
  <2> HIDE DEF New
  <2> QED
    BY <2>1, <2>2 DEF IInv, SessionsTyped
<1>8. Grown
  BY <1>7 DEF Grown, IInv, SessionsTyped
<1>9. SessionsHaveUsers' /\ CookiesOK'
  BY <1>1, <1>7 DEF IInv, SessionsHaveUsers, CookiesOK
<1> QED
  BY <1>1, <1>3, <1>4, <1>5, <1>6, <1>7, <1>8, <1>9, RequestsKept DEF RowsInv

-----------------------------------------------------------------------------
LEMMA BoundsInv == ASSUME IInv, Next PROVE BoundsTyped'
<1>1. window' \subseteq Clock \X Nat /\ IsFiniteSet(window')
  <2>1. CASE \E t \in Tab : GuestAllowed(t)
    <3>1. PICK t \in Tab : GuestAllowed(t)
      BY <2>1
    <3>2. Recent \subseteq Clock \X Nat /\ IsFiniteSet(Recent)
      BY FS_Subset DEF Recent, IInv, BoundsTyped
    <3>3. /\ Cardinality(Recent) \in Nat
          /\ IsFiniteSet(Recent \cup {<<clock, Cardinality(Recent)>>})
      BY <3>2, FS_CardinalityType, FS_AddElement
    <3>4. window' \in {Recent, Recent \cup {<<clock, Cardinality(Recent)>>}}
      BY <3>1 DEF GuestAllowed
    <3>5. <<clock, Cardinality(Recent)>> \in Clock \X Nat
      BY <3>3 DEF IInv, BoundsTyped
    <3> QED
      BY <3>2, <3>3, <3>4, <3>5
  <2>2. CASE ~\E t \in Tab : GuestAllowed(t)
    <3>1. window' = window \/ window' = {}
      BY <2>2 DEF Next, Handle, Session, GuestLogin, DevLogin, Metered, Begin, ReadSession,
         NotAuthenticated, SlideSession, Logout, MakeGuestOrg, FindDevOrg, FindDevUser,
         MakeDevOrg, MakeUser, MakeSession, Charge, Pass, Work, PurgeGuestOrgs, Tick, Restart
    <3> QED
      BY <3>1, FS_EmptySet DEF IInv, BoundsTyped
  <2> QED
    BY <2>1, <2>2
<1>2. clock' \in Clock
  <2>1. clock' = clock \/ (clock < MaxClock /\ clock' = clock + 1)
    BY DEF Next, Handle, Session, GuestLogin, DevLogin, Metered, Begin, ReadSession,
       NotAuthenticated, SlideSession, Logout, GuestAllowed, MakeGuestOrg, FindDevOrg,
       FindDevUser, MakeDevOrg, MakeUser, MakeSession, Charge, Pass, Work,
       PurgeGuestOrgs, Tick, Restart
  <2> QED
    BY <2>1 DEF Clock, IInv, BoundsTyped
<1>3. requests' \in 0 .. MaxRequests /\ restarts' \in 0 .. MaxRestarts
  <2>1. requests' = requests \/ (requests < MaxRequests /\ requests' = requests + 1)
    BY DEF Next, Handle, Session, GuestLogin, DevLogin, Metered, Begin, ReadSession,
       NotAuthenticated, SlideSession, Logout, GuestAllowed, MakeGuestOrg, FindDevOrg,
       FindDevUser, MakeDevOrg, MakeUser, MakeSession, Charge, Pass, Work,
       PurgeGuestOrgs, Tick, Restart
  <2>2. restarts' = restarts \/ (restarts < MaxRestarts /\ restarts' = restarts + 1)
    BY DEF Next, Handle, Session, GuestLogin, DevLogin, Metered, Begin, ReadSession,
       NotAuthenticated, SlideSession, Logout, GuestAllowed, MakeGuestOrg, FindDevOrg,
       FindDevUser, MakeDevOrg, MakeUser, MakeSession, Charge, Pass, Work,
       PurgeGuestOrgs, Tick, Restart
  <2> QED
    BY <2>1, <2>2 DEF IInv, BoundsTyped
<1> QED
  BY <1>1, <1>2, <1>3 DEF BoundsTyped

\* What a step leaves alone stays true.
LEMMA Frame ==
  ASSUME IInv
  PROVE  /\ UNCHANGED <<rows, granted, opened>> => RowsInv'
         /\ UNCHANGED <<session, cookie, user>> =>
              SessionsTyped' /\ SessionsHaveUsers' /\ CookiesOK' /\ Grown
<1>1. UNCHANGED <<rows, granted, opened>> => RowsInv'
  BY RowsKept
<1>2. UNCHANGED <<session, cookie, user>> =>
        SessionsTyped' /\ SessionsHaveUsers' /\ CookiesOK' /\ Grown
  BY SessionsKept
<1> QED
  BY <1>1, <1>2

LEMMA HandleInv ==
  ASSUME IInv, NEW t \in Tab, Handle(t)
  PROVE  RowsInv' /\ SessionsTyped' /\ SessionsHaveUsers' /\ CookiesOK' /\ RequestsOK'
<1>1. ASSUME NEW op \in Op \ ({"address", "chat"} \ Feature), Begin(t, op)
      PROVE  RowsInv' /\ SessionsTyped' /\ SessionsHaveUsers' /\ CookiesOK' /\ RequestsOK'
  BY <1>1, BeginInv, Frame DEF Begin, rows
<1>2. CASE \/ ReadSession(t) \/ NotAuthenticated(t) \/ GuestAllowed(t)
           \/ FindDevOrg(t) \/ FindDevUser(t) \/ Pass(t)
  <2>1. UNCHANGED <<rows, granted, opened, session, cookie, user>>
    BY <1>2 DEF ReadSession, NotAuthenticated, GuestAllowed, FindDevOrg, FindDevUser,
       Pass, rows
  <2> QED
    BY <1>2, <2>1, QuietInv, Frame
<1>3. CASE SlideSession(t)
  BY <1>3, SlideInv, Frame DEF SlideSession
<1>4. CASE Logout(t)
  BY <1>4, LogoutInv, Frame DEF Logout
<1>5. CASE MakeSession(t)
  BY <1>5, MakeSessionInv, Frame DEF MakeSession
<1>6. CASE MakeGuestOrg(t) \/ MakeDevOrg(t)
  BY <1>6, MakeOrgInv, Frame DEF MakeGuestOrg, MakeDevOrg
<1>7. CASE MakeUser(t)
  <2>1. UNCHANGED <<session, cookie>>
    BY <1>7 DEF MakeUser
  <2> QED
    BY <1>7, <2>1, MakeUserInv, SessionsKept
<1>8. CASE Charge(t)
  BY <1>8, ChargeInv, Frame DEF Charge
<1>9. CASE Work(t)
  BY <1>9, WorkInv, Frame DEF Work
<1> QED
  BY <1>1, <1>2, <1>3, <1>4, <1>5, <1>6, <1>7, <1>8, <1>9
  DEF Handle, Session, GuestLogin, DevLogin, Metered

LEMMA NextInv == IInv /\ [Next]_vars => IInv'
<1> SUFFICES ASSUME IInv, [Next]_vars PROVE IInv'
  OBVIOUS
<1>1. CASE Next
  <2>1. BoundsTyped'
    BY <1>1, BoundsInv
  <2>2. RowsInv' /\ SessionsTyped' /\ SessionsHaveUsers' /\ CookiesOK' /\ RequestsOK'
    <3>1. CASE \E t \in Tab : Handle(t)
      BY <3>1, HandleInv
    <3>2. CASE PurgeGuestOrgs
      BY <3>2, PurgeInv
    <3>3. CASE Tick
      BY <3>3, Frame, RequestsKept DEF Tick, rows
    <3>4. CASE Restart
      <4>1. req' = [t \in Tab |-> Idle]
        BY <3>4 DEF Restart
      <4>2. RequestsOK'
        BY <4>1 DEF RequestsOK, RequestOK, Idle, NoSession, LetIn, Restart, IInv, SessionsTyped
      <4> QED
        BY <3>4, <4>2, Frame DEF Restart, rows
    <3> QED
      BY <1>1, <3>1, <3>2, <3>3, <3>4 DEF Next
  <2> QED
    BY <2>1, <2>2 DEF IInv, RowsInv
<1>2. CASE UNCHANGED vars
  <2>1. RowsInv' /\ SessionsTyped' /\ SessionsHaveUsers' /\ CookiesOK' /\ RequestsOK'
    BY <1>2, Frame, RequestsKept DEF vars, rows
  <2>2. BoundsTyped'
    BY <1>2 DEF vars, IInv, BoundsTyped
  <2> QED
    BY <2>1, <2>2 DEF IInv, RowsInv
<1> QED
  BY <1>1, <1>2

THEOREM InductiveInvariant == Spec => []IInv
  BY InitInv, NextInv, PTL DEF Spec

\* Every variable keeps its type, under every interleaving of the requests
\* with the purge, the clock and restarts.
THEOREM TypeCorrect == Spec => []TypeOK
<1>1. IInv => TypeOK
  BY DEF IInv, RowsTyped, SessionsTyped, BoundsTyped, CookiesOK, RequestsOK, TypeOK
<1> QED
  BY <1>1, InductiveInvariant, PTL

\* No guest is let through more often than the enforced limit.
THEOREM BudgetsHold == Spec => []GrantsWithinLimit
<1>1. IInv => GrantsWithinLimit
  BY DEF IInv
<1> QED
  BY <1>1, InductiveInvariant, PTL

\* The purge and the requests it overtakes leave no row without its account.
THEOREM NothingOrphaned == Spec => []NoOrphans
<1>1. IInv => NoOrphans
  BY DEF IInv, NoOrphans, UsersHaveOrgs, SessionsHaveUsers, CountersHaveUsers,
         ProjectsHaveOrgs
<1> QED
  BY <1>1, InductiveInvariant, PTL

\* A session that was logged out lets no later request in.
THEOREM LogoutFinal == Spec => []LoggedOutStaysOut
<1>1. IInv => LoggedOutStaysOut
  BY DEF IInv, LoggedOutStaysOut, RequestsOK, RequestOK, LetIn
<1> QED
  BY <1>1, InductiveInvariant, PTL
=============================================================================
