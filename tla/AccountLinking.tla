--------------------------- MODULE AccountLinking ---------------------------
(***************************************************************************)
(* Who a request or a message belongs to: the local identities, sessions,  *)
(* link tokens and Telegram accounts of the users.                         *)
(*                                                                         *)
(*   - internal/services/auth.go: Register, Login, sessions and links      *)
(*   - internal/adapters/httpapi/httpapi.go: the handlers that call them   *)
(*   - internal/adapters/bot/client.go: /start link_<token>, and the user  *)
(*     that a message is from                                              *)
(*   - internal/adapters/store/store.go: their statements; UpsertUser, by  *)
(*     which the schedulers find the user of a configured Telegram id      *)
(*                                                                         *)
(* A link joins a web user to a Telegram account.  When the account has a  *)
(* user of its own, the web user's login moves there and the web user is   *)
(* deleted with all it owns, so its data is counted before.  The           *)
(* transaction is three steps here, between which other requests run;      *)
(* FOR UPDATE holds the token's row and that of the account.  A session or *)
(* a token expires at any moment.                                          *)
(***************************************************************************)
EXTENDS Naturals, FiniteSets

CONSTANTS
  Emails,       \* normalised addresses of those who sign up
  TgIds,        \* Telegram users
  Configured,   \* those of ALLOWED_TELEGRAM_USER_IDS
  None,         \* no Telegram id, no address
  Workers,      \* handlers of /start link_<token> at work at a time
  MaxUsers,     \* bound: users ever made
  Sessions,     \* bound: rows of web_sessions
  Tokens,       \* bound: link tokens ever made
  MaxNotes      \* bound: notes of a user

Users == 1..MaxUsers
NoUser == 0

ASSUME AccountAssumption ==
  /\ Configured \subseteq TgIds
  /\ None \notin Emails \union TgIds \union Tokens
  /\ MaxUsers \in Nat
  /\ MaxNotes \in Nat

VARIABLES
  made,       \* how many users were made; they are numbered from 1
  users,      \* the rows of users
  claimedTg,  \* users.telegram_user_id, unique where it is set
  identity,   \* auth_identities: the user that each address logs in
  account,    \* telegram_accounts: the user of each Telegram id, one each
  session,    \* web_sessions
  token,      \* telegram_link_tokens
  notes,      \* how much user-owned data a user has
  login,      \* the user each address's Login has read and not yet used
  job,        \* the transactions of LinkTelegramByToken
  requester,  \* the address that asked for a token
  granted     \* the links that were answered with success

vars == <<made, users, claimedTg, identity, account, session, token, notes,
          login, job, requester, granted>>

(* Whose an ended row is does not matter.  A deleted session's place is    *)
(* free for another; a token that ended stays, deleted or not.             *)
Row == [user : Users \union {NoUser}, state : {"unissued", "valid", "ended"}]
Unissued == [user |-> NoUser, state |-> "unissued"]
Ended == [user |-> NoUser, state |-> "ended"]
Issued(u) == [user |-> u, state |-> "valid"]

PC == {"idle", "begun", "counted"}
Job == [pc : PC, tg : TgIds \union {None}, token : Tokens \union {None},
        target : Users \union {NoUser}, existing : Users \union {NoUser},
        late : BOOLEAN]
NoJob == [pc |-> "idle", tg |-> None, token |-> None, target |-> NoUser,
          existing |-> NoUser, late |-> FALSE]

Init ==
  /\ made = 0
  /\ users = {}
  /\ claimedTg = [u \in Users |-> None]
  /\ identity = [e \in Emails |-> NoUser]
  /\ account = [g \in TgIds |-> NoUser]
  /\ session = [s \in Sessions |-> Unissued]
  /\ token = [t \in Tokens |-> Unissued]
  /\ notes = [u \in Users |-> 0]
  /\ login = [e \in Emails |-> NoUser]
  /\ job = [w \in Workers |-> NoJob]
  /\ requester = [t \in Tokens |-> None]
  /\ granted = {}

-----------------------------------------------------------------------------
EmailsOf(u) == {e \in Emails : identity[e] = u}
AccountsOf(u) == {g \in TgIds : account[g] = u}
Running(w) == job[w].pc # "idle"
Target(w) == job[w].target

(* The rows that the transactions have locked.                             *)
TokenLockedByNobody(t) == FALSE
TokenLocked(t) == \E w \in Workers : Running(w) /\ job[w].token = t
AccountLockedByNobody(g) == FALSE
AccountLocked(g) == \E w \in Workers :
  Running(w) /\ job[w].tg = g /\ job[w].existing # NoUser
LockedByAnother(w, u) == \E v \in Workers \ {w} :
  Running(v) /\ (Target(v) = u \/ job[v].existing = u)

(* CleanupAuth, the first statements of several handlers: rows that ended  *)
(* are deleted.                                                            *)
CleanupAuth(rows) == [r \in DOMAIN rows |->
  IF rows[r].state = "ended" THEN Unissued ELSE rows[r]]

-----------------------------------------------------------------------------
(* CreateSession: the foreign key refuses a user that is gone.             *)
CreateSession(rows, s, u) ==
  IF u \in users' THEN [rows EXCEPT ![s] = Issued(u)] ELSE rows

(* One transaction makes the user, its identity and a session.  The unique *)
(* index on the address refuses the second.                                *)
CreateUserWithIdentityAndSession(e, s) ==
  /\ made < MaxUsers
  /\ identity[e] = NoUser
  /\ session[s].state = "unissued"
  /\ made' = made + 1
  /\ users' = users \union {made'}
  /\ identity' = [identity EXCEPT ![e] = made']
  /\ session' = CreateSession(CleanupAuth(session), s, made')

Register(e, s) ==
  /\ CreateUserWithIdentityAndSession(e, s)
  /\ UNCHANGED <<claimedTg, account, token, notes, login, job, requester, granted>>

(* Login reads the identity, verifies the password, and only then inserts  *)
(* the session: by then the user may be gone, and the foreign key refuses. *)
(* One login is between the two at a time (a bound).                       *)
LoginReads(e) ==
  /\ \A f \in Emails : login[f] = NoUser
  /\ identity[e] # NoUser
  /\ session' = CleanupAuth(session)
  /\ login' = [login EXCEPT ![e] = identity[e]]
  /\ UNCHANGED <<made, users, claimedTg, identity, account, token, notes, job,
                 requester, granted>>

LoginInserts(e, s) ==
  /\ login[e] # NoUser
  /\ session[s].state = "unissued"
  /\ login' = [login EXCEPT ![e] = NoUser]
  /\ UNCHANGED users
  /\ session' = CreateSession(session, s, login[e])
  /\ UNCHANGED <<made, claimedTg, identity, account, token, notes, job,
                 requester, granted>>

(* The middleware: the user of the session that a request presents.        *)
CurrentUserBySessionHash(s) ==
  {u \in users : session[s].state = "valid" /\ session[s].user = u}
Principal(s) == CHOOSE u \in Users \union {NoUser} :
  IF CurrentUserBySessionHash(s) = {} THEN u = NoUser
  ELSE u \in CurrentUserBySessionHash(s)

(* A session is revoked, or it expires.                                    *)
Logout(s) ==
  /\ Principal(s) # NoUser
  /\ session' = [session EXCEPT ![s] = Ended]
  /\ UNCHANGED <<made, users, claimedTg, identity, account, token, notes,
                 login, job, requester, granted>>

-----------------------------------------------------------------------------
(* POST /integrations/telegram/link: the user's unused tokens are spent    *)
(* and a new one is made.                                                  *)
CreateTelegramLinkToken(u, t) ==
  LET spent == {x \in Tokens : token[x].user = u /\ token[x].state = "valid"}
  IN /\ \A x \in spent : ~TokenLocked(x)
     /\ token' = [x \in Tokens |-> IF x = t THEN Issued(u)
                                   ELSE IF x \in spent THEN Ended ELSE token[x]]

CreateTelegramLink(s, t) ==
  LET u == Principal(s)
  IN /\ u # NoUser
     /\ token[t].state = "unissued"
     /\ session' = CleanupAuth(session)
     /\ CreateTelegramLinkToken(u, t)
     /\ requester' = [requester EXCEPT ![t] = CHOOSE e \in Emails : identity[e] = u]
     /\ UNCHANGED <<made, users, claimedTg, identity, account, notes, login,
                    job, granted>>

LinkExpires(t) ==
  /\ token[t].state = "valid"
  /\ token' = [token EXCEPT ![t] = Ended]
  /\ UNCHANGED <<made, users, claimedTg, identity, account, session, notes,
                 login, job, requester, granted>>

UnlinkTelegram(s) ==
  LET u == Principal(s)
  IN /\ u # NoUser
     /\ AccountsOf(u) # {}
     /\ \A g \in AccountsOf(u) : ~AccountLocked(g)
     /\ account' = [g \in TgIds |-> IF account[g] = u THEN NoUser ELSE account[g]]
     /\ UNCHANGED <<made, users, claimedTg, identity, session, token, notes,
                    login, job, requester, granted>>

-----------------------------------------------------------------------------
(* LinkTelegramByToken for /start link_<t> from g.  Its first statements   *)
(* take the token and the account of g, if there is one.                   *)
LinkBegin(w, g, t) ==
  /\ ~Running(w)
  /\ token[t].state = "valid"
  /\ ~TokenLocked(t)
  /\ ~AccountLocked(g)
  /\ job' = [job EXCEPT ![w] = [NoJob EXCEPT !.pc = "begun", !.tg = g,
               !.token = t, !.target = token[t].user, !.existing = account[g]]]
  /\ UNCHANGED <<made, users, claimedTg, identity, account, session, token,
                 notes, login, requester, granted>>

OfAnotherUser(w) == job[w].existing \notin {NoUser, Target(w)}
MergeableWithData(w) ==
  /\ EmailsOf(job[w].existing) = {}
  /\ Cardinality(EmailsOf(Target(w))) = 1
Mergeable(w) ==
  /\ EmailsOf(job[w].existing) = {}
  /\ notes[Target(w)] = 0
  /\ Cardinality(EmailsOf(Target(w))) = 1

(* The three counts are one step, at that of the data: nothing but         *)
(* captures changes what they count meanwhile, because the row locks of    *)
(* the account and the token keep the logins of both users as they are.    *)
LinkCounts(w) ==
  /\ job[w].pc = "begun"
  /\ OfAnotherUser(w)
  /\ Mergeable(w)
  /\ job' = [job EXCEPT ![w].pc = "counted"]
  /\ UNCHANGED <<made, users, claimedTg, identity, account, session, token,
                 notes, login, requester, granted>>

(* What every successful link does: the token is used, the handler ends.   *)
Succeeds(w) ==
  /\ job' = [job EXCEPT ![w] = NoJob]
  /\ granted' = granted \union {<<job[w].token, job[w].tg>>}

LoginLeft(u, keep) == identity
LoginMoved(u, keep) == [e \in Emails |-> IF identity[e] = u THEN keep ELSE identity[e]]

(* Deleting a user deletes its rows.                                       *)
NothingDeleted(u, rows, deleted) == rows
Without(u, rows, deleted) ==
  [r \in DOMAIN rows |-> IF rows[r].user = u THEN deleted ELSE rows[r]]

(* The login moves, the sessions are revoked, one is made for the user     *)
(* that stays, and the web user is deleted: sessions, tokens, Telegram     *)
(* account and data go with it.  The bot makes no use of the session.      *)
MergeTheOtherWay(w, s) ==
  /\ job[w].pc = "counted"
  /\ account' = [account EXCEPT ![job[w].tg] = Target(w)]
  /\ token' = [token EXCEPT ![job[w].token] = Ended]
  /\ Succeeds(w)
  /\ UNCHANGED <<made, users, claimedTg, identity, session, notes, login, requester>>
MergeAccounts(w, s) ==
  LET u == Target(w)
      keep == job[w].existing
  IN /\ job[w].pc = "counted"
     /\ session[s].state = "unissued"
     /\ ~LockedByAnother(w, u)
     /\ identity' = LoginMoved(u, keep)
     /\ session' = [Without(u, session, Unissued) EXCEPT ![s] = Issued(keep)]
     /\ users' = users \ {u}
     /\ claimedTg' = [claimedTg EXCEPT ![u] = None]
     /\ account' = [g \in TgIds |-> IF account[g] = u THEN NoUser ELSE account[g]]
     /\ token' = Without(u, token, Ended)
     /\ notes' = [notes EXCEPT ![u] = 0]
     /\ Succeeds(w)
     /\ UNCHANGED <<made, login, requester>>

(* No row was found: the insert may still meet another one, of this        *)
(* Telegram id or of this user.                                            *)
AttachAccount(w) ==
  /\ job[w].pc = "begun"
  /\ job[w].existing = NoUser
  /\ account[job[w].tg] = NoUser
  /\ AccountsOf(Target(w)) = {}
  /\ account' = [account EXCEPT ![job[w].tg] = Target(w)]
  /\ token' = [token EXCEPT ![job[w].token] = Ended]
  /\ Succeeds(w)
  /\ UNCHANGED <<made, users, claimedTg, identity, session, notes, login, requester>>

(* Linked already: only the chat and the token change.                     *)
RefreshAnyAccount(w) ==
  /\ job[w].pc = "begun"
  /\ job[w].existing # NoUser
  /\ token' = [token EXCEPT ![job[w].token] = Ended]
  /\ Succeeds(w)
  /\ UNCHANGED <<made, users, claimedTg, identity, account, session, notes,
                 login, requester>>
RefreshAccount(w) ==
  /\ job[w].pc = "begun"
  /\ job[w].existing = Target(w)
  /\ token' = [token EXCEPT ![job[w].token] = Ended]
  /\ Succeeds(w)
  /\ UNCHANGED <<made, users, claimedTg, identity, account, session, notes,
                 login, requester>>

(* A conflict, an error, a deadlock or a crash: nothing is changed.        *)
LinkRollsBack(w) ==
  /\ Running(w)
  /\ job' = [job EXCEPT ![w] = NoJob]
  /\ UNCHANGED <<made, users, claimedTg, identity, account, session, token,
                 notes, login, requester, granted>>

-----------------------------------------------------------------------------
(* UpsertUser, for a configured id, when a scheduler runs: without an      *)
(* account a user and an account are made, if no user holds the id.  Its   *)
(* statements are one step: whatever the first one saw, unique indexes of  *)
(* both tables fail the inserts unless this still holds when they are made. *)
UpsertUser(g) ==
  /\ made < MaxUsers
  /\ account[g] = NoUser
  /\ \A u \in users : claimedTg[u] # g
  /\ made' = made + 1
  /\ users' = users \union {made + 1}
  /\ claimedTg' = [claimedTg EXCEPT ![made + 1] = g]
  /\ account' = [account EXCEPT ![g] = made + 1]
  /\ UNCHANGED <<identity, session, token, notes, login, job, requester, granted>>

(* A note is captured for the user of a session, or of a Telegram account. *)
Capture(u) ==
  /\ notes[u] < MaxNotes
  /\ notes' = [notes EXCEPT ![u] = @ + 1]
  /\ job' = [w \in Workers |->
       IF job[w].pc = "counted" /\ Target(w) = u THEN [job[w] EXCEPT !.late = TRUE]
       ELSE job[w]]
  /\ UNCHANGED <<made, users, claimedTg, identity, account, session, token,
                 login, requester, granted>>

CaptureByWeb(s) == Principal(s) # NoUser /\ Capture(Principal(s))
(* ResolveTelegramUser writes the account's row, so it waits for a link.   *)
ResolveTelegramUser(g, u) == account[g] = u /\ ~AccountLocked(g)
CaptureByBot(g) == \E u \in users : ResolveTelegramUser(g, u) /\ Capture(u)

Link(w) ==
  \/ LinkCounts(w)
  \/ \E s \in Sessions : MergeAccounts(w, s)
  \/ AttachAccount(w)
  \/ RefreshAccount(w)
  \/ LinkRollsBack(w)

Next ==
  \/ \E e \in Emails, s \in Sessions : Register(e, s) \/ LoginInserts(e, s)
  \/ \E e \in Emails : LoginReads(e)
  \/ \E s \in Sessions :
       Logout(s) \/ UnlinkTelegram(s) \/ CaptureByWeb(s)
  \/ \E s \in Sessions, t \in Tokens : CreateTelegramLink(s, t)
  \/ \E t \in Tokens : LinkExpires(t)
  \/ \E w \in Workers, g \in TgIds, t \in Tokens : LinkBegin(w, g, t)
  \/ \E w \in Workers : Link(w)
  \/ \E g \in Configured : UpsertUser(g)
  \/ \E g \in TgIds : CaptureByBot(g)

Spec == Init /\ [][Next]_vars

-----------------------------------------------------------------------------
(* Rows and handlers keep their types.                                     *)
TypeOK ==
  /\ made \in 0..MaxUsers
  /\ users \subseteq 1..made
  /\ claimedTg \in [Users -> TgIds \union {None}]
  /\ identity \in [Emails -> users \union {NoUser}]
  /\ account \in [TgIds -> users \union {NoUser}]
  /\ session \in [Sessions -> Row]
  /\ token \in [Tokens -> Row]
  /\ notes \in [Users -> 0..MaxNotes]
  /\ login \in [Emails -> Users \union {NoUser}]
  /\ job \in [Workers -> Job]
  /\ requester \in [Tokens -> Emails \union {None}]
  /\ granted \subseteq Tokens \X TgIds

(* However links and logins interleave, two people never share a user: a   *)
(* second login is not moved to a user that has one (LinkTelegramByToken   *)
(* counts under the lock of the account's row).                            *)
OneLogin == \A u \in users : Cardinality(EmailsOf(u)) <= 1

(* A session that the middleware accepts is of a user someone can log in   *)
(* to: no session of a merged user survives or is made after.              *)
SessionsHaveLogin == \A s \in Sessions : session[s].state = "valid" =>
  session[s].user \in users /\ EmailsOf(session[s].user) # {}

(* A link is answered with success once, for one Telegram user, however    *)
(* often and by whomever it is opened at the same time.                    *)
LinkUsedOnce == \A p, q \in granted : p[1] = q[1] => p = q

(* Data is never out of reach: its user has a login or a Telegram account  *)
(* (unlinking takes a session, and a login that moves leaves no data).     *)
NotesReachable == \A u \in users :
  notes[u] > 0 => EmailsOf(u) \union AccountsOf(u) # {}

(* Who opens a link becomes the Telegram side of the person who asked for  *)
(* it, by whichever of the ways to link.                                   *)
LinkJoinsTheRequester == [][\A p \in granted' \ granted :
  account'[p[2]] = identity'[requester[p[1]]]]_vars

(* Once registered an address can log in, also when the merged user is     *)
(* deleted, and what the person sees then never shrinks, except for what   *)
(* was captured after a link counted the data and before it deleted them.  *)
DataSurvivesLinking == [][\A e \in Emails :
  LET u == identity[e] v == identity'[e]
  IN u \in Users =>
       /\ v \in Users
       /\ notes'[v] < notes[u] =>
            \E w \in Workers : job[w].pc = "counted" /\ Target(w) = u /\ job[w].late]_vars

(* Messages of a Telegram user are accepted only once its account has been *)
(* linked (README.md: the configured ids do not create users).             *)
OnlyLinksAdmit == [][\A g \in TgIds :
  account[g] = NoUser /\ account'[g] # NoUser => granted' # granted]_vars
=============================================================================
