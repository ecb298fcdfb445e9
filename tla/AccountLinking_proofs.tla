----------------------- MODULE AccountLinking_proofs -------------------------
(***************************************************************************)
(* However logins, links, merges and captures interleave, for any number   *)
(* of people, Telegram users and handlers: no two people share a user, a   *)
(* link is used once and joins who opened it to who asked for it, and no   *)
(* data is lost but what is captured between a link's count and its merge. *)
(*                                                                         *)
(* The argument is about the row locks of LinkTelegramByToken.  While a    *)
(* transaction runs, neither its target nor the user of its account can be *)
(* deleted, its account keeps its user, and no other transaction has its   *)
(* token or its account; so what it has counted of the logins stays true.  *)
(***************************************************************************)
EXTENDS AccountLinking, FiniteSetTheorems, TLAPS

(* A Telegram account is of one user, a user has one at most, and one      *)
(* login at most.                                                          *)
AccountsDiffer == \A g, h \in TgIds :
  account[g] = account[h] /\ account[g] # NoUser => g = h
LoginsDiffer == \A e, f \in Emails :
  identity[e] = identity[f] /\ identity[e] # NoUser => e = f

(* What a Login has read is current, or the user is gone for good.         *)
LoginsCurrent == \A e \in Emails :
  /\ login[e] <= made
  /\ login[e] \in users => identity[e] = login[e]

(* A token that can be used is of the user of the address that asked.      *)
TokenOK(t) == token[t].state = "valid" =>
  /\ token[t].user \in users
  /\ requester[t] \in Emails
  /\ identity[requester[t]] = token[t].user
TokensOK == \A t \in Tokens : TokenOK(t)

(* What a transaction has found is still true.                             *)
JobOK(w) == Running(w) =>
  /\ job[w].tg \in TgIds /\ job[w].token \in Tokens
  /\ Target(w) \in users
  /\ token[job[w].token].state # "unissued"
  /\ token[job[w].token].state = "valid" => token[job[w].token].user = Target(w)
  /\ requester[job[w].token] \in Emails
  /\ identity[requester[job[w].token]] = Target(w)
  /\ job[w].existing # NoUser => account[job[w].tg] = job[w].existing
  /\ job[w].pc = "counted" =>
       /\ OfAnotherUser(w)
       /\ \A e \in Emails : identity[e] # job[w].existing
       /\ notes[Target(w)] = 0 \/ job[w].late
JobsOK == \A w \in Workers : JobOK(w)

(* Transactions have their tokens and accounts to themselves.              *)
JobsApart == \A v, w \in Workers : Running(v) /\ Running(w) /\ v # w =>
  /\ job[v].token # job[w].token
  /\ job[v].existing # NoUser /\ job[w].existing # NoUser => job[v].tg # job[w].tg

(* A link that was granted has used its token up.                          *)
GrantedEnded == \A p \in granted :
  /\ token[p[1]].state = "ended"
  /\ \A w \in Workers : Running(w) => job[w].token # p[1]

IInv == /\ TypeOK
        /\ AccountsDiffer /\ LoginsDiffer /\ LoginsCurrent
        /\ SessionsHaveLogin /\ TokensOK /\ JobsOK /\ JobsApart
        /\ GrantedEnded /\ LinkUsedOnce /\ NotesReachable
-----------------------------------------------------------------------------
(* Users are numbers from 1, and the next one is new.                      *)
LEMMA UserNumbers ==
  ASSUME TypeOK
  PROVE  /\ users \subseteq Users /\ NoUser \notin users /\ NoUser \notin Users
         /\ made \in Nat /\ made + 1 \notin users /\ made + 1 # NoUser
         /\ \A u \in Users : u \in Nat
         /\ made < MaxUsers => made + 1 \in Users
BY AccountAssumption DEF TypeOK, Users, NoUser

LEMMA Rows ==
  /\ Unissued \in Row /\ Ended \in Row
  /\ \A u \in Users : Issued(u) \in Row
  /\ \A u : Issued(u).user = u /\ Issued(u).state = "valid"
BY DEF Unissued, Ended, Issued, Row

LEMMA SetOfOne ==
  ASSUME NEW S, \A x, y \in S : x = y
  PROVE  IsFiniteSet(S) /\ (Cardinality(S) = 1 <=> S # {}) /\ Cardinality(S) <= 1
<1>1. CASE S = {} BY <1>1, FS_EmptySet
<1>2. ASSUME NEW x \in S PROVE IsFiniteSet(S) /\ Cardinality(S) = 1
  <2>1. S = {x} BY <1>2
  <2> QED BY <2>1, FS_Singleton
<1> QED BY <1>1, <1>2

(* The middleware's user has a login.                                      *)
LEMMA PrincipalHasLogin ==
  ASSUME IInv, NEW s \in Sessions, Principal(s) # NoUser
  PROVE  /\ Principal(s) \in users
         /\ Principal(s) = session[s].user
         /\ \E e \in Emails : identity[e] = Principal(s)
<1>1. TypeOK /\ SessionsHaveLogin BY DEF IInv
<1>2. CASE CurrentUserBySessionHash(s) = {}
  <2>1. Principal(s) = CHOOSE u \in Users \union {NoUser} : u = NoUser
    BY <1>2 DEF Principal
  <2> QED BY <2>1
<1>3. CASE CurrentUserBySessionHash(s) # {}
  <2>1. PICK u \in users : session[s].state = "valid" /\ session[s].user = u
    BY <1>3 DEF CurrentUserBySessionHash
  <2>2. CurrentUserBySessionHash(s) = {u} BY <2>1 DEF CurrentUserBySessionHash
  <2>3. Principal(s) = CHOOSE v \in Users \union {NoUser} : v \in {u}
    BY <1>3, <2>2 DEF Principal
  <2>4. u \in Users BY <1>1, UserNumbers
  <2>5. Principal(s) = u BY <2>3, <2>4
  <2> QED BY <1>1, <2>1, <2>5 DEF SessionsHaveLogin, EmailsOf
<1> QED BY <1>2, <1>3

LEMMA CleanedUp ==
  ASSUME NEW R, NEW rows \in [R -> Row]
  PROVE  /\ CleanupAuth(rows) \in [R -> Row]
         /\ \A r \in R : CleanupAuth(rows)[r].state = "valid" =>
              CleanupAuth(rows)[r] = rows[r]
BY Rows DEF CleanupAuth, Unissued

(* The user of data has a login or an account, as a formula about rows.    *)
HasSide(u) == (\E e \in Emails : identity[e] = u) \/ (\E g \in TgIds : account[g] = u)
LEMMA Reachable ==
  NotesReachable <=> \A u \in users : notes[u] > 0 => HasSide(u)
BY DEF NotesReachable, EmailsOf, AccountsOf, HasSide
LEMMA ReachableNext ==
  NotesReachable' <=> \A u \in users' : notes'[u] > 0 => HasSide(u)'
BY DEF NotesReachable, EmailsOf, AccountsOf, HasSide

-----------------------------------------------------------------------------
LEMMA InitIInv == Init => IInv
<1> SUFFICES ASSUME Init PROVE IInv OBVIOUS
<1>1. \A w \in Workers : ~Running(w) BY DEF Init, Running, NoJob
<1>2. TypeOK
  BY AccountAssumption DEF Init, TypeOK, Row, Unissued, Job, NoJob, PC, Users
<1> QED
  BY <1>1, <1>2 DEF Init, IInv, AccountsDiffer, LoginsDiffer, LoginsCurrent,
     SessionsHaveLogin, TokensOK, TokenOK, JobsOK, JobOK, JobsApart, GrantedEnded,
     LinkUsedOnce, NotesReachable, Unissued, NoUser

(* Requests that make or end sessions.                                     *)
LEMMA RegisterIInv ==
  ASSUME IInv, NEW e \in Emails, NEW s \in Sessions, Register(e, s)
  PROVE  IInv'
<1> USE DEF Register, CreateUserWithIdentityAndSession
<1>1. TypeOK BY DEF IInv
<1> DEFINE u == made + 1
<1>2. /\ u \in Users /\ u \notin users /\ made' = u /\ users' = users \union {u}
      /\ identity[e] = NoUser
      /\ identity' = [identity EXCEPT ![e] = u]
  BY <1>1, UserNumbers
<1>3. session' = [CleanupAuth(session) EXCEPT ![s] = Issued(u)]
  BY <1>2 DEF CreateSession
<1>4. session' \in [Sessions -> Row] BY <1>1, <1>2, <1>3, CleanedUp, Rows DEF TypeOK
<1>5. \A x \in Sessions : session'[x].state = "valid" =>
        IF x = s THEN session'[x].user = u ELSE session'[x] = session[x]
  BY <1>1, <1>3, CleanedUp, Rows DEF TypeOK
<1>6. TypeOK'
  BY <1>1, <1>2, <1>4, UserNumbers, AccountAssumption DEF TypeOK
<1>7. SessionsHaveLogin'
  BY <1>1, <1>2, <1>5, UserNumbers DEF IInv, TypeOK, SessionsHaveLogin, EmailsOf
<1>8. AccountsDiffer' /\ LoginsDiffer'
  BY <1>1, <1>2, UserNumbers DEF IInv, TypeOK, AccountsDiffer, LoginsDiffer
<1>9. LoginsCurrent'
  <2>1. \A f \in Emails : login[f] \in Nat /\ login[f] <= made
    BY <1>1 DEF IInv, TypeOK, LoginsCurrent, Users, NoUser
  <2>2. \A f \in Emails : login[f] # u BY <1>1, <2>1, UserNumbers
  <2>3. identity[e] \notin users BY <1>1, <1>2, UserNumbers
  <2> QED BY <1>1, <1>2, <2>1, <2>2, <2>3, UserNumbers DEF IInv, TypeOK, LoginsCurrent
<1>10. TokensOK' /\ JobsApart' /\ GrantedEnded' /\ LinkUsedOnce' /\ NotesReachable'
  BY <1>1, <1>2, UserNumbers DEF IInv, TypeOK, TokensOK, TokenOK, JobsApart, Running,
     GrantedEnded, LinkUsedOnce, NotesReachable, EmailsOf, AccountsOf
<1>11. JobsOK'
  BY <1>1, <1>2, UserNumbers DEF IInv, TypeOK, JobsOK, JobOK, Running, Target, OfAnotherUser
<1> QED BY <1>6, <1>7, <1>8, <1>9, <1>10, <1>11 DEF IInv
LEMMA LoginReadsIInv ==
  ASSUME IInv, NEW e \in Emails, LoginReads(e)
  PROVE  IInv'
<1> USE DEF LoginReads
<1>1. TypeOK BY DEF IInv
<1>2. session' = CleanupAuth(session) /\ login' = [login EXCEPT ![e] = identity[e]]
  OBVIOUS
<1>3. session' \in [Sessions -> Row] BY <1>1, <1>2, CleanedUp DEF TypeOK
<1>4. \A x \in Sessions : session'[x].state = "valid" => session'[x] = session[x]
  BY <1>1, <1>2, CleanedUp DEF TypeOK
<1>5. identity[e] \in Users /\ identity[e] \in Nat /\ identity[e] <= made
  <2>1. identity[e] \in users BY <1>1 DEF TypeOK
  <2>2. identity[e] \in 1..made BY <1>1, <2>1 DEF TypeOK
  <2>3. identity[e] \in Users BY <1>1, <2>1, UserNumbers
  <2> QED BY <2>2, <2>3
<1>6. TypeOK' BY <1>1, <1>2, <1>3, <1>5 DEF TypeOK
<1>7. SessionsHaveLogin' BY <1>4 DEF IInv, SessionsHaveLogin, EmailsOf
<1>8. LoginsCurrent' BY <1>1, <1>2, <1>5 DEF IInv, TypeOK, LoginsCurrent
<1>9. /\ AccountsDiffer' /\ LoginsDiffer' /\ TokensOK' /\ JobsOK' /\ JobsApart'
      /\ GrantedEnded' /\ LinkUsedOnce' /\ NotesReachable'
  BY DEF IInv, AccountsDiffer, LoginsDiffer, TokensOK, TokenOK, JobsOK, JobOK,
     JobsApart, Running, Target, OfAnotherUser, GrantedEnded, LinkUsedOnce,
     NotesReachable, EmailsOf, AccountsOf
<1> QED BY <1>6, <1>7, <1>8, <1>9 DEF IInv

(* The foreign key: a session is made only for a user that is there, whose *)
(* login is then still the one that was read.                              *)
LEMMA LoginInsertsIInv ==
  ASSUME IInv, NEW e \in Emails, NEW s \in Sessions, LoginInserts(e, s)
  PROVE  IInv'
<1> USE DEF LoginInserts
<1>1. TypeOK BY DEF IInv
<1>2. login' = [login EXCEPT ![e] = NoUser] OBVIOUS
<1>3. ASSUME login[e] \in users PROVE session' \in [Sessions -> Row] /\ SessionsHaveLogin'
  <2>1. session' = [session EXCEPT ![s] = Issued(login[e])] BY <1>3 DEF CreateSession
  <2>2. login[e] \in Users BY <1>1, <1>3, UserNumbers
  <2>3. session' \in [Sessions -> Row] BY <1>1, <2>1, <2>2, Rows DEF TypeOK
  <2>4. identity[e] = login[e] BY <1>3 DEF IInv, LoginsCurrent
  <2>5. SessionsHaveLogin'
    BY <1>1, <1>3, <2>1, <2>4, Rows DEF IInv, TypeOK, SessionsHaveLogin, EmailsOf
  <2> QED BY <2>3, <2>5
<1>4. ASSUME login[e] \notin users
      PROVE  session' \in [Sessions -> Row] /\ SessionsHaveLogin'
  BY <1>1, <1>4 DEF CreateSession, IInv, TypeOK, SessionsHaveLogin, EmailsOf
<1>5. session' \in [Sessions -> Row] /\ SessionsHaveLogin'
  BY <1>3, <1>4
<1>6. TypeOK' BY <1>1, <1>2, <1>5 DEF TypeOK
<1>7. LoginsCurrent' BY <1>1, <1>2, UserNumbers DEF IInv, TypeOK, LoginsCurrent, NoUser
<1>8. /\ AccountsDiffer' /\ LoginsDiffer' /\ TokensOK' /\ JobsOK' /\ JobsApart'
      /\ GrantedEnded' /\ LinkUsedOnce' /\ NotesReachable'
  BY DEF IInv, AccountsDiffer, LoginsDiffer, TokensOK, TokenOK, JobsOK, JobOK,
     JobsApart, Running, Target, OfAnotherUser, GrantedEnded, LinkUsedOnce,
     NotesReachable, EmailsOf, AccountsOf
<1> QED BY <1>5, <1>6, <1>7, <1>8 DEF IInv

LEMMA LogoutIInv ==
  ASSUME IInv, NEW s \in Sessions, Logout(s)
  PROVE  IInv'
<1> USE DEF Logout
<1>1. TypeOK' BY Rows DEF IInv, TypeOK
<1>2. SessionsHaveLogin' BY DEF IInv, TypeOK, SessionsHaveLogin, EmailsOf, Ended
<1>3. /\ AccountsDiffer' /\ LoginsDiffer' /\ LoginsCurrent' /\ TokensOK' /\ JobsOK'
      /\ JobsApart' /\ GrantedEnded' /\ LinkUsedOnce' /\ NotesReachable'
  BY DEF IInv, AccountsDiffer, LoginsDiffer, LoginsCurrent, TokensOK, TokenOK, JobsOK,
     JobOK, JobsApart, Running, Target, OfAnotherUser, GrantedEnded, LinkUsedOnce,
     NotesReachable, EmailsOf, AccountsOf
<1> QED BY <1>1, <1>2, <1>3 DEF IInv

-----------------------------------------------------------------------------
(* Requests about links.  Whoever asks has a login.                        *)
LEMMA CreateTelegramLinkIInv ==
  ASSUME IInv, NEW s \in Sessions, NEW t \in Tokens, CreateTelegramLink(s, t)
  PROVE  IInv'
<1> DEFINE u == Principal(s)
           e == CHOOSE x \in Emails : identity[x] = u
           spent == {x \in Tokens : token[x].user = u /\ token[x].state = "valid"}
<1> USE DEF CreateTelegramLink
<1>1. TypeOK BY DEF IInv
<1>2. /\ u # NoUser /\ token[t].state = "unissued"
      /\ session' = CleanupAuth(session)
      /\ \A x \in spent : ~TokenLocked(x)
      /\ token' = [x \in Tokens |-> IF x = t THEN Issued(u)
                                    ELSE IF x \in spent THEN Ended ELSE token[x]]
      /\ requester' = [requester EXCEPT ![t] = e]
  BY DEF CreateTelegramLinkToken
<1>3. u \in users /\ e \in Emails /\ identity[e] = u BY <1>2, PrincipalHasLogin
<1>4. u \in Users BY <1>1, <1>3, UserNumbers
<1> HIDE DEF u, e
<1>5. session' \in [Sessions -> Row]
  BY <1>1, <1>2, CleanedUp DEF TypeOK
<1>6. \A x \in Sessions : session'[x].state = "valid" => session'[x] = session[x]
  BY <1>1, <1>2, CleanedUp DEF TypeOK
<1>7. token' \in [Tokens -> Row] BY <1>1, <1>2, <1>4, Rows DEF TypeOK
<1>8. TypeOK' BY <1>1, <1>2, <1>3, <1>5, <1>7 DEF TypeOK
<1>9. SessionsHaveLogin' BY <1>6 DEF IInv, SessionsHaveLogin, EmailsOf
<1>10. TokensOK'
  BY <1>1, <1>2, <1>3, Rows DEF IInv, TypeOK, TokensOK, TokenOK, Ended
<1>11. \A w \in Workers : Running(w) => job[w].token \in Tokens /\ job[w].token # t
                                        /\ job[w].token \notin spent
  BY <1>2 DEF IInv, JobsOK, JobOK, TokenLocked
<1>12. JobsOK'
  BY <1>1, <1>2, <1>11 DEF IInv, TypeOK, JobsOK, JobOK, Running, Target, OfAnotherUser
<1>13. GrantedEnded'
  BY <1>1, <1>2 DEF IInv, TypeOK, GrantedEnded, Running
<1>14. /\ AccountsDiffer' /\ LoginsDiffer' /\ LoginsCurrent' /\ JobsApart'
       /\ LinkUsedOnce' /\ NotesReachable'
  BY DEF IInv, AccountsDiffer, LoginsDiffer, LoginsCurrent, JobsApart, Running,
     LinkUsedOnce, NotesReachable, EmailsOf, AccountsOf
<1> QED BY <1>8, <1>9, <1>10, <1>12, <1>13, <1>14 DEF IInv

LEMMA LinkExpiresIInv ==
  ASSUME IInv, NEW t \in Tokens, LinkExpires(t)
  PROVE  IInv'
<1> USE DEF LinkExpires
<1>1. TypeOK /\ TypeOK' BY Rows DEF IInv, TypeOK
<1>2. TokensOK' /\ JobsOK' /\ GrantedEnded'
  BY <1>1 DEF IInv, TypeOK, TokensOK, TokenOK, JobsOK, JobOK, Running, Target,
     OfAnotherUser, GrantedEnded, Ended
<1>3. /\ AccountsDiffer' /\ LoginsDiffer' /\ LoginsCurrent' /\ SessionsHaveLogin'
      /\ JobsApart' /\ LinkUsedOnce' /\ NotesReachable'
  BY DEF IInv, AccountsDiffer, LoginsDiffer, LoginsCurrent, SessionsHaveLogin, JobsApart,
     Running, LinkUsedOnce, NotesReachable, EmailsOf, AccountsOf
<1> QED BY <1>1, <1>2, <1>3 DEF IInv

LEMMA UnlinkTelegramIInv ==
  ASSUME IInv, NEW s \in Sessions, UnlinkTelegram(s)
  PROVE  IInv'
<1> DEFINE u == Principal(s)
<1> USE DEF UnlinkTelegram
<1>1. TypeOK BY DEF IInv
<1>2. u # NoUser /\ \A g \in AccountsOf(u) : ~AccountLocked(g) OBVIOUS
<1>3. account' = [g \in TgIds |-> IF account[g] = u THEN NoUser ELSE account[g]]
  OBVIOUS
<1>4. u \in users /\ \E e \in Emails : identity[e] = u BY <1>2, PrincipalHasLogin
<1> HIDE DEF u
<1>5. TypeOK' BY <1>1, <1>3 DEF TypeOK
<1>6. AccountsDiffer' BY <1>1, <1>3 DEF IInv, TypeOK, AccountsDiffer
<1>7. NotesReachable'
  BY <1>1, <1>3, <1>4, Reachable, ReachableNext DEF IInv, TypeOK, HasSide
<1>8. \A w \in Workers : Running(w) /\ job[w].existing # NoUser => job[w].existing # u
  BY <1>2 DEF IInv, JobsOK, JobOK, AccountsOf, AccountLocked
<1>9. JobsOK'
  BY <1>1, <1>3, <1>8 DEF IInv, TypeOK, JobsOK, JobOK, Running, Target, OfAnotherUser
<1>10. /\ LoginsDiffer' /\ LoginsCurrent' /\ SessionsHaveLogin' /\ TokensOK'
       /\ JobsApart' /\ GrantedEnded' /\ LinkUsedOnce'
  BY DEF IInv, LoginsDiffer, LoginsCurrent, SessionsHaveLogin, TokensOK, TokenOK,
     JobsApart, Running, GrantedEnded, LinkUsedOnce, EmailsOf
<1> QED BY <1>5, <1>6, <1>7, <1>9, <1>10 DEF IInv
-----------------------------------------------------------------------------
(* A note of a user that has a login or an account.                        *)
LEMMA CaptureIInv ==
  ASSUME IInv, NEW u \in users, Capture(u), HasSide(u)
  PROVE  IInv'
<1> USE DEF Capture
<1>1. TypeOK BY DEF IInv
<1>2. /\ notes' = [notes EXCEPT ![u] = @ + 1] /\ notes[u] < MaxNotes
      /\ job' = [w \in Workers |->
           IF job[w].pc = "counted" /\ Target(w) = u THEN [job[w] EXCEPT !.late = TRUE]
           ELSE job[w]]
  OBVIOUS
<1>3. u \in Users BY <1>1, UserNumbers
<1>4. job' \in [Workers -> Job]
  <2>1. \A w \in Workers : [job[w] EXCEPT !.late = TRUE] \in Job
    BY <1>1 DEF TypeOK, Job
  <2> QED BY <1>1, <1>2, <2>1 DEF TypeOK
<1>5. \A w \in Workers :
        /\ job'[w].pc = job[w].pc /\ job'[w].tg = job[w].tg
        /\ job'[w].token = job[w].token /\ job'[w].target = job[w].target
        /\ job'[w].existing = job[w].existing
        /\ job[w].late => job'[w].late
        /\ job[w].pc = "counted" /\ job[w].target = u => job'[w].late
  BY <1>1, <1>2 DEF TypeOK, Job, Target
<1>6. notes' \in [Users -> 0..MaxNotes]
  BY <1>1, <1>2, <1>3, AccountAssumption DEF TypeOK
<1>7. TypeOK' BY <1>1, <1>4, <1>6 DEF TypeOK
<1>8. JobsOK'
  BY <1>1, <1>2, <1>3, <1>5 DEF IInv, TypeOK, JobsOK, JobOK, Running, Target, OfAnotherUser
<1>9. JobsApart' /\ GrantedEnded'
  BY <1>5 DEF IInv, JobsApart, GrantedEnded, Running
<1>10. NotesReachable'
  BY <1>1, <1>2, <1>3, Reachable, ReachableNext DEF IInv, TypeOK, HasSide
<1>11. /\ AccountsDiffer' /\ LoginsDiffer' /\ LoginsCurrent' /\ SessionsHaveLogin'
       /\ TokensOK' /\ LinkUsedOnce'
  BY DEF IInv, AccountsDiffer, LoginsDiffer, LoginsCurrent, SessionsHaveLogin, EmailsOf,
     TokensOK, TokenOK, LinkUsedOnce
<1> QED BY <1>7, <1>8, <1>9, <1>10, <1>11 DEF IInv

LEMMA CapturesIInv ==
  /\ \A s \in Sessions : IInv /\ CaptureByWeb(s) => IInv'
  /\ \A g \in TgIds : IInv /\ CaptureByBot(g) => IInv'
<1>1. ASSUME IInv, NEW s \in Sessions, CaptureByWeb(s) PROVE IInv'
  BY <1>1, PrincipalHasLogin, CaptureIInv DEF CaptureByWeb, HasSide
<1>2. ASSUME IInv, NEW g \in TgIds, CaptureByBot(g) PROVE IInv'
  BY <1>2, CaptureIInv DEF CaptureByBot, ResolveTelegramUser, HasSide
<1> QED BY <1>1, <1>2

LEMMA UpsertUserIInv ==
  ASSUME IInv, NEW g \in Configured, UpsertUser(g)
  PROVE  IInv'
<1> DEFINE u == made + 1
<1> USE DEF UpsertUser
<1>1. TypeOK /\ g \in TgIds BY AccountAssumption DEF IInv
<1>2. /\ u \in Users /\ u \notin users /\ made' = u /\ users' = users \union {u}
      /\ account[g] = NoUser
      /\ claimedTg' = [claimedTg EXCEPT ![u] = g]
      /\ account' = [account EXCEPT ![g] = u]
  BY <1>1, UserNumbers
<1>3. TypeOK' BY <1>1, <1>2, UserNumbers, AccountAssumption DEF TypeOK
<1>4. AccountsDiffer' BY <1>1, <1>2, UserNumbers DEF IInv, TypeOK, AccountsDiffer
<1>5. LoginsCurrent'
  <2>1. \A f \in Emails : login[f] \in Nat /\ login[f] <= made
    BY <1>1 DEF IInv, TypeOK, LoginsCurrent, Users, NoUser
  <2>2. \A f \in Emails : login[f] # u BY <1>1, <2>1, UserNumbers
  <2> QED BY <1>1, <1>2, <2>1, <2>2, UserNumbers DEF IInv, LoginsCurrent
<1>6. JobsOK'
  BY <1>1, <1>2 DEF IInv, TypeOK, JobsOK, JobOK, Running, Target, OfAnotherUser
<1>7. NotesReachable'
  <2>1. \E h \in TgIds : account'[h] = u BY <1>1, <1>2 DEF TypeOK
  <2>2. \A v \in users : HasSide(v) => HasSide(v)'
    BY <1>1, <1>2, UserNumbers DEF TypeOK, HasSide
  <2>3. NotesReachable BY DEF IInv
  <2>4. ASSUME NEW v \in users', notes'[v] > 0 PROVE HasSide(v)'
    <3>1. CASE v = u BY <2>1, <3>1 DEF HasSide
    <3>2. CASE v \in users BY <2>2, <2>3, <2>4, <3>2, Reachable
    <3> QED BY <1>2, <3>1, <3>2
  <2> QED BY <2>4, ReachableNext
<1>8. /\ LoginsDiffer' /\ SessionsHaveLogin' /\ TokensOK' /\ JobsApart'
      /\ GrantedEnded' /\ LinkUsedOnce'
  BY <1>2 DEF IInv, LoginsDiffer, SessionsHaveLogin, EmailsOf, TokensOK, TokenOK, JobsApart,
     Running, GrantedEnded, LinkUsedOnce
<1> QED BY <1>3, <1>4, <1>5, <1>6, <1>7, <1>8 DEF IInv

-----------------------------------------------------------------------------
(* LinkTelegramByToken.                                                    *)
LEMMA LinkBeginIInv ==
  ASSUME IInv, NEW w \in Workers, NEW g \in TgIds, NEW t \in Tokens, LinkBegin(w, g, t)
  PROVE  IInv'
<1> DEFINE j == [NoJob EXCEPT !.pc = "begun", !.tg = g, !.token = t,
                   !.target = token[t].user, !.existing = account[g]]
<1> USE DEF LinkBegin
<1>1. TypeOK BY DEF IInv
<1>2. /\ j.pc = "begun" /\ j.tg = g /\ j.token = t /\ j.target = token[t].user
      /\ j.existing = account[g] /\ j.late = FALSE
  BY DEF NoJob
<1>3. j \in Job
  BY <1>1, UserNumbers DEF TypeOK, NoJob, Job, PC, Row
<1>4. job' = [job EXCEPT ![w] = j] OBVIOUS
<1> HIDE DEF j
<1>5. TypeOK' BY <1>1, <1>3, <1>4 DEF TypeOK
<1>6. TokenOK(t) /\ token[t].state = "valid" BY DEF IInv, TokensOK
<1>7. JobsOK'
  BY <1>1, <1>2, <1>4, <1>6, UserNumbers DEF IInv, TypeOK, JobsOK, JobOK, Running, Target, OfAnotherUser,
     TokenOK
<1>8. \A v \in Workers : Running(v) => /\ job[v].token # t
                                       /\ job[v].existing # NoUser => job[v].tg # g
  BY DEF TokenLocked, AccountLocked
<1>9. JobsApart' BY <1>1, <1>2, <1>4, <1>8 DEF IInv, TypeOK, JobsApart, Running
<1>10. GrantedEnded' BY <1>1, <1>2, <1>4, <1>6 DEF IInv, TypeOK, GrantedEnded, Running
<1>11. /\ AccountsDiffer' /\ LoginsDiffer' /\ LoginsCurrent' /\ SessionsHaveLogin'
       /\ TokensOK' /\ LinkUsedOnce' /\ NotesReachable'
  BY DEF IInv, AccountsDiffer, LoginsDiffer, LoginsCurrent, SessionsHaveLogin, EmailsOf,
     TokensOK, TokenOK, LinkUsedOnce, NotesReachable, AccountsOf
<1> QED BY <1>5, <1>7, <1>9, <1>10, <1>11 DEF IInv

LEMMA LinkCountsIInv ==
  ASSUME IInv, NEW w \in Workers, LinkCounts(w)
  PROVE  IInv'
<1> USE DEF LinkCounts
<1>1. TypeOK BY DEF IInv
<1>2. job' = [job EXCEPT ![w].pc = "counted"] OBVIOUS
<1>3. [job[w] EXCEPT !.pc = "counted"] \in Job BY <1>1 DEF TypeOK, Job, PC
<1>4. TypeOK' BY <1>1, <1>2, <1>3 DEF TypeOK
<1>5. \A v \in Workers :
        /\ job'[v].tg = job[v].tg /\ job'[v].token = job[v].token
        /\ job'[v].target = job[v].target /\ job'[v].existing = job[v].existing
        /\ job'[v].late = job[v].late
        /\ job'[v].pc = IF v = w THEN "counted" ELSE job[v].pc
  BY <1>1, <1>2 DEF TypeOK, Job
<1>6. /\ Running(w) /\ OfAnotherUser(w) /\ notes[Target(w)] = 0
      /\ \A e \in Emails : identity[e] # job[w].existing
  BY DEF Mergeable, EmailsOf, Running
<1>7. JobsOK'
  BY <1>5, <1>6 DEF IInv, JobsOK, JobOK, Running, Target, OfAnotherUser
<1>8. JobsApart' /\ GrantedEnded'
  BY <1>5, <1>6 DEF IInv, JobsApart, GrantedEnded, Running
<1>9. /\ AccountsDiffer' /\ LoginsDiffer' /\ LoginsCurrent' /\ SessionsHaveLogin'
      /\ TokensOK' /\ LinkUsedOnce' /\ NotesReachable'
  BY DEF IInv, AccountsDiffer, LoginsDiffer, LoginsCurrent, SessionsHaveLogin, EmailsOf,
     TokensOK, TokenOK, LinkUsedOnce, NotesReachable, AccountsOf
<1> QED BY <1>4, <1>7, <1>8, <1>9 DEF IInv

(* A transaction that ends leaves the others' locks.                       *)
LEMMA JobEnds ==
  ASSUME IInv, NEW w \in Workers, job' = [job EXCEPT ![w] = NoJob]
  PROVE  /\ job' \in [Workers -> Job] /\ ~Running(w)'
         /\ \A v \in Workers : Running(v)' => v # w /\ Running(v) /\ job'[v] = job[v]
         /\ JobsApart'
<1>1. NoJob \in Job BY DEF NoJob, Job, PC
<1>2. TypeOK BY DEF IInv
<1>3. ~Running(w)' BY <1>2 DEF Running, NoJob, TypeOK
<1>4. \A v \in Workers : Running(v)' => v # w /\ Running(v) /\ job'[v] = job[v]
  BY <1>2, <1>3 DEF Running, TypeOK
<1> QED BY <1>1, <1>2, <1>3, <1>4 DEF IInv, TypeOK, JobsApart

LEMMA LinkRollsBackIInv ==
  ASSUME IInv, NEW w \in Workers, LinkRollsBack(w)
  PROVE  IInv'
<1> USE DEF LinkRollsBack
<1>1. /\ job' \in [Workers -> Job] /\ ~Running(w)' /\ JobsApart'
      /\ \A v \in Workers : Running(v)' => v # w /\ Running(v) /\ job'[v] = job[v]
  BY JobEnds
<1>2. TypeOK' BY <1>1 DEF IInv, TypeOK
<1>3. JobsOK' BY <1>1 DEF IInv, JobsOK, JobOK, Target, OfAnotherUser, Running
<1>4. GrantedEnded' BY <1>1 DEF IInv, GrantedEnded
<1>5. /\ AccountsDiffer' /\ LoginsDiffer' /\ LoginsCurrent' /\ SessionsHaveLogin'
      /\ TokensOK' /\ LinkUsedOnce' /\ NotesReachable'
  BY DEF IInv, AccountsDiffer, LoginsDiffer, LoginsCurrent, SessionsHaveLogin, EmailsOf,
     TokensOK, TokenOK, LinkUsedOnce, NotesReachable, AccountsOf
<1> QED BY <1>1, <1>2, <1>3, <1>4, <1>5 DEF IInv
(* A link that succeeds with the token's row written.                      *)
LEMMA SucceedsIInv ==
  ASSUME IInv, NEW w \in Workers, Running(w), Succeeds(w),
         token' \in [Tokens -> Row],
         token'[job[w].token].state = "ended",
         \A t \in Tokens : token'[t] = token[t] \/ token'[t].state = "ended"
  PROVE  /\ job' \in [Workers -> Job] /\ granted' \subseteq Tokens \X TgIds
         /\ JobsApart' /\ GrantedEnded' /\ LinkUsedOnce'
         /\ \A v \in Workers : Running(v)' => v # w /\ Running(v) /\ job'[v] = job[v]
<1> DEFINE new == <<job[w].token, job[w].tg>>
<1>1. /\ job' \in [Workers -> Job] /\ ~Running(w)' /\ JobsApart'
      /\ \A v \in Workers : Running(v)' => v # w /\ Running(v) /\ job'[v] = job[v]
  BY JobEnds DEF Succeeds
<1>2. granted' = granted \union {new} BY DEF Succeeds
<1>3. TypeOK /\ job[w].token \in Tokens /\ job[w].tg \in TgIds
  BY DEF IInv, JobsOK, JobOK
<1>4. \A p \in granted : p[1] # job[w].token BY DEF IInv, GrantedEnded
<1>5. GrantedEnded'
  <2>1. ASSUME NEW p \in granted
        PROVE  /\ token'[p[1]].state = "ended"
               /\ \A v \in Workers : Running(v)' => job'[v].token # p[1]
    BY <1>1, <1>3, <2>1 DEF IInv, GrantedEnded, TypeOK
  <2>2. \A v \in Workers : Running(v)' => job'[v].token # job[w].token
    BY <1>1 DEF IInv, JobsApart
  <2> QED BY <1>2, <2>1, <2>2 DEF GrantedEnded
<1>6. LinkUsedOnce' BY <1>2, <1>4 DEF IInv, LinkUsedOnce
<1>7. granted' \subseteq Tokens \X TgIds BY <1>2, <1>3 DEF TypeOK
<1> QED BY <1>1, <1>5, <1>6, <1>7

LEMMA AttachAccountIInv ==
  ASSUME IInv, NEW w \in Workers, AttachAccount(w)
  PROVE  IInv'
<1> DEFINE t == job[w].token
           g == job[w].tg
           u == job[w].target
<1> USE DEF AttachAccount
<1>1. TypeOK BY DEF IInv
<1>2. /\ Running(w) /\ t \in Tokens /\ g \in TgIds /\ u \in users
      /\ token[t].state # "unissued"
  BY DEF Running, IInv, JobsOK, JobOK, Target
<1>3. /\ account[g] = NoUser /\ (\A h \in TgIds : account[h] # u)
      /\ account' = [account EXCEPT ![g] = u]
      /\ token' = [token EXCEPT ![t] = Ended]
  BY DEF Target, AccountsOf
<1> HIDE DEF t, g, u
<1>4. token' \in [Tokens -> Row] /\ account' \in [TgIds -> users \union {NoUser}]
  BY <1>1, <1>2, <1>3, Rows DEF TypeOK
<1>5. /\ token'[t].state = "ended"
      /\ \A x \in Tokens : token'[x] = token[x] \/ token'[x].state = "ended"
  BY <1>1, <1>2, <1>3 DEF TypeOK, Ended
<1>6. /\ job' \in [Workers -> Job] /\ granted' \subseteq Tokens \X TgIds
      /\ JobsApart' /\ GrantedEnded' /\ LinkUsedOnce'
      /\ \A v \in Workers : Running(v)' => v # w /\ Running(v) /\ job'[v] = job[v]
  BY <1>2, <1>4, <1>5, SucceedsIInv DEF t
<1>7. TypeOK' BY <1>1, <1>4, <1>6 DEF TypeOK
<1>8. AccountsDiffer' BY <1>1, <1>2, <1>3 DEF IInv, TypeOK, AccountsDiffer
<1>9. TokensOK' BY <1>5 DEF IInv, TokensOK, TokenOK
<1>10. \A h \in TgIds : account[h] # NoUser => account'[h] = account[h]
  BY <1>1, <1>3 DEF TypeOK
<1>11. JobsOK'
  BY <1>1, <1>5, <1>6, <1>10 DEF IInv, TypeOK, JobsOK, JobOK, Running, Target, OfAnotherUser
<1>12. NotesReachable'
  <2>1. \A v \in users : HasSide(v) => HasSide(v)'
    BY <1>1, <1>10, UserNumbers DEF TypeOK, HasSide
  <2> QED BY <2>1, Reachable, ReachableNext DEF IInv
<1>13. LoginsDiffer' /\ LoginsCurrent' /\ SessionsHaveLogin'
  BY DEF IInv, LoginsDiffer, LoginsCurrent, SessionsHaveLogin, EmailsOf
<1> QED BY <1>6, <1>7, <1>8, <1>9, <1>11, <1>12, <1>13 DEF IInv

LEMMA RefreshAccountIInv ==
  ASSUME IInv, NEW w \in Workers, RefreshAccount(w)
  PROVE  IInv'
<1> DEFINE t == job[w].token
<1> USE DEF RefreshAccount
<1>1. TypeOK BY DEF IInv
<1>2. Running(w) /\ t \in Tokens /\ token[t].state # "unissued"
  BY DEF Running, IInv, JobsOK, JobOK
<1>3. token' = [token EXCEPT ![t] = Ended] OBVIOUS
<1> HIDE DEF t
<1>4. token' \in [Tokens -> Row] BY <1>1, <1>2, <1>3, Rows DEF TypeOK
<1>5. /\ token'[t].state = "ended"
      /\ \A x \in Tokens : token'[x] = token[x] \/ token'[x].state = "ended"
  BY <1>1, <1>2, <1>3 DEF TypeOK, Ended
<1>6. /\ job' \in [Workers -> Job] /\ granted' \subseteq Tokens \X TgIds
      /\ JobsApart' /\ GrantedEnded' /\ LinkUsedOnce'
      /\ \A v \in Workers : Running(v)' => v # w /\ Running(v) /\ job'[v] = job[v]
  BY <1>2, <1>4, <1>5, SucceedsIInv DEF t
<1>7. TypeOK' BY <1>1, <1>4, <1>6 DEF TypeOK
<1>8. TokensOK' BY <1>5 DEF IInv, TokensOK, TokenOK
<1>9. JobsOK'
  BY <1>1, <1>5, <1>6 DEF IInv, TypeOK, JobsOK, JobOK, Running, Target, OfAnotherUser
<1>10. /\ AccountsDiffer' /\ LoginsDiffer' /\ LoginsCurrent' /\ SessionsHaveLogin'
       /\ NotesReachable'
  BY DEF IInv, AccountsDiffer, LoginsDiffer, LoginsCurrent, SessionsHaveLogin, EmailsOf,
     NotesReachable, AccountsOf
<1> QED BY <1>6, <1>7, <1>8, <1>9, <1>10 DEF IInv

(* The merge.  The user that stays had no login when it was counted, and   *)
(* has none now: its account is locked.  Nobody else works on the user     *)
(* that goes.                                                              *)
LEMMA MergeAccountsIInv ==
  ASSUME IInv, NEW w \in Workers, NEW s \in Sessions, MergeAccounts(w, s)
  PROVE  IInv'
<1> DEFINE t == job[w].token
           g == job[w].tg
           u == job[w].target
           keep == job[w].existing
<1> USE DEF MergeAccounts, Target
<1>1. TypeOK BY DEF IInv
<1>2. /\ Running(w) /\ t \in Tokens /\ g \in TgIds /\ u \in users
      /\ token[t].state # "unissued" /\ (token[t].state = "valid" => token[t].user = u)
      /\ requester[t] \in Emails /\ identity[requester[t]] = u
      /\ keep # NoUser /\ keep # u /\ account[g] = keep
      /\ \A e \in Emails : identity[e] # keep
  BY DEF Running, IInv, JobsOK, JobOK, OfAnotherUser
<1>3. keep \in users BY <1>1, <1>2 DEF TypeOK
<1>4. u \in Users /\ keep \in Users /\ u # NoUser BY <1>1, <1>2, <1>3, UserNumbers
<1>5. /\ identity' = [e \in Emails |-> IF identity[e] = u THEN keep ELSE identity[e]]
      /\ session' = [Without(u, session, Unissued) EXCEPT ![s] = Issued(keep)]
      /\ users' = users \ {u}
      /\ account' = [h \in TgIds |-> IF account[h] = u THEN NoUser ELSE account[h]]
      /\ token' = Without(u, token, Ended)
      /\ notes' = [notes EXCEPT ![u] = 0]
      /\ claimedTg' = [claimedTg EXCEPT ![u] = None]
      /\ UNCHANGED <<made, login, requester>>
  BY DEF LoginMoved
<1>6. \A v \in Workers \ {w} : Running(v) => job[v].target # u /\ job[v].existing # u
  BY DEF LockedByAnother
<1>7. Succeeds(w) OBVIOUS
<1> HIDE DEF t, g, u, keep, MergeAccounts
<1>8. /\ token' \in [Tokens -> Row]
      /\ \A x \in Tokens : token'[x] = IF token[x].user = u THEN Ended ELSE token[x]
  BY <1>1, <1>5, Rows DEF TypeOK, Without
<1>9. /\ session' \in [Sessions -> Row]
      /\ \A x \in Sessions : session'[x] = IF x = s THEN Issued(keep)
                                ELSE IF session[x].user = u THEN Unissued ELSE session[x]
  BY <1>1, <1>4, <1>5, Rows DEF TypeOK, Without
<1>10. /\ token'[t].state = "ended"
       /\ \A x \in Tokens : token'[x] = token[x] \/ token'[x].state = "ended"
  <2>1. token[t].state \in {"valid", "ended"} BY <1>1, <1>2 DEF TypeOK, Row
  <2>2. CASE token[t].user = u BY <1>2, <1>8, <2>2 DEF Ended
  <2>3. CASE token[t].user # u BY <1>2, <1>8, <2>1, <2>3 DEF Ended
  <2> QED BY <1>8, <2>2, <2>3 DEF Ended
<1>11. /\ job' \in [Workers -> Job] /\ granted' \subseteq Tokens \X TgIds
       /\ JobsApart' /\ GrantedEnded' /\ LinkUsedOnce'
       /\ \A v \in Workers : Running(v)' => v # w /\ Running(v) /\ job'[v] = job[v]
  BY <1>2, <1>7, <1>8, <1>10, SucceedsIInv DEF t
<1>12. /\ users' \subseteq 1..made
       /\ identity' \in [Emails -> users' \union {NoUser}]
       /\ account' \in [TgIds -> users' \union {NoUser}]
       /\ notes' \in [Users -> 0..MaxNotes]
       /\ claimedTg' \in [Users -> TgIds \union {None}]
  BY <1>1, <1>2, <1>3, <1>4, <1>5, AccountAssumption DEF TypeOK
<1>13. TypeOK' BY <1>1, <1>5, <1>8, <1>9, <1>11, <1>12 DEF TypeOK
<1>14. AccountsDiffer' /\ LoginsDiffer'
  <2>1. AccountsDiffer' BY <1>5 DEF IInv, AccountsDiffer
  <2>2. LoginsDiffer' BY <1>2, <1>4, <1>5 DEF IInv, LoginsDiffer
  <2> QED BY <2>1, <2>2
<1>15. LoginsCurrent' BY <1>1, <1>5 DEF IInv, TypeOK, LoginsCurrent
<1>16. SessionsHaveLogin'
  <2>1. \E e \in Emails : identity'[e] = keep BY <1>2, <1>5
  <2>2. ASSUME NEW x \in Sessions, session'[x].state = "valid"
        PROVE  session'[x].user \in users' /\ \E e \in Emails : identity'[e] = session'[x].user
    <3>1. CASE x = s BY <1>2, <1>3, <1>5, <1>9, <2>1, <3>1, Rows
    <3>2. CASE x # s
      <4>1. session'[x] = session[x] /\ session[x].user # u
        BY <1>9, <2>2, <3>2 DEF Unissued
      <4>2. session[x].user \in users /\ \E e \in Emails : identity[e] = session[x].user
        BY <2>2, <4>1 DEF IInv, SessionsHaveLogin, EmailsOf
      <4> QED BY <1>5, <4>1, <4>2
    <3> QED BY <3>1, <3>2
  <2> QED BY <2>2 DEF SessionsHaveLogin, EmailsOf
<1>17. TokensOK'
  <2>1. ASSUME NEW x \in Tokens, token'[x].state = "valid"
        PROVE  /\ token'[x].user \in users' /\ requester'[x] \in Emails
               /\ identity'[requester'[x]] = token'[x].user
    <3>1. token'[x] = token[x] /\ token[x].user # u BY <1>8, <2>1 DEF Ended
    <3>2. TokenOK(x) BY DEF IInv, TokensOK
    <3> QED BY <1>5, <2>1, <3>1, <3>2 DEF TokenOK
  <2> QED BY <2>1 DEF TokensOK, TokenOK
<1>18. JobsOK'
  <2>1. ASSUME NEW v \in Workers, Running(v)' PROVE JobOK(v)'
    <3>1. v # w /\ Running(v) /\ job'[v] = job[v] BY <1>11, <2>1
    <3>2. JobOK(v) BY DEF IInv, JobsOK
    <3>3. job[v].target # u /\ job[v].existing # u BY <1>6, <3>1
    <3>4. job[v].existing # NoUser => job[v].existing # keep
      BY <1>2, <3>1, <3>2 DEF t, g, keep, IInv, JobsApart, AccountsDiffer, JobOK
    <3>5. token'[job[v].token] = token[job[v].token] \/ token'[job[v].token].state = "ended"
      BY <1>10, <3>1, <3>2 DEF JobOK
    <3>6. \A e \in Emails : identity[e] # job[v].existing /\ job[v].existing # NoUser
                              => identity'[e] # job[v].existing
      BY <1>5, <3>4
    <3>7. /\ job[v].target \in users'
          /\ identity'[requester'[job[v].token]] = job[v].target
      BY <1>5, <3>1, <3>2, <3>3 DEF JobOK
    <3>8. job[v].existing # NoUser => account'[job[v].tg] = job[v].existing
      BY <1>5, <3>1, <3>2, <3>3 DEF JobOK
    <3>9. notes'[job[v].target] = notes[job[v].target]
      BY <1>1, <1>4, <1>5, <3>1, <3>2, <3>3, UserNumbers DEF JobOK, TypeOK
    <3> QED
      BY <1>5, <3>1, <3>2, <3>5, <3>6, <3>7, <3>8, <3>9 DEF JobOK, Running, OfAnotherUser
  <2> QED BY <2>1 DEF JobsOK, JobOK
<1>19. NotesReachable'
  <2>1. ASSUME NEW v \in users \ {u}, HasSide(v) PROVE HasSide(v)'
    BY <1>1, <1>2, <1>5, <2>1 DEF TypeOK, HasSide
  <2>2. \A v \in users \ {u} : notes'[v] = notes[v]
    BY <1>1, <1>5, UserNumbers DEF TypeOK
  <2> QED BY <1>5, <2>1, <2>2, Reachable, ReachableNext DEF IInv
<1> QED BY <1>11, <1>13, <1>14, <1>15, <1>16, <1>17, <1>18, <1>19 DEF IInv
-----------------------------------------------------------------------------
LEMMA NextIInv == IInv /\ [Next]_vars => IInv'
<1>1. ASSUME IInv, UNCHANGED vars PROVE IInv'
  BY <1>1 DEF vars, IInv, TypeOK, AccountsDiffer, LoginsDiffer, LoginsCurrent,
     SessionsHaveLogin, EmailsOf, TokensOK, TokenOK, JobsOK, JobOK, JobsApart, Running,
     Target, OfAnotherUser, GrantedEnded, LinkUsedOnce, NotesReachable, AccountsOf
<1>2. ASSUME IInv, NEW w \in Workers, Link(w) PROVE IInv'
  BY <1>2, LinkCountsIInv, MergeAccountsIInv, AttachAccountIInv, RefreshAccountIInv,
     LinkRollsBackIInv DEF Link
<1> QED
  BY <1>1, <1>2, RegisterIInv, LoginInsertsIInv, LoginReadsIInv, LogoutIInv,
     UnlinkTelegramIInv, CapturesIInv, CreateTelegramLinkIInv, LinkExpiresIInv,
     LinkBeginIInv, UpsertUserIInv DEF Next

(* Rows and handlers keep their types; identities, accounts and users fit  *)
(* together.                                                               *)
THEOREM TypeCorrect == Spec => []TypeOK
<1>1. IInv => TypeOK BY DEF IInv
<1> QED BY InitIInv, NextIInv, <1>1, PTL DEF Spec

(* However links, merges and logins interleave, no two people share a user.*)
THEOREM NoSharedUser == Spec => []OneLogin
<1>1. IInv => OneLogin
  <2> SUFFICES ASSUME IInv, NEW u \in users PROVE Cardinality(EmailsOf(u)) <= 1
    BY DEF OneLogin
  <2>1. u # NoUser BY UserNumbers DEF IInv
  <2>2. \A e, f \in EmailsOf(u) : e = f BY <2>1 DEF IInv, LoginsDiffer, EmailsOf
  <2> QED BY <2>2, SetOfOne
<1> QED BY InitIInv, NextIInv, <1>1, PTL DEF Spec

(* A session that is accepted is of a user someone can log in to: none     *)
(* outlives a merge, and none is made for a user that a merge has deleted. *)
THEOREM SessionsAreLive == Spec => []SessionsHaveLogin
<1>1. IInv => SessionsHaveLogin BY DEF IInv
<1> QED BY InitIInv, NextIInv, <1>1, PTL DEF Spec

(* A link is answered with success once, however often it is opened.       *)
THEOREM LinksAreSingleUse == Spec => []LinkUsedOnce
<1>1. IInv => LinkUsedOnce BY DEF IInv
<1> QED BY InitIInv, NextIInv, <1>1, PTL DEF Spec

(* Unlinking, merging and deleting leave no data without a way to it.      *)
THEOREM DataHasAnOwner == Spec => []NotesReachable
<1>1. IInv => NotesReachable BY DEF IInv
<1> QED BY InitIInv, NextIInv, <1>1, PTL DEF Spec

-----------------------------------------------------------------------------
(* Which steps grant a link, move a login or lose data.                    *)
LEMMA GrantingSteps ==
  ASSUME [Next]_vars, granted' # granted
  PROVE  \E w \in Workers : \/ AttachAccount(w) \/ RefreshAccount(w)
                            \/ \E s \in Sessions : MergeAccounts(w, s)
BY DEF vars, Next, Register, LoginReads, LoginInserts, Logout, CreateTelegramLink,
   LinkExpires, UnlinkTelegram, LinkBegin, LinkCounts, LinkRollsBack, Link, UpsertUser,
   Capture, CaptureByWeb, CaptureByBot

LEMMA GrantJoins ==
  ASSUME IInv, NEW w \in Workers,
         \/ AttachAccount(w) \/ RefreshAccount(w)
         \/ \E s \in Sessions : MergeAccounts(w, s)
  PROVE  \A p \in granted' \ granted : account'[p[2]] = identity'[requester[p[1]]]
<1> DEFINE t == job[w].token
           g == job[w].tg
           u == job[w].target
<1>1. TypeOK /\ Running(w) /\ granted' = granted \union {<<t, g>>}
  BY DEF IInv, AttachAccount, RefreshAccount, MergeAccounts, Succeeds, Running
<1>2. /\ g \in TgIds /\ requester[t] \in Emails /\ identity[requester[t]] = u
      /\ job[w].existing # NoUser => account[g] = job[w].existing
      /\ u \in users /\ u # NoUser
      /\ job[w].pc = "counted" => job[w].existing # NoUser /\ job[w].existing # u
  BY <1>1, UserNumbers DEF IInv, JobsOK, JobOK, Target, OfAnotherUser
<1>3. account'[g] = identity'[requester[t]]
  <2>1. CASE AttachAccount(w)
    BY <1>1, <1>2, <2>1 DEF AttachAccount, Target, TypeOK
  <2>2. CASE RefreshAccount(w)
    BY <1>2, <2>2 DEF RefreshAccount, Target
  <2>3. ASSUME NEW s \in Sessions, MergeAccounts(w, s) PROVE account'[g] = identity'[requester[t]]
    BY <1>2, <2>3 DEF MergeAccounts, LoginMoved, Target
  <2> QED BY <2>1, <2>2, <2>3
<1> QED BY <1>1, <1>3

(* Who opens a link becomes the Telegram side of who asked for it.         *)
THEOREM LinkJoins == Spec => LinkJoinsTheRequester
<1>1. IInv /\ [Next]_vars =>
        [\A p \in granted' \ granted : account'[p[2]] = identity'[requester[p[1]]]]_vars
  BY GrantingSteps, GrantJoins
<1> QED BY InitIInv, NextIInv, <1>1, PTL DEF Spec, LinkJoinsTheRequester

Keeps == /\ \A e \in Emails : identity[e] \in Users => identity'[e] = identity[e]
         /\ \A u \in Users : notes'[u] >= notes[u]

LEMMA LosingSteps ==
  ASSUME IInv, [Next]_vars
  PROVE  Keeps \/ \E w \in Workers, s \in Sessions : MergeAccounts(w, s)
<1>1. TypeOK /\ NoUser \notin Users BY UserNumbers DEF IInv
<1>2. \A u \in Users : notes[u] \in Nat BY <1>1, AccountAssumption DEF TypeOK
<1>3. UNCHANGED <<identity, notes>> => Keeps BY <1>2 DEF Keeps
<1>4. ASSUME NEW e \in Emails, NEW s \in Sessions, Register(e, s) PROVE Keeps
  BY <1>1, <1>2, <1>4 DEF Register, CreateUserWithIdentityAndSession, Keeps, TypeOK
<1>5. ASSUME NEW u, Capture(u) PROVE Keeps
  BY <1>1, <1>2, <1>5 DEF Capture, Keeps, TypeOK
<1>6. CASE UNCHANGED vars BY <1>3, <1>6 DEF vars
<1>7. CASE Next
  <2>1. ASSUME NEW w \in Workers, Link(w)
        PROVE  Keeps \/ \E s \in Sessions : MergeAccounts(w, s)
    BY <1>3, <2>1 DEF Link, LinkCounts, AttachAccount, RefreshAccount, LinkRollsBack
  <2>2. ASSUME NEW s \in Sessions, CaptureByWeb(s) PROVE Keeps
    BY <1>5, <2>2 DEF CaptureByWeb
  <2>3. ASSUME NEW g \in TgIds, CaptureByBot(g) PROVE Keeps
    BY <1>5, <2>3 DEF CaptureByBot
  <2>4. ASSUME \/ \E e \in Emails, s \in Sessions : LoginInserts(e, s)
               \/ \E e \in Emails : LoginReads(e)
               \/ \E s \in Sessions : Logout(s) \/ UnlinkTelegram(s)
               \/ \E s \in Sessions, t \in Tokens : CreateTelegramLink(s, t)
               \/ \E t \in Tokens : LinkExpires(t)
               \/ \E w \in Workers, g \in TgIds, t \in Tokens : LinkBegin(w, g, t)
               \/ \E g \in Configured : UpsertUser(g)
        PROVE  UNCHANGED <<identity, notes>>
    BY <2>4 DEF LoginReads, LoginInserts, Logout, CreateTelegramLink, LinkExpires,
       UnlinkTelegram, LinkBegin, UpsertUser
  <2> QED BY <1>3, <1>4, <1>7, <2>1, <2>2, <2>3, <2>4 DEF Next
<1> QED BY <1>6, <1>7

(* Once registered an address can log in, and what the person sees never   *)
(* shrinks, but for what was captured after a link had counted.            *)
THEOREM DataSurvives == Spec => DataSurvivesLinking
<1> DEFINE Survives == \A e \in Emails :
      LET u == identity[e] v == identity'[e]
      IN  u \in Users =>
            /\ v \in Users
            /\ notes'[v] < notes[u] =>
                 \E w \in Workers : job[w].pc = "counted" /\ Target(w) = u /\ job[w].late
<1>1. IInv /\ [Next]_vars => Survives
  <2> SUFFICES ASSUME IInv, [Next]_vars, NEW e \in Emails, identity[e] \in Users
               PROVE  /\ identity'[e] \in Users
                      /\ notes'[identity'[e]] < notes[identity[e]] =>
                           \E w \in Workers : /\ job[w].pc = "counted"
                                              /\ Target(w) = identity[e] /\ job[w].late
    OBVIOUS
  <2>1. /\ TypeOK /\ NoUser \notin Users
        /\ \A u \in Users : notes[u] \in Nat
    BY UserNumbers, AccountAssumption DEF IInv, TypeOK
  <2>2. CASE Keeps
    <3>1. identity'[e] = identity[e] /\ notes'[identity[e]] >= notes[identity[e]]
      BY <2>2 DEF Keeps
    <3>2. notes'[identity[e]] \in Nat
      BY NextIInv, AccountAssumption DEF IInv, TypeOK
    <3> QED BY <2>1, <3>1, <3>2
  <2>3. ASSUME NEW w \in Workers, NEW s \in Sessions, MergeAccounts(w, s)
        PROVE  /\ identity'[e] \in Users
               /\ notes'[identity'[e]] < notes[identity[e]] =>
                    job[w].pc = "counted" /\ Target(w) = identity[e] /\ job[w].late
    <3> DEFINE u == Target(w)
               keep == job[w].existing
    <3>1. /\ job[w].pc = "counted" /\ keep # NoUser /\ keep # u /\ u \in users
          /\ account[job[w].tg] = keep /\ job[w].tg \in TgIds
          /\ \A f \in Emails : identity[f] # keep
          /\ notes[u] = 0 \/ job[w].late
      BY <2>3 DEF MergeAccounts, Running, IInv, JobsOK, JobOK, OfAnotherUser
    <3>2. keep \in Users /\ u \in Users BY <2>1, <3>1, UserNumbers DEF TypeOK
    <3>3. /\ identity'[e] = IF identity[e] = u THEN keep ELSE identity[e]
          /\ notes' = [notes EXCEPT ![u] = 0]
      BY <2>3 DEF MergeAccounts, LoginMoved
    <3> HIDE DEF u, keep
    <3>4. \A x \in Users : x # u => notes'[x] = notes[x] BY <2>1, <3>3 DEF TypeOK
    <3>5. CASE identity[e] = u
      <4>1. notes'[keep] \in Nat BY <2>1, <3>1, <3>2, <3>4
      <4> QED BY <2>1, <3>1, <3>2, <3>3, <3>5, <4>1 DEF u
    <3>6. CASE identity[e] # u BY <2>1, <3>3, <3>4, <3>6
    <3> QED BY <3>5, <3>6
  <2> QED BY <2>2, <2>3, LosingSteps
<1>2. IInv /\ [Next]_vars => [Survives]_vars BY <1>1
<1> QED BY InitIInv, NextIInv, <1>2, PTL DEF Spec, DataSurvivesLinking
=============================================================================
