----------------------- MODULE ProcessLifecycle_proofs -----------------------
(***************************************************************************)
(* No migration takes effect twice, and the pool closes after the HTTP     *)
(* server: for any number of processes, files and releases.  Nothing is    *)
(* assumed of the advisory lock, which may be lost at any time.            *)
(***************************************************************************)
EXTENDS ProcessLifecycle, WellFoundedInduction, TLAPS

(* A set of files has a first one.                                         *)
LEMMA MinIsMember ==
  ASSUME NEW S, S \subseteq Nat, S # {}
  PROVE  Min(S) \in S
<1> DEFINE R == {ss \in Nat \X Nat : ss[1] < ss[2]}
<1>1. PICK x \in S : \A y \in S : ~(<<y, x>> \in R)
  <2>1. IsWellFoundedOn(R, Nat) BY NatLessThanWellFounded, Zenon DEF OpToRel
  <2> HIDE DEF R
  <2> QED BY <2>1, WFMin
<1>2. ASSUME NEW y \in S PROVE x =< y
  <2>1. <<y, x>> \in Nat \X Nat => ~(<<y, x>>[1] < <<y, x>>[2]) BY <1>1 DEF R
  <2> QED BY <2>1
<1> QED BY <1>2 DEF Min

-----------------------------------------------------------------------------
(* Who is about to apply a file has one.                                   *)
HasFile == \A p \in Processes : pc[p] = "apply" => pending[p] # {}
Typed == TypeOK /\ HasFile

LEMMA NextFileIsFile ==
  ASSUME TypeOK, NEW p \in Processes, pending[p] # {}
  PROVE  NextFile(p) \in Files
<1>1. pending[p] \subseteq Files BY DEF TypeOK
<1>2. pending[p] \subseteq Nat BY <1>1, LifecycleAssumption
<1> QED BY <1>1, <1>2, MinIsMember DEF NextFile

LEMMA InitTyped == Init => Typed
BY LifecycleAssumption DEF Init, Typed, TypeOK, HasFile, Migrating, Wired

(* A process that is gone has left everything in order.                    *)
LEMMA GoneTyped ==
  ASSUME Typed, NEW p \in Processes, Gone(p),
         recorded' \subseteq Files, effects' \in [Files -> Nat], UNCHANGED starts
  PROVE  Typed'
BY LifecycleAssumption DEF Typed, TypeOK, HasFile, Gone, Goto, Migrating, Wired

LEMMA TakesEffectTyped ==
  ASSUME Typed, NEW p \in Processes, pc[p] = "commit", TakesEffect(p)
  PROVE  recorded' \subseteq Files /\ effects' \in [Files -> Nat]
BY DEF Typed, TypeOK, TakesEffect

LEMMA MigrationTyped ==
  ASSUME Typed, NEW p \in Processes,
         \/ Fails(p) \/ Cancelled(p) \/ TakeLock(p) \/ LoseLock(p) \/ Check(p)
         \/ Apply(p) \/ Commit(p) \/ CommitUnacknowledged(p) \/ Migrated(p)
  PROVE  Typed'
<1> USE LifecycleAssumption DEF Typed
<1>1. CASE Fails(p) \/ Cancelled(p)
  BY <1>1, GoneTyped DEF Fails, Cancelled, TypeOK
<1>2. CASE TakeLock(p)
  BY <1>2 DEF TakeLock, Goto, server, TypeOK, HasFile, Migrating
<1>3. CASE LoseLock(p)
  BY <1>3 DEF LoseLock, main, server, TypeOK, HasFile
<1>4. CASE Check(p)
  BY <1>4 DEF Check, Goto, server, database, TypeOK, HasFile, Migrating
<1>5. CASE Apply(p)
  <2>1. CASE Fails(p) BY <1>1, <2>1
  <2>2. CASE ~Collides(p)
    <3>1. NextFile(p) \in Files BY <1>5, NextFileIsFile DEF Apply, HasFile
    <3>2. /\ tx' = [tx EXCEPT ![p] = NextFile(p)]
          /\ pc' = [pc EXCEPT ![p] = "commit"]
          /\ UNCHANGED <<pending, ctx, starts, server, lock, recorded, effects>>
      BY <1>5, <2>2 DEF Apply, Goto
    <3>3. tx' \in [Processes -> Files \union {None}] BY <3>1, <3>2 DEF TypeOK
    <3>4. pc' \in [Processes -> {"down"} \union Migrating \union Wired]
      BY <3>2 DEF TypeOK, Migrating
    <3>5. \A q \in Processes : tx'[q] # None <=> pc'[q] = "commit"
      BY <3>1, <3>2 DEF TypeOK
    <3>6. HasFile' BY <3>2 DEF TypeOK, HasFile
    <3> QED BY <3>2, <3>3, <3>4, <3>5, <3>6 DEF server, TypeOK
  <2> QED BY <1>5, <2>1, <2>2 DEF Apply
<1>6. CASE Commit(p)
  <2>1. recorded' \subseteq Files /\ effects' \in [Files -> Nat]
    BY <1>6, TakesEffectTyped DEF Commit
  <2> QED BY <1>6, <2>1 DEF Commit, NoTx, Goto, server, TypeOK, HasFile, Migrating
<1>7. CASE CommitUnacknowledged(p)
  <2>1. recorded' \subseteq Files /\ effects' \in [Files -> Nat]
    BY <1>7, TakesEffectTyped DEF CommitUnacknowledged
  <2> QED BY <1>7, <2>1, GoneTyped DEF CommitUnacknowledged
<1>8. CASE Migrated(p)
  BY <1>8 DEF Migrated, Unlocked, Goto, TypeOK, HasFile, Wired
<1> QED BY <1>1, <1>2, <1>3, <1>4, <1>5, <1>6, <1>7, <1>8

LEMMA MainTyped ==
  ASSUME Typed, NEW p \in Processes,
         Start(p) \/ Crash(p) \/ Signal(p) \/ WiringFails(p) \/ MainStep(p)
  PROVE  Typed'
<1> USE LifecycleAssumption DEF Typed
<1>1. CASE Crash(p) \/ WiringFails(p) \/ Close(p)
  BY <1>1, GoneTyped DEF Crash, WiringFails, Close, TypeOK
<1>2. CASE Start(p)
  BY <1>2 DEF Start, Goto, database, TypeOK, HasFile, Migrating
<1>3. CASE Signal(p)
  BY <1>3 DEF Signal, server, database, TypeOK, HasFile
<1>4. CASE Wire(p)
  BY <1>4 DEF Wire, Goto, server, database, TypeOK, HasFile, Wired
<1>5. CASE Select(p)
  <2>1. CASE SelectBot(p) \/ SelectDone(p)
    <3>1. /\ pc[p] = "select" /\ pc' = [pc EXCEPT ![p] = "stopping"]
          /\ UNCHANGED <<pending, ctx, starts, http, outcome, channel, finished,
                         request, lock, tx, recorded, effects>>
      BY <2>1 DEF SelectBot, SelectDone, Goto, server, database
    <3>2. /\ pc' \in [Processes -> {"down"} \union Migrating \union Wired]
          /\ HasFile'
      BY <3>1 DEF TypeOK, HasFile, Wired
    <3> QED BY <3>1, <3>2 DEF TypeOK
  <2>2. CASE SelectHttp(p)
    <3>1. /\ channel' \in [Processes -> BOOLEAN]
          /\ finished' \in [Processes -> BOOLEAN]
          /\ ctx' \in [Processes -> {"live", "done"}]
      BY <2>2 DEF SelectHttp, Stop, TypeOK
    <3>2. /\ pc[p] = "select" /\ pc' = [pc EXCEPT ![p] = "stopping"]
          /\ UNCHANGED <<pending, starts, http, outcome, request, lock, tx, recorded, effects>>
      BY <2>2 DEF SelectHttp, Goto, database
    <3>3. pc' \in [Processes -> {"down"} \union Migrating \union Wired]
      BY <3>2 DEF TypeOK, Wired
    <3>4. \A q \in Processes : tx'[q] # None <=> pc'[q] = "commit" BY <3>2 DEF TypeOK
    <3>5. HasFile' BY <3>2 DEF TypeOK, HasFile
    <3> QED BY <3>1, <3>2, <3>3, <3>4, <3>5 DEF TypeOK
  <2> QED BY <1>5, <2>1, <2>2 DEF Select
<1>6. CASE Stopping(p)
  BY <1>6 DEF Stopping, AfterDone, Goto, server, database, TypeOK, HasFile, Wired
<1>7. CASE Drained(p)
  BY <1>7 DEF Drained, Goto, database, TypeOK, HasFile, Wired
<1> QED BY <1>1, <1>2, <1>3, <1>4, <1>5, <1>6, <1>7 DEF MainStep

LEMMA ServerTyped ==
  ASSUME Typed, NEW p \in Processes,
         \/ HttpFails(p) \/ Shutdown(p) \/ ShutdownEnds(p)
         \/ Request(p) \/ Query(p) \/ QueryEnds(p) \/ RequestEnds(p)
  PROVE  Typed'
BY DEF Typed, TypeOK, HasFile, HttpFails, Shutdown, ShutdownEnds, Request, Query,
       QueryEnds, RequestEnds, main, database

LEMMA NextTyped == Typed /\ [Next]_vars => Typed'
<1>1. ASSUME Typed, UNCHANGED vars PROVE Typed'
  BY <1>1 DEF vars, main, server, database, Typed, TypeOK, HasFile
<1> QED
  BY <1>1, MigrationTyped, MainTyped, ServerTyped DEF Next, MigrationStep

(* Types hold, and who is about to apply a file has one.                   *)
THEOREM TypeCorrect == Spec => []TypeOK
<1>1. Typed => TypeOK BY DEF Typed
<1> QED BY InitTyped, NextTyped, <1>1, PTL DEF Spec

-----------------------------------------------------------------------------
(* An open transaction is the only one with its file, and the file has not *)
(* taken effect: the key of schema_migrations.                             *)
OpenOnce ==
  /\ \A p \in Processes : tx[p] \notin recorded
  /\ \A p, q \in Processes : tx[p] = tx[q] /\ tx[p] # None => p = q

IInv == Typed /\ OpenOnce /\ AppliedOnce

LEMMA InitIInv == Init => IInv
BY InitTyped DEF Init, IInv, OpenOnce, AppliedOnce

(* Transactions end without effect, or nothing happens to them.            *)
LEMMA TxEnd ==
  ASSUME IInv, UNCHANGED <<recorded, effects>>,
         \A p \in Processes : tx'[p] \in {tx[p], None}
  PROVE  OpenOnce' /\ AppliedOnce'
<1>1. None \notin recorded BY LifecycleAssumption DEF IInv, Typed, TypeOK
<1> QED BY <1>1 DEF IInv, OpenOnce, AppliedOnce

LEMMA GoneEndsTx ==
  ASSUME Typed, NEW p \in Processes, Gone(p)
  PROVE  \A q \in Processes : tx'[q] \in {tx[q], None}
BY DEF Typed, TypeOK, Gone

LEMMA ApplyOnce ==
  ASSUME IInv, NEW p \in Processes, Apply(p)
  PROVE  OpenOnce' /\ AppliedOnce'
<1>1. CASE Fails(p)
  BY <1>1, GoneEndsTx, TxEnd DEF Fails, IInv
<1>2. CASE ~Collides(p)
  <2>1. tx' = [tx EXCEPT ![p] = NextFile(p)] /\ UNCHANGED <<recorded, effects>>
    BY <1>2 DEF Apply
  <2>2. NextFile(p) \notin recorded BY <1>2 DEF Collides
  <2>3. \A q \in Processes \ {p} : tx[q] # NextFile(p) BY DEF Apply, Waits
  <2> QED BY <2>1, <2>2, <2>3 DEF IInv, Typed, TypeOK, OpenOnce, AppliedOnce
<1> QED BY <1>1, <1>2 DEF Apply

LEMMA CommitOnce ==
  ASSUME IInv, NEW p \in Processes, pc[p] = "commit", TakesEffect(p),
         tx' = [tx EXCEPT ![p] = None]
  PROVE  OpenOnce' /\ AppliedOnce'
<1>1. tx[p] \in Files /\ tx[p] # None /\ tx[p] \notin recorded
  BY DEF IInv, Typed, TypeOK, OpenOnce
<1>2. None \notin recorded' BY <1>1, LifecycleAssumption DEF TakesEffect, IInv, Typed, TypeOK
<1>3. OpenOnce' BY <1>1, <1>2 DEF TakesEffect, IInv, Typed, TypeOK, OpenOnce
<1>4. AppliedOnce' BY <1>1 DEF TakesEffect, IInv, Typed, TypeOK, AppliedOnce
<1> QED BY <1>3, <1>4

LEMMA NextIInv == IInv /\ [Next]_vars => IInv'
<1> SUFFICES ASSUME IInv, [Next]_vars PROVE OpenOnce' /\ AppliedOnce'
  BY NextTyped DEF IInv
<1>1. CASE UNCHANGED vars
  BY <1>1, TxEnd DEF vars, database
<1>2. ASSUME NEW p \in Processes, Apply(p) PROVE OpenOnce' /\ AppliedOnce'
  BY <1>2, ApplyOnce
<1>3. ASSUME NEW p \in Processes, Commit(p) \/ CommitUnacknowledged(p)
      PROVE  OpenOnce' /\ AppliedOnce'
  BY <1>3, CommitOnce DEF Commit, CommitUnacknowledged, NoTx, Gone
<1>4. ASSUME NEW p \in Processes, Fails(p) \/ Cancelled(p) \/ Crash(p) \/ WiringFails(p) \/ Close(p)
      PROVE  OpenOnce' /\ AppliedOnce'
  BY <1>4, GoneEndsTx, TxEnd DEF Fails, Cancelled, Crash, WiringFails, Close, IInv
<1>5. ASSUME NEW p \in Processes,
             Start(p) \/ Signal(p) \/ TakeLock(p) \/ LoseLock(p) \/ Check(p) \/ Migrated(p)
      PROVE  OpenOnce' /\ AppliedOnce'
  BY <1>5, TxEnd DEF Start, Signal, TakeLock, LoseLock, Check, Migrated, database
<1>6. ASSUME NEW p \in Processes, Wire(p) \/ Select(p) \/ Stopping(p) \/ Drained(p)
      PROVE  OpenOnce' /\ AppliedOnce'
  BY <1>6, TxEnd DEF Wire, Select, SelectBot, SelectHttp, SelectDone, Stopping,
                     Drained, database
<1>7. ASSUME NEW p \in Processes,
             \/ HttpFails(p) \/ Shutdown(p) \/ ShutdownEnds(p)
             \/ Request(p) \/ Query(p) \/ QueryEnds(p) \/ RequestEnds(p)
      PROVE  OpenOnce' /\ AppliedOnce'
  BY <1>7, TxEnd DEF HttpFails, Shutdown, ShutdownEnds, Request, Query, QueryEnds,
                     RequestEnds, database
<1> QED
  BY <1>1, <1>2, <1>3, <1>4, <1>5, <1>6, <1>7 DEF Next, MigrationStep, MainStep

(* No migration takes effect twice or without its record, although the     *)
(* lock may be lost, commits be reported as failed and processes crash.    *)
THEOREM MigratesOnce == Spec => []AppliedOnce
<1>1. IInv => AppliedOnce BY DEF IInv
<1> QED BY InitIInv, NextIInv, <1>1, PTL DEF Spec
-----------------------------------------------------------------------------
(* The HTTP server of a process: it starts when Migrate has returned, has  *)
(* an outcome once it has ended, and the outcome is nil only if no request *)
(* was at work then; main comes to pool.Close when there was no server or  *)
(* the outcome has been taken from the channel.                            *)
ServerInOrder(p) ==
  /\ pc[p] = "down" => http[p] = "off"
  /\ http[p] = "planned" => pc[p] \in Migrating
  /\ http[p] \in {"off", "planned"} => request[p] = "none"
  /\ channel[p] \/ finished[p] => http[p] = "ended"
  /\ http[p] = "ended" => outcome[p] \in {"nil", "error"}
  /\ outcome[p] = "nil" => http[p] = "ended" /\ request[p] = "none"
  /\ pc[p] = "closing" => http[p] \in {"off", "ended"}

ServersInOrder == \A p \in Processes : ServerInOrder(p)

(* A process that is gone, or not concerned by a step, is in order.        *)
LEMMA GoneInOrder ==
  ASSUME TypeOK, ServersInOrder, NEW p \in Processes, Gone(p)
  PROVE  ServersInOrder'
BY DEF Gone, Goto, TypeOK, ServersInOrder, ServerInOrder

(* What a step changes it changes of one process.                          *)
SameServer(q) ==
  /\ pc'[q] = pc[q] /\ http'[q] = http[q] /\ outcome'[q] = outcome[q]
  /\ channel'[q] = channel[q] /\ finished'[q] = finished[q]
  /\ request'[q] = request[q]

LEMMA OneServer ==
  ASSUME ServersInOrder, NEW p \in Processes,
         \A q \in Processes \ {p} : SameServer(q), ServerInOrder(p)'
  PROVE  ServersInOrder'
BY DEF ServersInOrder, ServerInOrder, SameServer

(* main: what moves pc alone, within Migrating or on from it.              *)
LEMMA MainInOrder ==
  ASSUME TypeOK, ServersInOrder, NEW p \in Processes,
         \/ Start(p) \/ Signal(p) \/ TakeLock(p) \/ LoseLock(p) \/ Check(p)
         \/ Apply(p) \/ Commit(p) \/ Migrated(p) \/ Wire(p) \/ Select(p)
         \/ Stopping(p) \/ Drained(p)
  PROVE  ServersInOrder'
<1> USE DEF TypeOK, SameServer, Goto
<1>0. ServerInOrder(p) BY DEF ServersInOrder
<1>1. CASE Start(p)
  BY <1>0, <1>1, OneServer DEF Start, ServerInOrder, Migrating
<1>2. CASE Signal(p) \/ LoseLock(p)
  BY <1>0, <1>2, OneServer DEF Signal, LoseLock, main, server, ServerInOrder
<1>3. CASE TakeLock(p) \/ Check(p) \/ Commit(p)
  BY <1>0, <1>3, OneServer DEF TakeLock, Check, Commit, server, ServerInOrder, Migrating
<1>4. CASE Apply(p)
  <2>1. CASE Fails(p) BY <2>1, GoneInOrder DEF Fails
  <2>2. CASE ~Collides(p)
    BY <1>0, <1>4, <2>2, OneServer DEF Apply, server, ServerInOrder, Migrating
  <2> QED BY <1>4, <2>1, <2>2 DEF Apply
<1>5. CASE Migrated(p)
  BY <1>0, <1>5, OneServer DEF Migrated, ServerInOrder, Migrating
<1>6. CASE Wire(p) \/ SelectBot(p) \/ SelectDone(p)
  BY <1>0, <1>6, OneServer DEF Wire, SelectBot, SelectDone, server, ServerInOrder, Migrating
<1>7. CASE SelectHttp(p)
  BY <1>0, <1>7, OneServer DEF SelectHttp, Stop, ServerInOrder, Migrating
<1>8. CASE Stopping(p)
  BY <1>0, <1>8, OneServer DEF Stopping, AfterDone, server, ServerInOrder, Migrating
<1>9. CASE Drained(p)
  BY <1>0, <1>9, OneServer DEF Drained, ServerInOrder, Migrating
<1> QED BY <1>1, <1>2, <1>3, <1>4, <1>5, <1>6, <1>7, <1>8, <1>9 DEF Select

LEMMA HttpInOrder ==
  ASSUME TypeOK, ServersInOrder, NEW p \in Processes,
         \/ HttpFails(p) \/ Shutdown(p) \/ ShutdownEnds(p)
         \/ Request(p) \/ Query(p) \/ QueryEnds(p) \/ RequestEnds(p)
  PROVE  ServersInOrder'
<1> USE DEF TypeOK, SameServer, main
<1>0. ServerInOrder(p) BY DEF ServersInOrder
<1>1. CASE HttpFails(p) \/ Shutdown(p) \/ ShutdownEnds(p)
  BY <1>0, <1>1, OneServer DEF HttpFails, Shutdown, ShutdownEnds, ServerInOrder
<1>2. CASE Request(p) \/ Query(p) \/ QueryEnds(p) \/ RequestEnds(p)
  BY <1>0, <1>2, OneServer DEF Request, Query, QueryEnds, RequestEnds, ServerInOrder
<1> QED BY <1>1, <1>2

LEMMA NextInOrder == TypeOK /\ ServersInOrder /\ [Next]_vars => ServersInOrder'
<1>1. ASSUME ServersInOrder, UNCHANGED vars PROVE ServersInOrder'
  BY <1>1 DEF vars, main, server, ServersInOrder, ServerInOrder
<1>2. ASSUME TypeOK, ServersInOrder, NEW p \in Processes,
             \/ Crash(p) \/ Fails(p) \/ Cancelled(p) \/ CommitUnacknowledged(p)
             \/ WiringFails(p) \/ Close(p)
      PROVE  ServersInOrder'
  BY <1>2, GoneInOrder DEF Crash, Fails, Cancelled, CommitUnacknowledged,
                           WiringFails, Close
<1> QED BY <1>1, <1>2, MainInOrder, HttpInOrder DEF Next, MigrationStep, MainStep

(* Whatever ends main's select, and in whatever order the bot, the server  *)
(* and the signal are noticed, no request is at work when pool.Close runs, *)
(* unless the server failed or its drain ran out of time.                  *)
THEOREM ClosesLast == Spec => []PoolClosesLast
<1>1. Init => ServersInOrder BY DEF Init, ServersInOrder, ServerInOrder
<1>2. TypeOK /\ ServersInOrder => PoolClosesLast
  BY DEF TypeOK, ServersInOrder, ServerInOrder, PoolClosesLast
<1> QED BY TypeCorrect, NextInOrder, <1>1, <1>2, PTL DEF Spec
=============================================================================
