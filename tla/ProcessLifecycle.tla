-------------------------- MODULE ProcessLifecycle --------------------------
(***************************************************************************)
(* The life of the instances of lead-log on one database:                  *)
(*                                                                         *)
(*   - internal/config/config.go: Load, which panics on a bad environment  *)
(*   - pkg/db: NewPool and Migrate, under an advisory lock of the database *)
(*   - cmd/lead-log/main.go: the wiring, the wait for the first that ends, *)
(*     the drain of the HTTP server and pool.Close                         *)
(*   - internal/adapters/httpapi/server.go: RunServer                      *)
(*                                                                         *)
(* Every statement of a migration may fail; the connection that holds the  *)
(* advisory lock may break while the files are applied over the others of  *)
(* the pool, which nothing notices.  A process may crash at any time.      *)
(* Files are numbered in the order of their names; releases embed          *)
(* different files.  One HTTP request per process stands for all.          *)
(***************************************************************************)
EXTENDS Naturals, FiniteSets, FiniteSetsExt

CONSTANTS
  Processes,
  Files,      \* of migrations, by the order of their names
  Releases,   \* the sets of files that binaries embed
  Settings,   \* environments: the variables that Load compares
  None,
  MaxStarts   \* bound: starts of processes

ASSUME LifecycleAssumption ==
  /\ None \notin Processes \union Files
  /\ Files \subseteq Nat /\ IsFiniteSet(Files)
  /\ Releases \subseteq SUBSET Files
  /\ MaxStarts \in Nat
  /\ \A s \in Settings :
       /\ {s.update, s.enrichment, s.llm, s.summary} \subseteq Nat
       /\ s.sound \in BOOLEAN /\ s.http \in BOOLEAN /\ s.wildcard \in BOOLEAN

VARIABLES
  pc,        \* of main
  pending,   \* files of the binary that Migrate has not come to
  ctx,       \* "done" after a signal or stop()
  http,      \* RunServer
  outcome,   \* what RunServer has returned
  channel,   \* httpServerErr holds it
  finished,  \* httpFinished: main's select has taken it
  request,   \* a request: at work, or at work on a connection of the pool
  lock,      \* holder of pg_advisory_lock
  tx,        \* the file in a process's open transaction
  recorded,  \* schema_migrations
  effects,   \* how often a file has taken effect on the schema
  starts

main == <<pc, pending, ctx, starts>>
server == <<http, outcome, channel, finished, request>>
database == <<lock, tx, recorded, effects>>
vars == <<main, server, database>>

Migrating == {"lock", "check", "apply", "commit"}
Wired == {"wiring", "select", "stopping", "draining", "closing"}

TypeOK ==
  /\ pc \in [Processes -> {"down"} \union Migrating \union Wired]
  /\ pending \in [Processes -> SUBSET Files]
  /\ ctx \in [Processes -> {"live", "done"}]
  /\ http \in [Processes -> {"off", "planned", "serving", "draining", "ended"}]
  /\ outcome \in [Processes -> {"none", "nil", "error"}]
  /\ channel \in [Processes -> BOOLEAN]
  /\ finished \in [Processes -> BOOLEAN]
  /\ request \in [Processes -> {"none", "working", "querying"}]
  /\ lock \in Processes \union {None}
  /\ tx \in [Processes -> Files \union {None}]
  /\ \A p \in Processes : tx[p] # None <=> pc[p] = "commit"
  /\ recorded \subseteq Files
  /\ effects \in [Files -> Nat]
  /\ starts \in 0..MaxStarts

Init ==
  /\ pc = [p \in Processes |-> "down"]
  /\ pending = [p \in Processes |-> {}]
  /\ ctx = [p \in Processes |-> "live"]
  /\ http = [p \in Processes |-> "off"]
  /\ outcome = [p \in Processes |-> "none"]
  /\ channel = [p \in Processes |-> FALSE]
  /\ finished = [p \in Processes |-> FALSE]
  /\ request = [p \in Processes |-> "none"]
  /\ lock = None
  /\ tx = [p \in Processes |-> None]
  /\ recorded = {}
  /\ effects = [f \in Files |-> 0]
  /\ starts = 0

-----------------------------------------------------------------------------
Goto(p, to) == pc' = [pc EXCEPT ![p] = to]

(* The process is gone: its goroutines, its connections, its transaction.  *)
(* The database frees the lock and rolls back.                             *)
Gone(p) ==
  /\ Goto(p, "down")
  /\ pending' = [pending EXCEPT ![p] = {}]
  /\ ctx' = [ctx EXCEPT ![p] = "live"]
  /\ http' = [http EXCEPT ![p] = "off"]
  /\ outcome' = [outcome EXCEPT ![p] = "none"]
  /\ channel' = [channel EXCEPT ![p] = FALSE]
  /\ finished' = [finished EXCEPT ![p] = FALSE]
  /\ request' = [request EXCEPT ![p] = "none"]
  /\ lock' = IF lock = p THEN None ELSE lock
  /\ tx' = [tx EXCEPT ![p] = None]

Crash(p) ==
  /\ pc[p] # "down"
  /\ Gone(p)
  /\ UNCHANGED <<recorded, effects, starts>>

(* SIGINT or SIGTERM.                                                      *)
Signal(p) ==
  /\ pc[p] # "down" /\ ctx[p] = "live"
  /\ ctx' = [ctx EXCEPT ![p] = "done"]
  /\ UNCHANGED <<pc, pending, starts, server, database>>

(* Load returns instead of panicking; durations in seconds.                *)
Loads(s) ==
  /\ s.sound            \* zone, time, mode, language, required variables,
                        \* at least one allowed user, positive numbers
  /\ s.update > 45
  /\ s.enrichment > s.update
  /\ s.summary > s.llm + 10
  /\ s.http => ~s.wildcard

Start(p) ==
  /\ pc[p] = "down" /\ starts < MaxStarts
  /\ \E r \in Releases, s \in Settings :
       /\ Loads(s)
       /\ pending' = [pending EXCEPT ![p] = r]
       /\ http' = [http EXCEPT ![p] = IF s.http THEN "planned" ELSE "off"]
  /\ Goto(p, "lock")
  /\ starts' = starts + 1
  /\ UNCHANGED <<ctx, outcome, channel, finished, request, database>>

-----------------------------------------------------------------------------
(* Migrate.  An error returns through the deferred unlock to os.Exit.      *)
Fails(p) ==
  /\ pc[p] \in Migrating
  /\ Gone(p)
  /\ UNCHANGED <<recorded, effects, starts>>

(* A statement under a context that is done.                               *)
Cancelled(p) == ctx[p] = "done" /\ Fails(p)

TakeLock(p) ==
  /\ pc[p] = "lock" /\ lock = None
  /\ lock' = p
  /\ Goto(p, "check")
  /\ UNCHANGED <<pending, ctx, starts, server, tx, recorded, effects>>

(* The connection of the lock breaks; Migrate does not use it again.       *)
LoseLock(p) ==
  /\ pc[p] \in Migrating /\ lock = p
  /\ lock' = None
  /\ UNCHANGED <<main, server, tx, recorded, effects>>

NextFile(p) == Min(pending[p])

(* migrationApplied of the next file, in a connection of its own.          *)
Check(p) ==
  /\ pc[p] = "check" /\ pending[p] # {}
  /\ IF NextFile(p) \in recorded
       THEN /\ pending' = [pending EXCEPT ![p] = @ \ {NextFile(p)}]
            /\ pc' = pc
       ELSE Goto(p, "apply") /\ UNCHANGED pending
  /\ UNCHANGED <<ctx, starts, server, database>>

(* The key of schema_migrations: an uncommitted row of the same file is    *)
(* waited for, a committed one fails the INSERT.                           *)
Waits(p) == \E q \in Processes \ {p} : tx[q] = NextFile(p)
CollidesNever(p) == FALSE
Collides(p) == NextFile(p) \in recorded

(* The file's statements and its row, in one transaction.                  *)
Apply(p) ==
  /\ pc[p] = "apply" /\ ~Waits(p)
  /\ IF Collides(p)
       THEN Fails(p)
       ELSE /\ tx' = [tx EXCEPT ![p] = NextFile(p)]
            /\ Goto(p, "commit")
            /\ UNCHANGED <<pending, ctx, starts, server,
                           lock, recorded, effects>>

LeftOpen(p) == tx
NoTx(p) == [tx EXCEPT ![p] = None]

TakesEffect(p) ==
  /\ recorded' = recorded \union {tx[p]}
  /\ effects' = [effects EXCEPT ![tx[p]] = @ + 1]

Commit(p) ==
  /\ pc[p] = "commit"
  /\ TakesEffect(p)
  /\ tx' = NoTx(p)
  /\ pending' = [pending EXCEPT ![p] = @ \ {tx[p]}]
  /\ Goto(p, "check")
  /\ UNCHANGED <<ctx, starts, server, lock>>

(* The commit has taken effect and is reported as failed.                  *)
CommitUnacknowledged(p) ==
  /\ pc[p] = "commit"
  /\ TakesEffect(p)
  /\ Gone(p)
  /\ UNCHANGED starts

(* The deferred unlock, before the connection goes back to the pool, where *)
(* it would hold the lock as long as the process lives.                    *)
StillLocked(p) == lock
Unlocked(p) == IF lock = p THEN None ELSE lock

(* Migrate returns; the HTTP server starts.                                *)
Migrated(p) ==
  /\ pc[p] = "check" /\ pending[p] = {}
  /\ lock' = Unlocked(p)
  /\ http' = [http EXCEPT ![p] = IF @ = "planned" THEN "serving" ELSE @]
  /\ Goto(p, "wiring")
  /\ UNCHANGED <<pending, ctx, starts, outcome, channel, finished, request,
                 tx, recorded, effects>>

(* bot.New or a scheduler cannot be made: os.Exit, with no drain.          *)
WiringFails(p) ==
  /\ pc[p] = "wiring"
  /\ Gone(p)
  /\ UNCHANGED <<recorded, effects, starts>>

Wire(p) ==
  /\ pc[p] = "wiring"
  /\ Goto(p, "select")
  /\ UNCHANGED <<pending, ctx, starts, server, database>>

-----------------------------------------------------------------------------
(* RunServer: ListenAndServe fails, and requests at work are left alone.   *)
HttpFails(p) ==
  /\ http[p] = "serving"
  /\ http' = [http EXCEPT ![p] = "ended"]
  /\ outcome' = [outcome EXCEPT ![p] = "error"]
  /\ channel' = [channel EXCEPT ![p] = TRUE]
  /\ UNCHANGED <<main, finished, request, database>>

Shutdown(p) ==
  /\ http[p] = "serving" /\ ctx[p] = "done"
  /\ http' = [http EXCEPT ![p] = "draining"]
  /\ UNCHANGED <<main, outcome, channel, finished, request, database>>

(* No request is at work, or the ten seconds are over.                     *)
ShutdownEnds(p) ==
  /\ http[p] = "draining"
  /\ http' = [http EXCEPT ![p] = "ended"]
  /\ outcome' = [outcome EXCEPT ![p] = IF request[p] = "none" THEN "nil" ELSE "error"]
  /\ channel' = [channel EXCEPT ![p] = TRUE]
  /\ UNCHANGED <<main, finished, request, database>>

Request(p) ==
  /\ http[p] = "serving" /\ request[p] = "none"
  /\ request' = [request EXCEPT ![p] = "working"]
  /\ UNCHANGED <<main, http, outcome, channel, finished, database>>

(* A pool that is closing gives no more connections.                       *)
Query(p) ==
  /\ request[p] = "working" /\ pc[p] # "closing"
  /\ request' = [request EXCEPT ![p] = "querying"]
  /\ UNCHANGED <<main, http, outcome, channel, finished, database>>

QueryEnds(p) ==
  /\ request[p] = "querying"
  /\ request' = [request EXCEPT ![p] = "working"]
  /\ UNCHANGED <<main, http, outcome, channel, finished, database>>

RequestEnds(p) ==
  /\ request[p] = "working"
  /\ request' = [request EXCEPT ![p] = "none"]
  /\ UNCHANGED <<main, http, outcome, channel, finished, database>>

-----------------------------------------------------------------------------
(* The select of main, on whichever has happened.  Bot.Run returns an      *)
(* error only when ctx is done, and nil if the update channel closes.      *)
SelectBot(p) ==
  /\ pc[p] = "select"
  /\ Goto(p, "stopping")
  /\ UNCHANGED <<pending, ctx, starts, server, database>>

(* An outcome that nobody asked for calls stop; stop in a context that is  *)
(* done changes nothing.                                                   *)
NoStop(p) == ctx
Stop(p) == [ctx EXCEPT ![p] = IF outcome[p] = "error" THEN "done" ELSE @]

SelectHttp(p) ==
  /\ pc[p] = "select" /\ channel[p]
  /\ channel' = [channel EXCEPT ![p] = FALSE]
  /\ finished' = [finished EXCEPT ![p] = TRUE]
  /\ ctx' = Stop(p)
  /\ Goto(p, "stopping")
  /\ UNCHANGED <<pending, starts, http, outcome, request, database>>

SelectDone(p) ==
  /\ pc[p] = "select" /\ ctx[p] = "done"
  /\ Goto(p, "stopping")
  /\ UNCHANGED <<pending, ctx, starts, server, database>>

Select(p) == SelectBot(p) \/ SelectHttp(p) \/ SelectDone(p)

(* Where main goes from <-ctx.Done().                                      *)
CloseAtOnce(p) == "closing"
AfterDone(p) ==
  IF http[p] # "off" /\ ~finished[p] THEN "draining" ELSE "closing"

Stopping(p) ==
  /\ pc[p] = "stopping" /\ ctx[p] = "done"
  /\ Goto(p, AfterDone(p))
  /\ UNCHANGED <<pending, ctx, starts, server, database>>

Drained(p) ==
  /\ pc[p] = "draining" /\ channel[p]
  /\ channel' = [channel EXCEPT ![p] = FALSE]
  /\ Goto(p, "closing")
  /\ UNCHANGED <<pending, ctx, starts, http, outcome, finished, request, database>>

(* pool.Close waits for the connections in use.                            *)
Close(p) ==
  /\ pc[p] = "closing" /\ request[p] # "querying"
  /\ Gone(p)
  /\ UNCHANGED <<recorded, effects, starts>>

-----------------------------------------------------------------------------
MigrationStep(p) ==
  Check(p) \/ Apply(p) \/ Commit(p) \/ Migrated(p) \/ Cancelled(p)
MainStep(p) == Wire(p) \/ Select(p) \/ Stopping(p) \/ Drained(p) \/ Close(p)

Next ==
  \E p \in Processes :
    \/ Start(p) \/ Crash(p) \/ Signal(p)
    \/ TakeLock(p) \/ LoseLock(p) \/ Fails(p) \/ CommitUnacknowledged(p)
    \/ MigrationStep(p)
    \/ WiringFails(p) \/ MainStep(p)
    \/ HttpFails(p) \/ Shutdown(p) \/ ShutdownEnds(p)
    \/ Request(p) \/ Query(p) \/ QueryEnds(p) \/ RequestEnds(p)

Spec == Init /\ [][Next]_vars

(* What a live process does, its database answering, it does in the end;   *)
(* PostgreSQL queues for an advisory lock; a statement of a request ends.  *)
(* Nothing has to fail, stop, arrive or begin another query.               *)
FairSpec ==
  /\ Spec
  /\ \A p \in Processes :
       /\ WF_vars(MigrationStep(p)) /\ SF_vars(TakeLock(p))
       /\ WF_vars(MainStep(p))
       /\ WF_vars(Shutdown(p)) /\ WF_vars(ShutdownEnds(p)) /\ WF_vars(QueryEnds(p))

-----------------------------------------------------------------------------
(* No file takes effect twice, and none without its row, whatever breaks   *)
(* between two instances that migrate: the lock keeps them apart, and when *)
(* its connection is lost the key of schema_migrations does.               *)
AppliedOnce ==
  \A f \in Files : effects[f] = IF f \in recorded THEN 1 ELSE 0

(* The pool closes after the requests at work have ended, unless the HTTP  *)
(* server failed or its ten seconds were over: "Let the HTTP server finish *)
(* graceful shutdown before pool.Close runs".                              *)
PoolClosesLast ==
  \A p \in Processes :
    pc[p] = "closing" /\ request[p] # "none" => outcome[p] = "error"

(* An instance gets through its migrations or gives up: none waits for     *)
(* ever behind a lock, whoever crashed, lost it or serves meanwhile.       *)
RunnersFinish ==
  \A p \in Processes : pc[p] \in Migrating ~> pc[p] \notin Migrating

(* Bot.Run has returned nil and nobody has called stop: main has left its  *)
(* select and waits for a signal only, whatever becomes of the HTTP server.*)
BotReturnedFirst(p) ==
  pc[p] = "stopping" /\ ctx[p] = "live" /\ ~finished[p]

(* A signal or stop() ends the process, in whatever order the bot, the     *)
(* server and main come to notice.  So does an HTTP server that fails, but *)
(* for the case that Bot.Run has returned nil before main took the failure *)
(* in its select: main then waits for a signal.                            *)
StopsWhenTold ==
  \A p \in Processes :
    /\ ctx[p] = "done" ~> pc[p] = "down"
    /\ outcome[p] = "error" ~> pc[p] = "down" \/ BotReturnedFirst(p)
=============================================================================
