# A verification of lead-log

lead-log is a Go service that captures a manager's notes over Telegram and HTTP,
stores them in PostgreSQL, has an LLM extract actions, decisions and people from
them in the background, and sends daily and weekly recaps. This directory holds
TLA+ models of the parts of it in which concurrency, failure or time decide
whether it is correct, the TLC configurations that check them on small instances,
and proofs, checked by TLAPS, of what holds for every instance. Paths below are
relative to the repository; `PROJECT.json` maps every definition to its lines.

    tlasany M.tla                            parse a module
    tlc -workers 2 -config X.cfg MCM.tla     model-check a configuration
    tlapm M_proofs.tla                       check the proofs of a module

## 1. The system

One process (`cmd/lead-log/main.go`) runs the HTTP API, the Telegram bot, the
enrichment worker pool and the two schedulers as goroutines over one PostgreSQL
pool. They share no memory but a map of summary locks and the HTTP rate limiter's
buckets; everything else meets in the database, also when several processes run.

| component | state | operations | what is hard |
|---|---|---|---|
| Note enrichment: `workers/note_enrichment.go`, `services/service.go`, `adapters/store/store.go` | the lifecycle columns of `notes`; the rows generated from a note; the goroutines of a batch | poll and claim, `/now`, explicit claim, LLM call, save, mark failed, reschedule | stale claims, late results, lost commits, crashes, two instances, the attempt cap |
| Telegram inbox: `adapters/bot/client.go`, `store.go` | `telegram_updates`; one goroutine per update | claim, command, mark with or without a domain mutation, reply | redelivery, takeover, a commit reported as failed, two marks of one update |
| Daily scheduler: `scheduler/daily.go` | `daily_summary_sends`; the planned run | plan, fire, look up, generate, send, record | local time across a clock change, weekends, send before record |
| Weekly scheduler: `scheduler/weekly.go`, `domain/periods` | none of its own: it relies on the summary cache | plan, generate, send | it sends only what it generated itself |
| Summary generation: `services/summaries.go`, `DailyAtDate` | `agent_responses`; `summaryLocks` | generate, look up, save, list | the lock's map entry, notes that change during an LLM call, concurrent upserts |
| People identity: `store.go` (`upsertPerson`, `UpdatePersonProfile`, `MergePeople`) | `people`, `person_aliases`, tombstones | upsert by name, rename, merge | lock orders, rows that land on a tombstone |
| Accounts, sessions, Telegram linking: `services/auth.go`, `store.go` | `users`, `auth_identities`, `telegram_accounts`, `web_sessions`, `telegram_link_tokens` | register, log in, link, unlink, `UpsertUser` | the merge of a Telegram account into a web account |
| Migrations: `pkg/db/migrate.go` | `schema_migrations`, an advisory lock | lock, look up, apply, record | two processes and two releases starting, a lost lock, a lost acknowledgement |
| Process: `main.go`, `config`, `httpapi/server.go` | the goroutines, the context, a channel for the HTTP server's outcome | load, wire, wait for the first that ends, drain, close | whoever ends first, the pool closing under a request |
| HTTP API and read models: `adapters/httpapi`, `services/{service,today,people,tickets_workspace}.go` | cursors, held by the client; rate-limit buckets | lists page by page, pages of several statements | rows that change between pages and between statements |
| LLM client, retrieval and the bot's read commands, normalisation, logging | none that outlives a call | | pure data and I/O |

The interactions: the bot and the API insert notes, which the pool claims; `/now`
inserts a note already claimed and enriches it in its handler; enrichment upserts
people; the schedulers and `/daily`, `/weekly` read the notes and share the summary
cache; linking deletes an account with everything it owns.

What makes each correct:

- *Enrichment*: one owner per claim; a late result never replaces a later one; the
  result stored belongs to the claim the row names; at most `MaxAttempts` claims;
  every note ends processed or exhausted; processed is final.
- *Inbox*: at most one mutation and one response per update, the response only
  after the commit; the cap; nobody is met with silence.
- *Schedulers*: each recap once, of the right day, at the right local time; one
  user's failure costs no other.
- *Summaries*: an answer was generated from the source its call read; a forced
  refresh never shows what was cached before; two generations of a period exclude each
  other; every call ends.
- *People*: a name means one person; a merge sticks; a note stays about the people it
  was about; edits do not deadlock.
- *Accounts*: a user has one login; a link joins its opener to the person who asked for
  it, once; a login and the data behind it never vanish; a dead session opens nothing.
- *Process*: each migration takes effect once; nobody waits for ever behind a lock; the
  pool closes after the requests; a signal ends the process, and so does a failed HTTP
  server unless the bot has returned first.
- *Reads*: paging delivers every untouched row exactly once; a note shown as processed
  is shown with its results.

The list of hazards, each at its line and with the properties that cover it, is
`hazards` in `PROJECT.json`.

## 2. The modules

| module | models | notes |
|---|---|---|
| `NoteEnrichment` | the queue, its workers, `/now`, explicit calls, processes | |
| `EnrichmentContract` | what the queue promises | the abstract specification; `NoteEnrichment` implements it |
| `TelegramInbox` | the inbox table and the handlers | |
| `LocalCalendar` | Go's `time` package over a calendar with one clock change | external; used by `DailyScheduler` |
| `DailyScheduler` | the daily recap | extends `LocalCalendar` |
| `SummaryGeneration` | the calls for one period's summary, their lock and cache; what the weekly scheduler sends | |
| `PersonIdentity` | people, aliases and the rows on them under concurrent transactions | |
| `AccountLinking` | users, logins, sessions, link tokens, Telegram accounts | |
| `ProcessLifecycle` | environment, migrations, wiring, shutdown, of several processes | |
| `WorkspaceReads` | what an API client reads while the database changes | |
| `MC...` | the instances for TLC | |
| `..._proofs` | theorems and their proofs | of the eight modules with state; `LocalCalendar` and `EnrichmentContract` are covered by those that use them |

### NoteEnrichment

`note[n]` is the row (status, `processing_started_at`, `processing_attempts`,
`next_processing_at`); `job[<<i, path, n>>]` is the goroutine of instance `i` that
works on `n` by a path: `worker`, `now` or `explicit`; `stored[n]` is the claim
whose result is in the tables, and `action[n]` the status of the generated action.

| code | action |
|---|---|
| `SaveRawNote...` | `CreatePendingNote` |
| `CreateAndClaimNote...` and the handler of `/now` | `CreateAndClaimNote` |
| `ClaimNextNotesForEnrichment` and `poll` | `Poll`: one SQL statement claims the batch; its rows may fail to be read |
| the semaphore; the cancelled loop; `recover` | `StartJob`, `DropJob`, `JobPanics` |
| `ClaimNoteForEnrichment` | `ExplicitClaim`, and `ExplicitFallback` when its UPDATE claims nothing and it returns the row it reads |
| `EnrichClaimedNote` | `LLMReturns`, `LLMFails`, then `SaveSucceeds`, `SaveAckLost`, `SaveFails`, `MarkFailed` |
| `ScheduleNoteEnrichmentRetry`, `MarkNoteEnrichmentPermanentlyFailed` | `Reschedule` |
| SIGTERM, end of `main`, crash, start | `Terminate`, `Exit`, `Crash`, `Restart` |

A transaction is one action, as PostgreSQL makes it; between statements everything
interleaves. The claim time is a counter: two claims of a note are serialised by the
row's lock and microseconds apart. Timeouts are the actions `GrowStale` and
`BecomeDue`, free to happen at any moment, hence at every ratio of the timeout to
the speed of the LLM. The content of a result is abstracted to the claim that
produced it, which is all the properties distinguish.

### TelegramInbox

`row[u]` is the row of `telegram_updates`, `handler[<<i, u>>]` the goroutine,
`effects`, `answers` and `errors` count the domain commits, the command's responses
and the error messages. The commands fall into six kinds, which is how the code
treats them: those that commit a mutation with the mark (`capture`, `now`, `done`),
`/done` with something that is not a number, `/done` alone, and all others, which are
marked before the reply. `Deliver` and `Confirm` are external: Telegram hands an
update out until a later poll confirms it, whatever its handler has done.

### LocalCalendar and DailyScheduler

An instant is a number of hours since a Monday's midnight; one day of the calendar is
an hour shorter or longer. `Date`, `In` and `AddDate` are tables over that calendar,
and `NextRun`, `SourceDate` translate `nextRun` and `sourceDateForRun` on top of them.
`captured` are the user and day of the notes there are: of `DailyAtDate` only whether
it finds notes matters here. The scheduler's program counter follows `Run` and
`sendForAll`: `Plan`, `Fire`, `CheckSent`, `Generate`, `SendRecap`, `RecordSend`,
and `CallFails` for every error path, after which the loop goes on with the next
user. `failed` and `sent` are history variables of the properties.

### SummaryGeneration

One period of one user. `source` stands for what the statements find in the period (its
hash), `cache` for `agent_responses` under each hash, `lockMap` for the period's entry of
`summaryLocks`, `holder` for who has locked a mutex; a mutex is named by the call that
made it. A text is the call that generated it and the source it was given. `forced` are
the calls that came with `force` or `--refresh`, of `GenerateSummary` or of `/daily`.
`old` is a history variable: whose texts were cached when a call began.

| code | action |
|---|---|
| `GenerateSummary`: `LoadOrStore`, then `Lock` | `GenerateSummary`, `Acquire` |
| `DailyAtDate`, which takes no lock | `DailyAtDate` |
| `RecentSummarySource` / `RecentDailySource` | `ReadSource` |
| `GetCachedAgentResponse` | `LookUp`, and `Reread` for the row read back after a save |
| the LLM's answer and `SaveAgentResponse` | `Save` |
| an error, the deadline, a panic at any statement | `Fails`; a save may have taken effect |
| the deferred `Delete`, then the deferred `Unlock` | `Forget`, `Unlock`: in that order, as defers run |
| the return to a caller without the lock | `Reply` |
| `sendForAll` of the weekly scheduler; the other callers | `Shown` |
| capture and enrichment | `SourceChanges`, at any moment |

### PersonIdentity

`people` are the rows (name, `merged_into_person_id`, `updated_at` as a version),
`aliases` the owner of each normalised name, `links[n]` the rows that note `n` has on
people; `meant[n]` remembers which people they stood for when the note was saved.
`enrich[e]` and `edit[d]` are open transactions with what they have locked and seen.

| code | action |
|---|---|
| `SaveNoteEnrichmentResult` from `BEGIN` | `EnrichBegin` |
| `upsertPerson` by its branches | `ResolveByAlias`, `ResolveByName`, `CreatePerson`, each taking the name's advisory lock |
| inserting the note's row on the person | `LinkPerson`, which shares the row's lock by the foreign key |
| the end of the transaction | `EnrichCommit`, `EnrichRollback` |
| `UpdatePersonProfile`, `MergePeople`: the first statement | `UpdateBegin`, `MergeBegin`: takes the snapshot |
| the row locks, in id order | `LockRow`, with the answers for what is no longer active |
| the advisory locks, in name order; the conflict checks | `LockNorm` |
| the writes and the commit | `EditCommit`, if nothing it locks or writes has changed since the snapshot |
| serialization failures, PostgreSQL's deadlock victims, errors | `EditRollback` |

Enrichments run at READ COMMITTED and see what is committed; edits run at SERIALIZABLE
and see their snapshot, which is older than their locks when the first statement waited.
That difference is what the properties are about. The model starts with people of
distinct normalised names. Migration 015 says that historical rows may share one, which
nothing repairs: `NamesIdentifyOnePerson` is about the names given since. A note is
enriched once here, so the deletion of its earlier rows, with which
`SaveNoteEnrichmentResult` begins, has nothing to delete; that a note may be enriched
again is in `NoteEnrichment`. Deadlocks between an edit and an
enrichment are possible; PostgreSQL ends them by failing one, hence a rollback.

### AccountLinking

Users are numbered in the order they are made. `identity` is `auth_identities`,
`account` is `telegram_accounts`, `claimedTg` is `users.telegram_user_id`, `session` and
`token` are the rows of the two token tables (issued, valid, ended), `notes[u]` counts
what `LinkTelegramByToken` counts before it deletes a user (notes, actions, people,
decisions). `login[e]` is a `Login` between reading the user and
inserting the session, `job[w]` the transaction of `LinkTelegramByToken` with the row
locks it holds. `requester` and `granted` are history variables.

| code | action |
|---|---|
| `Register`, `CreateUserWithIdentityAndSession` | `Register` |
| `Login` | `LoginReads`, `LoginInserts`, between which the user may have been merged away |
| the middleware, `Logout`, expiry | `Principal`, `Logout` |
| `CreateTelegramLink` | `CreateTelegramLink`: spends the user's other tokens |
| `UnlinkTelegram` | `UnlinkTelegram` |
| `LinkTelegramByToken` | `LinkBegin` (token and account locked), `LinkCounts` (the counts of logins and of data: one step at that of the data, as the row locks keep the logins), then `MergeAccounts`, `AttachAccount` or `RefreshAccount`; `LinkRollsBack` |
| `UpsertUser` by a scheduler | `UpsertUser`: one step, since the unique indexes fail its inserts if what its SELECT saw no longer holds |
| a message or request that writes | `CaptureByWeb`, `CaptureByBot` |

### ProcessLifecycle

Per process: `pc` of `main`, the files `pending` in `Migrate`, the context, the HTTP
server with its outcome and the channel it comes over, one request, the open
transaction; in the database: the advisory lock's holder, `recorded`
(`schema_migrations`) and `effects`, how often a file has changed the schema.

| code | action |
|---|---|
| `config.Load` | `Start`, for environments that `Loads` lets by |
| `Migrate` | `TakeLock`, `Check`, `Apply`, `Commit`, `Migrated`; `Fails`, `Cancelled`, `CommitUnacknowledged`; `LoseLock` when the lock's connection breaks |
| the wiring in `main` | `Wire`, `WiringFails` |
| `RunServer` | `HttpFails`, `Shutdown`, `ShutdownEnds` |
| `main`'s select, `<-ctx.Done()`, the wait for the server | `SelectBot`, `SelectHttp`, `SelectDone`, `Stopping`, `Drained` |
| `pool.Close` | `Close`: waits for connections in use |
| signal, crash | `Signal`, `Crash` |

### WorkspaceReads

`at[i]` is the time a row is sorted by and `marked` what the narrower filter of its list
passes. `Ask` is the one statement of a page, with the validation of limit and cursor in
`Accepted` and the cursor in `NextCursor`. The detail pages and the notes lists are a
sequence of statements (`Statements`), each an action that reads the present state:
`view` records of which notes each could see results. Writers: rows appear with a time
that may lie before that of rows already there (`Begun`: `now()` of a transaction is its
start), are enriched, moved, completed, merged.

## 3. The runs

| run | asks | bounds | distinct states |
|---|---|---|---|
| `enrichment_open` | types, `ResultMatchesStatus`, `NeverOverwritten` with everything allowed: lost acknowledgements, explicit calls | 2 notes in one batch, 1 instance, 2 attempts, 1 stop | 1.8 million |
| `enrichment_contract` | `OneOwner`, `AttemptsBounded`, `CompletedActionsSurvive`, `ImplementsContract` | 1 note, 2 instances, 3 attempts, 2 stops | 17 000 |
| `enrichment_exhausted` | refutes `ExhaustedNotesFail` | 1 note, 2 attempts | |
| `inbox` | types, `AtMostOnce`, `AnswersAreTrue`, `AttemptsBounded`, `ProcessedIsFinal`, `NoSilence` | 1 update of any kind, 2 instances, 2 attempts, 2 stops | 120 000 |
| `daily` | `NeverResentOnceRecorded`, `RecapsThePreviousWorkday`, `WorkdaysAreRecapped` | 11 days, 2 users, notes on a Friday and a Sunday, 2 stops, clock moved back | 53 000 |
| `summaries` | types, `AnswersMatchTheSource`, `NothingOldIsRefreshed`, `PairsExclude`, `EveryCallEnds` | 3 calls: one plain, one forced or not, one scheduled or `/daily` with or without `--refresh`; 2 contents of the period; either kind | 299 000 |
| `people` | types, `NamesIdentifyOnePerson`, `MergedForGood`, `NotesKeepTheirPeople`, `EditsNeverDeadlock` | 2 known people, a third name, a second spelling; 1 enrichment, any 2 edits, 1 old note; an alias may be missing | 778 000 |
| `people_live_records` | refutes `LiveRecordsAreReassigned` | the same without the second spelling | |
| `accounts` | types, `OneLogin`, `SessionsHaveLogin`, `LinkUsedOnce`, `NotesReachable`, `LinkJoinsTheRequester`, `DataSurvivesLinking` | 2 addresses, 2 Telegram users (one configured), 2 handlers, 3 users, 3 sessions, 2 tokens, 1 note each | 490 000 |
| `lifecycle` | types, `AppliedOnce`, `PoolClosesLast`, `RunnersFinish`, `StopsWhenTold` | 2 processes, 2 releases, the later of which brings a file that sorts before the first's, 3 starts, 7 environments | 71 000 |
| `reads` | `DeliveredOnce`, `ProcessedNotesAreComplete` | 9 lists and pages, 3 rows, pages of 1 and 2, 4 writes; for the summaries a user at UTC | 602 000 |
| `reads_summaries` | refutes `PagesFollowTheOrder` | summaries only, a user east of UTC | |

Why the bounds are enough. *Enrichment*: notes interact only through the batch and the
semaphore, so two notes show that interaction and one note the rest. Two instances are
needed for a takeover by another process, and three attempts for a takeover of a
takeover; two stops let the process that took over stop as well. *Inbox*: updates
interact only through the action they close, which `SetActionStatus` changes at any
moment, so one update suffices. *Daily*: the calendar runs past one weekend with the
clock change in it. Days of five hours are as good as days of 24: the code compares
hours and adds days. One change of the clock in the small hours is what time zones do;
the run time exists on every day, as 08:45 does. *Summaries*: the broken exclusion needs
three calls, one in the critical section, one waiting, one that finds the map empty; two
contents make a hit and a miss, and the source may change back. *People*: a cycle of
locks, and a merge against a merge with a common person, take two edits; a name that
means two people takes two transactions that create or rename. *Accounts*: a link that
moves a login involves one web user and one Telegram user; the second of each is the
competitor, and the third user is made by the scheduler or by a second registration.
*Lifecycle*: two migrating processes are what a lost lock lets in together; the third
start is the one after a crash; the second release brings a file that sorts before one
already applied. *Reads*: three rows and pages of one and two give a first, a middle and
a last page; four writes are one more than the rows.

`CHECK_DEADLOCK FALSE`: when every note is processed, every update answered, every call
ended, or a bound reached, nothing is left to do. `SYMMETRY` is used in
`enrichment_open`, `accounts` and the runs of people: none of them checks liveness, and
the permuted names occur in no `CHOOSE` whose result depends on them.

### Fairness

Weak, but for one case, and what the code's scheduling gives. *Enrichment, inbox,
daily*: the poll's ticker fires, runnable goroutines run (an LLM call ends by the
client's timeout), clocks advance, a cancelled process exits, and an operator or
`restart:` policy starts a process that is down. `WF` of a job's or handler's step
promises *some* outcome, never success. *Summaries*: `WF` of a call's step, because the
LLM client and the statements have deadlines; waiting for a mutex has none, and that it
ends is what `EveryCallEnds` shows. *Lifecycle*: `WF` of the steps of `Migrate`, of
`main`, of the server's shutdown (`http.Server.Shutdown` has ten seconds) and of a
statement's end; `SF` of `TakeLock`, because PostgreSQL queues for an advisory lock, so a
waiter that finds it free again and again gets it. Users, SIGTERM and crashes owe
nothing; crashes are bounded by `MaxStops` or `MaxStarts`, and where a property could not
survive them it says so (`stops > 0` in `NoSilence` and `WorkdaysAreRecapped`).

### What the code does otherwise than its documents say

Three runs end in a counterexample; `findings` in `PROJECT.json` quotes the documents.

1. `enrichment_exhausted` (store.go:542). A crash, shutdown or panic in the last
   attempt leaves the note `processing` for ever: stale claims are taken over only
   below the cap.
2. `people_live_records` (store.go:2307). A merge that waits for an enrichment's row lock
   has its snapshot from before that enrichment's commit, so the rows just written stay
   on the tombstone. Reads that follow `merged_into_person_id` still find the person,
   which is why `NotesKeepTheirPeople` holds.
3. `reads_summaries` (httpapi.go:657). The cursor of the summaries is built from the
   period's last day, printed in the user's zone, as a midnight of UTC. East of UTC the
   next page begins with rows already shown; with a limit of one it never advances. For a
   user at UTC (`Offset = 0`, run `reads`) it is right; west of UTC the next page leaves
   out the rows with the same end (configuration `WorkspaceReads_summaries_west`).

Further disagreements have a configuration beside the runs. Each of these ends in a
counterexample, of the property named:

| configuration | module | refutes | what it shows |
|---|---|---|---|
| `NoteEnrichment_lost_ack` | `MCNoteEnrichment` | `ProcessedIsFinal` | store.go:588: the retry statements name the claim but not the status, so after a commit that was reported as failed a processed note becomes failed, is enriched again, and its actions are deleted and recreated; docs say later workers skip it |
| `NoteEnrichment_explicit_owner` | `MCNoteEnrichment` | `OneOwner` | store.go:845: the fallback of `ClaimNoteForEnrichment` lends a second caller the claim of the first; the explicit calls have no caller in the program today |
| `TelegramInbox_usage` | `MCTelegramInbox` | `UsageIsAnswered` | bot/client.go:216: a bare `/done` is marked twice; the second mark fails and the user sees a generic error in place of the usage |
| `DailyScheduler_dst` | `MCDailyScheduler` | `RunsAtLocalTime` | daily.go:141: midnight plus a duration is not a local time on a day with a clock change: the run is an hour off, or repeated |
| `PersonIdentity_names` | `MCPersonIdentity` | `NamesStayResolvable` | store.go:2110 and 761: an update that removes aliases removes those that resolve merged people; the next note with such a name inserts a person whose display name the tombstone still has, and fails at every attempt |
| `AccountLinking_allow_list` | `MCAccountLinking` | `OnlyLinksAdmit` | store.go:289: the schedulers make a user and an account for every configured Telegram id, and from then on the bot takes its messages without a link |
| `WorkspaceReads_summaries_west` | `MCWorkspaceReads` | `DeliveredOnce` | httpapi.go:657: for a user west of UTC the cursor's time lies before that of its row, and of summaries whose periods end together, those behind the cursor are never delivered |

`BackoffHonoured` in `NoteEnrichment` states one more: after a failed `/now` the note is
failed without a `next_processing_at`, and a worker retries it at once. Two further
configurations, `DailyScheduler_types` and `WorkspaceReads_types`, check the type
invariants of those modules and end without an error.

Observed while reading, and followed by the models, but with no document to disagree
with: a merge that keeps the source's display name always fails, since the tombstone
keeps it too (store.go:2339), as does renaming a person to a tombstone's name
(store.go:2105); an update or merge can commit and then answer 404 (store.go:1662); a
chain of tombstones is followed for ten steps (store.go:1656); the cursor of the actions
does not carry its filter, so `DeliveredOnce` excludes clients that change it
(`mixed`); the page of a person who is merged between its statements comes out empty
(people.go:40); if `Bot.Run` returns nil, because the channel of updates was closed
(client.go:71), `main` waits for a signal without watching the HTTP server, so that
a server that fails then, or failed before `main` looked, ends nothing: `StopsWhenTold`
has this as its exception (`BotReturnedFirst`); and unlinking leaves `users.telegram_user_id` set. The summary lock leaves
the map before it is unlocked (summaries.go:107), so it excludes two calls, not three:
`PairsExclude` says exactly that, and the theorems about the answers of the summaries do
not use the lock.

## 4. The proofs

**NoteEnrichment_proofs**, in three layers, each an inductive invariant on top of the
ones before.

1. `TypeOK`: theorem `TypeCorrect`.
2. `Fenced`. Neither `ResultMatchesStatus` nor `NeverOverwritten` is inductive: a
   step could commit with a claim newer than the row's, or twice under one claim.
   `Fenced` adds that no job's claim is ahead of its note's, and that while a row is
   `processing` its claim has not stored anything (`stored[n] < startedAt`). A commit
   needs the row's own claim, so it moves `stored` strictly forward. Theorems
   `ResultMatches` and `NeverOverwrites`, with no assumption on the environment.
3. `Counted` (attempts equal claims), `OneOwner` and `Settled` (nobody who is not
   idle holds the claim of a processed note; only processed notes have actions).
   They give `AttemptsCapped` and `SingleOwner`, assuming `~ExplicitCalls`;
   `ProcessedStays` and `CompletedSurvive`, assuming also `~LostAcks`; and
   `Implements`: `Spec => Contract!Spec` under the refinement mapping, one lemma per
   kind of step. The configurations `NoteEnrichment_explicit_owner` and
   `NoteEnrichment_lost_ack` show that each assumption is needed.

**TelegramInbox_proofs**. `TypeCorrect`; `MutatesAtMostOnce` and `RepliesAreTrue` from
`Accounted`: before the mark nothing was committed or answered; a handler between
commit and reply has its update processed, its mutation counted and not yet answered;
and there is only one such handler per update. `ProcessedStays` follows from the
marks' guards, `AttemptsCapped` from `Capped`. Nothing is assumed of failures, stops,
deliveries or the number of instances.

**DailyScheduler_proofs**. `NeverResent`: assuming one scheduling process
(`OneInstance`), a recorded recap is never sent. Invariant `UnsentIsUnrecorded`:
from the look-up to the send nobody has recorded the recap. Without the assumption
a second process may record in between. For any number of processes, `TypeCorrect` and
`RecapsTheWorkdayBefore` (`RecapsThePreviousWorkday`), from lemmas about the calendar:
midnights are at least two hours apart, so an instant is on one day; every day reaches
every clock time, so `time.Date` has an answer, also on the day of the change; the run of
a day is past the change, so `AddDate(t, 0)` does not bring it forward; of three days in a
row one is a workday. Hence `NextRunPlanned`: a planned run lies on the calendar, not in
the past, and on a workday. The invariant `OnTime` carries this to the send: a timer is
not overtaken, and a run that goes on is the present one and has that day's source.

**SummaryGeneration_proofs**. `TypeCorrect` and `AnswersMatch` from `IInv`, which adds to
the types that a text is cached under the source it was made from, that a call past
`ReadSource` has a source and one before it no answer, and that a mutex is held by a
call that takes locks and is inside. `RefreshIsNew` from `Fresh`: the texts that are
cached, or were cached when some call began, are of calls past their save; so a call that
is still to save is in nobody's `old`, the row that a call reads back is its own or of
one that saved after it began, and no call that looks up is forced. `FreshStep` is the
one lemma through which every action goes. Any number of calls, and the lock plays no
part. It does in `TwoCallsExclude`, from `Locked`: whoever is inside holds its mutex, and
whoever has not left has the mutex that is in the map, unless *another* call has deleted
that and is leaving or gone. Two calls inside would have two mutexes, so one of them is
not the map's, and the one who deleted it is a third.

**ProcessLifecycle_proofs**. `TypeCorrect` (the first of a set of files exists by
well-founded induction), and `MigratesOnce` from `OpenOnce`: a file in an open
transaction is not recorded, and no two processes have the same file open, which the
primary key of `schema_migrations` ensures. The advisory lock is never mentioned, so the
result holds however it is lost. `ClosesLast` from `ServersInOrder`: a server has an
outcome once it has ended, `nil` only if no request was at work then, and `main` comes to
`pool.Close` only with no server or with the outcome taken from the channel.

**AccountLinking_proofs**. All seven properties from one `IInv`. `OneLogin` and the others
are not inductive on their own: `LinkTelegramByToken` decides on what it has read some statements ago. `JobsOK` says what
of that is still true, because of the row locks it holds: its target exists and is the
requester's user, its account has not moved, and once it has counted, nobody logs in to
the user it is about to delete. `JobsApart` says that no other transaction has its token or
its account; `TokensOK` that a valid token is of the user of the address that asked,
`LoginsCurrent` that what a `Login` has read is current or gone, `GrantedEnded` that a
granted link has used its token up. Theorems `TypeCorrect`, `NoSharedUser`,
`SessionsAreLive`, `LinksAreSingleUse`, `DataHasAnOwner`, and of the steps `LinkJoins`
and `DataSurvives`. Any number of people, Telegram users, sessions, tokens and handlers.

**PersonIdentity_proofs**, three invariants, each on top of the ones before.

1. `Base`: types, and who holds which lock at which stage of a transaction. Edits lock
   rows in the order of ids, then names in their order, so of several that wait, one
   waits for nobody: `NoDeadlock`. `TypeCorrect` adds that a row's version counts edits
   that are done.
2. `Naming`. `NamesIdentifyOnePerson` is not inductive, because an edit checks for
   conflicts on a snapshot that may be older than its locks, and an enrichment decides on
   a name before it writes. `Sees` says what a snapshot still tells of the present: rows
   only gain versions (`Stays`); who has got a name since has an alias to show for it, so
   the edit fails on a row that has changed (`Shows`, `Keeps`); and the rows it has locked
   are as they were (`Stands`). `Gives`, `Makes` and `MakesApart` say what an enrichment
   may assume of the names it has locked: they are still no one else's. Theorem
   `NamesAreOnes`; `NoOneElse` is the lemma in which the two meet.
3. `Lasting`: the tombstones can be numbered in the order of their merges, so the chain
   from each is no longer than there are tombstones and ends at an active person; and a
   merge that was answered with success has its source on its primary. Theorems
   `MergesLast` and `NotesLast`, under `FewMerged`: no more tombstones than `MaxHops`.
   That is not for the proof's sake. `store.go` follows a chain for ten steps, and beyond
   that a merge would not be seen to last. Where there are no more people than hops
   `FewMerged` always holds (lemma `FewPeople`), as in the run `people`.

**WorkspaceReads_proofs**. `PagesAreComplete` from `VInv`: what each statement of a page
saw is among the processed notes, which only become more, and for the lists that ask by
note among the rows found first. `RowsAreDelivered` from `PInv`: as long as a cursor is
valid, a row nothing has touched was delivered once if it lies behind the cursor and not
at all if it lies after it; a page takes the rows after the cursor with fewer than the
limit before them, so its last row parts the rest. The theorem assumes `OwnTimes`: for
the list of summaries, a user at UTC. The run `reads_summaries` shows that this is
needed. `TypeCorrect` besides, for users east and
west of it.

All theorems hold for every value of the constants that satisfies the modules'
assumptions, which ask for no more than that numbers are numbers, sentinels (`None`,
`NoCursor`) are not values, what the program starts with is consistent, and the rows,
calls, edits and migrations there are be finitely many. Every invariant and every action
property that a passing run checks is the subject of a theorem. What stays with TLC:

- liveness: `ImplementsContract`'s fairness part, `NoSilence`, `WorkdaysAreRecapped`,
  `EveryCallEnds`, `RunnersFinish`, `StopsWhenTold`. The provers do not reach it.
- the properties refuted in section 3.

## 5. What is not modelled

In the modelled parts: the text, parsing and normalisation of results, response
wording, the splitting of long messages, the allow list (answered before the inbox's
claim), two updates with one message id, and the LLM and cache steps inside
`DailyAtDate`, which for the daily scheduler only succeed or fail. Time in
`DailyScheduler` does not pass during a run. The weekly scheduler's run times and weeks
are those of the same calendar and are not modelled again; what it sends is in
`SummaryGeneration`. Prompt versions and languages, parts of the cache's key that a
process does not change. Of a profile only the display name and the aliases. Passwords,
hashes and the renewal of a session's expiry.

Not at all: the HTTP rate limiter, CSRF and origin checks, and JSON decoding (each
decides on one request alone, the limiter on counters of one process that no promise
relates to other state); the LLM client (I/O: calls return, fail or time out); retrieval
and the bot's read commands, `/ask`, `/ticket`, `/person`, `/agenda` (they rank, cut and
format rows and keep no state); entity and decision normalisation (pure functions of
text: that a name has one normal form is `Norm` in `PersonIdentity`); logging and error
codes.

## 6. Plan

Left to prove: nothing of what a run checks that the provers reach. `BackoffHonoured` and
the properties of the configurations beside the runs hold under assumptions (no `/now`,
one mark per update, no change of the clock) that would make theorems of their own.

Of the system, what is left is the weekly scheduler's own calendar over a change of the
clock, and a composition of `TelegramInbox` and `NoteEnrichment` over one row for `/now`,
whose interface (a note inserted as claimed) both modules have.
