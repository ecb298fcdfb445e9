------------------------- MODULE SummaryGeneration --------------------------
(***************************************************************************)
(* The calls that generate or fetch the summary of one period of a user,   *)
(* and the table agent_responses that caches them:                         *)
(*                                                                         *)
(*   - internal/services/summaries.go: GenerateSummary, for the API,       *)
(*     /weekly and the weekly scheduler, under the period's lock           *)
(*   - internal/services/service.go: DailyAtDate, for /daily and the daily *)
(*     scheduler, which takes no lock and shares the cache                 *)
(*   - internal/scheduler/weekly.go: sendForAll                            *)
(*   - internal/adapters/store/store.go: the sources and the cache         *)
(*                                                                         *)
(* Notes are captured and enriched meanwhile.  A source stands for its     *)
(* hash, a text for the call that the LLM answered.  The deferred calls of *)
(* GenerateSummary run in reverse: the lock leaves the map before it is    *)
(* unlocked.  The deadline of the call, an error and a panic all end it at *)
(* any statement, through the same deferred calls; waiting for the mutex   *)
(* knows no deadline.                                                      *)
(***************************************************************************)
EXTENDS Naturals, FiniteSets

CONSTANTS
  Requests,   \* calls of GenerateSummary by the API and /weekly
  Others,     \* calls of the weekly scheduler, or of DailyAtDate
  Forceable,  \* those that may come with force or --refresh
  None,       \* no call, no mutex
  MaxSource   \* bound: the contents that the source can have

ASSUME SummaryAssumption ==
  /\ None \notin Requests \union Others
  /\ Requests \intersect Others = {}
  /\ IsFiniteSet(Requests) /\ IsFiniteSet(Others)
  /\ Forceable \subseteq Requests \union Others
  /\ MaxSource \in Nat

Calls == Requests \union Others   \* for the same period and language
Sources == 1..MaxSource
NoSource == 0

PC == {"idle", "acquire", "read", "lookup", "llm", "reread", "forget",
       "unlock", "reply", "done"}
Text == [by : Calls, from : Sources]
NoText == [by |-> None, from |-> NoSource]
Texts == Text \union {NoText}
Call == [pc : PC, mutex : Calls \union {None},
         source : Sources \union {NoSource}, generated : BOOLEAN, answer : Texts]

VARIABLES
  kind,     \* of the period: "daily" or "weekly"
  forced,   \* the calls with force or --refresh
  source,   \* what the statements find in the period
  cache,    \* agent_responses: the text under each source hash
  lockMap,  \* summaryLocks: the period's mutex, named by the call that made it
  holder,   \* who has locked a mutex
  call,     \* the calls
  old       \* the calls whose texts were in the cache when a call began

vars == <<kind, forced, source, cache, lockMap, holder, call, old>>

(* Who takes the period's lock; the weekly scheduler never forces.         *)
Locks(c) == c \in Requests \/ kind = "weekly"
Scheduled(c) == c \in Others /\ kind = "weekly"

Idle == [pc |-> "idle", mutex |-> None,
         source |-> NoSource, generated |-> FALSE, answer |-> NoText]

Init ==
  /\ kind \in {"daily", "weekly"}
  /\ forced \in SUBSET {c \in Forceable : ~Scheduled(c)}
  /\ source = NoSource
  /\ cache = [h \in Sources |-> NoText]
  /\ lockMap = None
  /\ holder = [m \in Calls |-> None]
  /\ call = [c \in Calls |-> Idle]
  /\ old = [c \in Calls |-> {}]

-----------------------------------------------------------------------------
At(c, pc) == call[c].pc = pc
Goto(c, pc) == call' = [call EXCEPT ![c].pc = pc]
(* Where a call goes when its work is over.                                *)
Leaves(c) == IF Locks(c) THEN "forget" ELSE "reply"

(* LoadOrStore: the period's mutex, or a new one.                          *)
NewLock(c) == c
LoadOrStore(c) == IF lockMap = None THEN c ELSE lockMap

Begin(c, pc, mutex) ==
  /\ At(c, "idle")
  /\ call' = [call EXCEPT ![c].pc = pc, ![c].mutex = mutex]
  /\ old' = [old EXCEPT ![c] =
       IF c \in forced \/ Scheduled(c) THEN {cache[h].by : h \in Sources} ELSE {}]

GenerateSummary(c) ==
  /\ Locks(c)
  /\ lockMap' = LoadOrStore(c)
  /\ Begin(c, "acquire", LoadOrStore(c))
  /\ UNCHANGED <<kind, forced, source, cache, holder>>

DailyAtDate(c) ==
  /\ ~Locks(c)
  /\ Begin(c, "read", None)
  /\ UNCHANGED <<kind, forced, source, cache, lockMap, holder>>

Acquire(c) ==
  /\ At(c, "acquire")
  /\ holder[call[c].mutex] = None
  /\ holder' = [holder EXCEPT ![call[c].mutex] = c]
  /\ Goto(c, "read")
  /\ UNCHANGED <<kind, forced, source, cache, lockMap, old>>

(* The source of the period: the id, time, summary and text of its notes,  *)
(* in order, which both functions write alike; the calls share the cache.  *)
RecentDailySource == source
RecentSummarySource == source
summarySource == IF kind = "daily" THEN RecentDailySource ELSE RecentSummarySource

(* Without notes there is nothing to do.                                   *)
ReadSource(c) ==
  /\ At(c, "read")
  /\ call' = [call EXCEPT ![c].source = summarySource,
       ![c].pc = IF summarySource = NoSource THEN Leaves(c)
                 ELSE IF c \in forced THEN "llm" ELSE "lookup"]
  /\ UNCHANGED <<kind, forced, source, cache, lockMap, holder, old>>

LookupByPeriod(c) == IF cache[call[c].source] # NoText THEN cache[call[c].source]
  ELSE IF \E h \in Sources : cache[h] # NoText
       THEN cache[CHOOSE h \in Sources : cache[h] # NoText] ELSE NoText
GetCachedAgentResponse(c) == cache[call[c].source]

LookUp(c) ==
  /\ At(c, "lookup")
  /\ call' = [call EXCEPT ![c].answer = GetCachedAgentResponse(c),
       ![c].pc = IF GetCachedAgentResponse(c) = NoText THEN "llm" ELSE Leaves(c)]
  /\ UNCHANGED <<kind, forced, source, cache, lockMap, holder, old>>

(* SaveAgentResponse: the text of an existing key is replaced.             *)
SaveAsCurrent(c) == cache' = [cache EXCEPT ![source] = [by |-> c, from |-> call[c].source]]
SaveAgentResponse(c) == cache' =
  [cache EXCEPT ![call[c].source] = [by |-> c, from |-> call[c].source]]

(* The LLM has answered.  DailyAtDate answers its own text, GenerateSummary *)
(* reads the row again.                                                    *)
Save(c) ==
  /\ At(c, "llm")
  /\ SaveAgentResponse(c)
  /\ call' = [call EXCEPT
       ![c].pc = IF Locks(c) THEN "reread" ELSE "reply",
       ![c].answer = IF Locks(c) THEN @ ELSE [by |-> c, from |-> call[c].source]]
  /\ UNCHANGED <<kind, forced, source, lockMap, holder, old>>

Reread(c) ==
  /\ At(c, "reread")
  /\ call' = [call EXCEPT ![c].pc = "forget", ![c].generated = TRUE,
                          ![c].answer = GetCachedAgentResponse(c)]
  /\ UNCHANGED <<kind, forced, source, cache, lockMap, holder, old>>

(* An error, the deadline or a panic; a save may have taken effect.        *)
Fails(c) ==
  /\ call[c].pc \in {"read", "lookup", "llm", "reread"}
  /\ \/ At(c, "llm") /\ SaveAgentResponse(c)
     \/ UNCHANGED cache
  /\ call' = [call EXCEPT ![c].pc = Leaves(c), ![c].answer = NoText]
  /\ UNCHANGED <<kind, forced, source, lockMap, holder, old>>

(* The deferred calls.  Forget deletes whatever mutex the map holds now.   *)
Forget(c) ==
  /\ At(c, "forget")
  /\ lockMap' = None
  /\ Goto(c, "unlock")
  /\ UNCHANGED <<kind, forced, source, cache, holder, old>>

ReleasedByGenerator(c) == IF call[c].generated THEN None ELSE c
Released(c) == None
Ends(c) == call' = [call EXCEPT ![c] = [Idle EXCEPT !.pc = "done"]]
Unlock(c) ==
  /\ At(c, "unlock")
  /\ holder' = [holder EXCEPT ![call[c].mutex] = Released(c)]
  /\ Ends(c)
  /\ old' = [old EXCEPT ![c] = {}]
  /\ UNCHANGED <<kind, forced, source, cache, lockMap>>

Reply(c) ==
  /\ At(c, "reply")
  /\ Ends(c)
  /\ UNCHANGED <<kind, forced, source, cache, lockMap, holder, old>>

(* What the caller shows.  The weekly scheduler sends what it generated    *)
(* and skips the rest: an error, no notes, a cache hit.                    *)
AnyAnswer(c) == call[c].answer
Shown(c) == IF Scheduled(c) /\ ~call[c].generated THEN NoText ELSE call[c].answer

(* A note of the period is captured or enriched; none is ever deleted.     *)
SourceChanges ==
  /\ \E h \in Sources \ {source} : source' = h
  /\ UNCHANGED <<kind, forced, cache, lockMap, holder, call, old>>

Step(c) ==
  \/ Acquire(c) \/ ReadSource(c) \/ LookUp(c) \/ Save(c) \/ Reread(c)
  \/ Fails(c) \/ Forget(c) \/ Unlock(c) \/ Reply(c)

Next ==
  \/ \E c \in Calls : GenerateSummary(c) \/ DailyAtDate(c) \/ Step(c)
  \/ SourceChanges

Spec == Init /\ [][Next]_vars

(* The LLM client and the statements have deadlines, so a call goes on.    *)
FairSpec == Spec /\ \A c \in Calls : WF_vars(Step(c))

-----------------------------------------------------------------------------
(* Calls, locks and rows keep their types; a mutex is held by a call that  *)
(* has it and is between acquiring and releasing it.                       *)
TypeOK ==
  /\ forced \subseteq Forceable
  /\ source \in Sources \union {NoSource}
  /\ cache \in [Sources -> Texts]
  /\ lockMap \in Calls \union {None}
  /\ call \in [Calls -> Call]
  /\ old \in [Calls -> SUBSET (Calls \union {None})]
  /\ holder \in [Calls -> Calls \union {None}]
  /\ \A m \in Calls : holder[m] # None =>
       call[holder[m]].mutex = m /\ ~At(holder[m], "done")

(* Whatever is captured, enriched or saved by others meanwhile, a call     *)
(* answers with a text made from the very source that it read: the hash in *)
(* the key of the cache is that of the source given to the LLM.            *)
AnswersMatchTheSource == \A c \in Calls :
  call[c].answer # NoText => call[c].answer.from = call[c].source

(* --refresh and force never show a text that was in the cache before,     *)
(* although the row is read back after others may have written it; nor     *)
(* does the weekly scheduler send one.                                     *)
NothingOldIsRefreshed == \A c \in Calls :
  (At(c, "unlock") \/ At(c, "reply")) /\ (c \in forced \/ Scheduled(c)) =>
    Shown(c) = NoText \/ Shown(c).by \notin old[c]

(* Two calls for the period never generate at the same time.  A third can  *)
(* join them: it finds the map empty before the first has unlocked.        *)
Section(c) == Locks(c) /\ call[c].pc \in {"read", "lookup", "llm", "reread"}
PairsExclude ==
  Cardinality({c \in Calls : Locks(c) /\ ~At(c, "idle")}) <= 2 =>
    Cardinality({c \in Calls : Section(c)}) <= 1

(* Every call ends, on whatever path the holder of the mutex left.         *)
EveryCallEnds == \A c \in Calls : At(c, "acquire") \/ At(c, "read") ~> At(c, "done")
=============================================================================
