---------------------- MODULE SummaryGeneration_proofs -----------------------
(***************************************************************************)
(* What the answers of the summary calls are made of, and that what is     *)
(* asked to be generated anew is: for any number of calls, sources and     *)
(* changes of the notes.  The period's lock, which does not exclude a      *)
(* third call, is not needed for either; what it does give, two calls that *)
(* exclude each other, comes last.                                         *)
(***************************************************************************)
EXTENDS SummaryGeneration, FiniteSetTheorems, TLAPS

Types ==
  /\ forced \subseteq Forceable
  /\ source \in Sources \union {NoSource}
  /\ cache \in [Sources -> Texts]
  /\ lockMap \in Calls \union {None}
  /\ call \in [Calls -> Call]
  /\ old \in [Calls -> SUBSET (Calls \union {None})]
  /\ holder \in [Calls -> Calls \union {None}]

(* A call that has read a source has one from then on until it leaves.     *)
HasSource == \A c \in Calls :
  call[c].pc \in {"lookup", "llm", "reread"} => call[c].source \in Sources

(* A mutex is held by a call that takes locks, has it, and is inside.      *)
Inside == {"read", "lookup", "llm", "reread", "forget", "unlock"}
Held == \A m \in Calls : holder[m] # None =>
  Locks(holder[m]) /\ call[holder[m]].mutex = m /\ call[holder[m]].pc \in Inside

Waiting == \A c \in Calls : call[c].pc = "acquire" => Locks(c)

Typed == Types /\ HasSource /\ Held /\ Waiting

(* A text is in the cache under the source it was made from; a call has no *)
(* answer before it has looked, and then one made from the source it read. *)
Keyed ==
  /\ \A h \in Sources : cache[h] # NoText => cache[h].from = h
  /\ \A c \in Calls :
       call[c].pc \in {"idle", "acquire", "read"} => call[c].answer = NoText
  /\ AnswersMatchTheSource

IInv == Typed /\ Keyed

-----------------------------------------------------------------------------
LEMMA ConstantTypes ==
  /\ NoText \in Texts /\ \A t \in Text : t # NoText
  /\ None \notin Calls /\ NoSource \notin Sources
BY SummaryAssumption DEF NoText, Texts, Text, Calls, Sources, NoSource

LEMMA InitIInv == Init => IInv
BY ConstantTypes DEF Init, IInv, Typed, Types, HasSource, Held, Waiting, Keyed,
   AnswersMatchTheSource, Idle, Call, PC

(* What a step that changes one call leaves.                               *)
LEMMA OneCall ==
  ASSUME Types, NEW c \in Calls, NEW r \in Call, call' = [call EXCEPT ![c] = r]
  PROVE  /\ call' \in [Calls -> Call]
         /\ call'[c] = r
         /\ \A d \in Calls \ {c} : call'[d] = call[d]
BY DEF Types

(* A text that is saved has the type and the key of its source.            *)
LEMMA Saved ==
  ASSUME IInv, NEW c \in Calls, At(c, "llm"), SaveAgentResponse(c)
  PROVE  /\ cache' \in [Sources -> Texts]
         /\ \A h \in Sources : cache'[h] # NoText => cache'[h].from = h
<1>1. call[c].source \in Sources BY DEF At, IInv, Typed, HasSource
<1>2. [by |-> c, from |-> call[c].source] \in Text BY <1>1 DEF Text
<1> QED BY <1>1, <1>2 DEF SaveAgentResponse, IInv, Typed, Types, Keyed, Texts

(* The invariant, call by call: what a step of c has to keep.              *)
CallOK(c) ==
  /\ call[c].pc = "acquire" => Locks(c)
  /\ call[c].pc \in {"lookup", "llm", "reread"} => call[c].source \in Sources
  /\ call[c].pc \in {"idle", "acquire", "read"} => call[c].answer = NoText
  /\ call[c].answer # NoText => call[c].answer.from = call[c].source
  /\ \A m \in Calls : holder[m] = c =>
       Locks(c) /\ call[c].mutex = m /\ call[c].pc \in Inside

LEMMA CallsOK ==
  ASSUME Types
  PROVE  /\ IInv <=> /\ \A h \in Sources : cache[h] # NoText => cache[h].from = h
                     /\ \A c \in Calls : CallOK(c)
BY ConstantTypes DEF IInv, Typed, Types, HasSource, Held, Waiting, Keyed,
     AnswersMatchTheSource, CallOK

(* A step of one call that writes neither the cache nor the mutexes.       *)
LEMMA StepOfCall ==
  ASSUME IInv, NEW c \in Calls, NEW r \in Call, call' = [call EXCEPT ![c] = r],
         lockMap' \in Calls \union {None}, old' \in [Calls -> SUBSET (Calls \union {None})],
         UNCHANGED <<kind, forced>>, source' \in Sources \union {NoSource},
         cache' \in [Sources -> Texts],
         \A h \in Sources : cache'[h] # NoText => cache'[h].from = h,
         holder' \in [Calls -> Calls \union {None}],
         \A m \in Calls : holder'[m] \in {holder[m], c, None},
         r.pc = "acquire" => Locks(c),
         r.pc \in {"lookup", "llm", "reread"} => r.source \in Sources,
         r.pc \in {"idle", "acquire", "read"} => r.answer = NoText,
         r.answer # NoText => r.answer.from = r.source,
         \A m \in Calls : holder'[m] = c => Locks(c) /\ r.mutex = m /\ r.pc \in Inside
  PROVE  IInv'
<1>1. Types BY DEF IInv, Typed
<1>2. call' \in [Calls -> Call] /\ call'[c] = r /\ \A d \in Calls \ {c} : call'[d] = call[d]
  BY <1>1, OneCall
<1>3. Types' BY <1>1, <1>2 DEF Types
<1>4. CallOK(c)' BY <1>2 DEF CallOK, Locks
<1>5. ASSUME NEW d \in Calls \ {c} PROVE CallOK(d)'
  <2>1. CallOK(d) BY <1>1, CallsOK
  <2>2. \A m \in Calls : holder'[m] = d => holder[m] = d BY ConstantTypes
  <2> QED BY <1>2, <2>1, <2>2 DEF CallOK, Locks
<1>6. \A d \in Calls : CallOK(d)' BY <1>4, <1>5
<1>7. Types' => (IInv' <=> /\ \A h \in Sources : cache'[h] # NoText => cache'[h].from = h
                          /\ \A d \in Calls : CallOK(d)')
  BY ConstantTypes DEF IInv, Typed, Types, HasSource, Held, Waiting, Keyed,
     AnswersMatchTheSource, CallOK
<1> QED BY <1>3, <1>6, <1>7

-----------------------------------------------------------------------------
LEMMA OfCall ==
  ASSUME IInv, NEW c \in Calls
  PROVE  Types /\ CallOK(c) /\ call[c] \in Call
BY CallsOK DEF IInv, Typed, Types

(* A step of one call that leaves the source, the mutexes and what was old. *)
LEMMA StepInside ==
  ASSUME IInv, NEW c \in Calls, NEW r \in Call, call' = [call EXCEPT ![c] = r],
         UNCHANGED <<kind, forced, source, holder, old>>,
         lockMap' \in Calls \union {None},
         cache' \in [Sources -> Texts],
         \A h \in Sources : cache'[h] # NoText => cache'[h].from = h,
         r.mutex = call[c].mutex,
         r.pc \notin {"idle", "acquire", "read"},
         Locks(c) => r.pc \in Inside,
         r.pc \in {"lookup", "llm", "reread"} => r.source \in Sources,
         r.answer # NoText => r.answer.from = r.source
  PROVE  IInv'
<1>1. Types /\ CallOK(c) BY OfCall
<1>2. /\ source' \in Sources \union {NoSource}
      /\ holder' \in [Calls -> Calls \union {None}]
      /\ old' \in [Calls -> SUBSET (Calls \union {None})]
      /\ \A m \in Calls : holder'[m] \in {holder[m], c, None}
  BY <1>1 DEF Types
<1>3. \A m \in Calls : holder'[m] = c => Locks(c) /\ r.mutex = m /\ r.pc \in Inside
  BY <1>1 DEF CallOK
<1>4. r.pc # "acquire" /\ (r.pc \in {"idle", "acquire", "read"} => r.answer = NoText)
  OBVIOUS
<1> QED BY <1>2, <1>3, <1>4, StepOfCall

LEMMA BeginIInv ==
  ASSUME IInv, NEW c \in Calls, NEW pc \in {"acquire", "read"}, NEW mutex \in Calls \union {None},
         pc = "acquire" => Locks(c), Begin(c, pc, mutex),
         lockMap' \in Calls \union {None}, UNCHANGED <<kind, forced, source, cache, holder>>
  PROVE  IInv'
<1> DEFINE r == [call[c] EXCEPT !.pc = pc, !.mutex = mutex]
<1>0. Types /\ CallOK(c) /\ call[c] \in Call BY OfCall
<1>1. r \in Call BY <1>0 DEF Call, PC
<1>2. call' = [call EXCEPT ![c] = r] BY DEF Begin
<1>3. {cache[h].by : h \in Sources} \subseteq Calls \union {None}
  BY <1>0 DEF Types, Texts, Text, NoText
<1>4. old' \in [Calls -> SUBSET (Calls \union {None})] BY <1>0, <1>3 DEF Begin, Types
<1>5. \A m \in Calls : holder[m] # c BY <1>0 DEF Begin, At, CallOK, Inside
<1>6. r.pc = pc /\ r.answer = NoText /\ r.source = call[c].source
  BY <1>0 DEF Begin, At, CallOK, Call
<1> HIDE DEF r
<1> QED BY <1>0, <1>1, <1>2, <1>4, <1>5, <1>6, StepOfCall DEF IInv, Keyed, Types

LEMMA AcquireIInv == ASSUME IInv, NEW c \in Calls, Acquire(c) PROVE IInv'
<1> DEFINE r == [call[c] EXCEPT !.pc = "read"]
<1>0. Types /\ CallOK(c) /\ call[c] \in Call BY OfCall
<1>1. r \in Call /\ r.pc = "read" /\ r.mutex = call[c].mutex /\ r.answer = NoText
  BY <1>0 DEF Acquire, At, CallOK, Call, PC
<1>2. call' = [call EXCEPT ![c] = r] BY DEF Acquire, Goto
<1>3. \A m \in Calls : holder[m] # c BY <1>0 DEF Acquire, At, CallOK, Inside
<1>4. /\ holder' \in [Calls -> Calls \union {None}]
      /\ \A m \in Calls : holder'[m] \in {holder[m], c}
      /\ \A m \in Calls : holder'[m] = c => m = call[c].mutex
  BY <1>0, <1>3 DEF Acquire, Types
<1>5. Locks(c) BY <1>0 DEF Acquire, At, CallOK
<1>6. \A m \in Calls : holder'[m] = c => Locks(c) /\ r.mutex = m /\ r.pc \in Inside
  BY <1>1, <1>4, <1>5 DEF Inside
<1>7. /\ UNCHANGED <<kind, forced, source, cache, lockMap, old>>
      /\ \A m \in Calls : holder'[m] \in {holder[m], c, None}
  BY <1>4 DEF Acquire
<1>8. /\ lockMap' \in Calls \union {None} /\ source' \in Sources \union {NoSource}
      /\ old' \in [Calls -> SUBSET (Calls \union {None})] /\ cache' \in [Sources -> Texts]
      /\ \A h \in Sources : cache'[h] # NoText => cache'[h].from = h
  BY <1>0, <1>7 DEF Types, IInv, Keyed
<1>9. /\ r.pc # "acquire" /\ r.pc \notin {"lookup", "llm", "reread"}
      /\ r.answer = NoText
  BY <1>1
<1> HIDE DEF r
<1> QED BY <1>1, <1>2, <1>4, <1>6, <1>7, <1>8, <1>9, StepOfCall

(* The steps of a call that read, and the one that fails.                  *)
LEMMA ReadIInv == ASSUME IInv, NEW c \in Calls, ReadSource(c) PROVE IInv'
<1> DEFINE pc == IF source = NoSource THEN Leaves(c)
                 ELSE IF c \in forced THEN "llm" ELSE "lookup"
           r == [call[c] EXCEPT !.source = source, !.pc = pc]
<1>0. Types /\ CallOK(c) /\ call[c] \in Call BY OfCall
<1>1. summarySource = source BY DEF summarySource, RecentDailySource, RecentSummarySource
<1>2. call' = [call EXCEPT ![c] = r] BY <1>1 DEF ReadSource
<1>3. pc \in {"forget", "reply", "llm", "lookup"} BY DEF Leaves
<1>4. pc \in {"llm", "lookup"} => source \in Sources BY <1>0 DEF Types, Leaves
<1>5. Locks(c) => pc \in Inside BY DEF Leaves, Inside
<1> HIDE DEF pc
<1>6. /\ r \in Call /\ r.pc = pc /\ r.source = source /\ r.answer = NoText
      /\ r.mutex = call[c].mutex
  BY <1>0, <1>3 DEF ReadSource, At, CallOK, Call, PC, Types
<1> HIDE DEF r
<1> QED BY <1>0, <1>2, <1>3, <1>4, <1>5, <1>6, StepOfCall
        DEF ReadSource, CallOK, IInv, Keyed, Types

LEMMA LookUpIInv == ASSUME IInv, NEW c \in Calls, LookUp(c) PROVE IInv'
<1> DEFINE a == cache[call[c].source]
           pc == IF a = NoText THEN "llm" ELSE Leaves(c)
           r == [call[c] EXCEPT !.answer = a, !.pc = pc]
<1>0. Types /\ CallOK(c) /\ call[c] \in Call BY OfCall
<1>1. call' = [call EXCEPT ![c] = r] BY DEF LookUp, GetCachedAgentResponse
<1>2. call[c].source \in Sources BY <1>0 DEF LookUp, At, CallOK
<1>3. a \in Texts /\ (a # NoText => a.from = call[c].source)
  BY <1>0, <1>2 DEF Types, IInv, Keyed
<1>4. pc \in {"forget", "reply", "llm"} /\ (Locks(c) => pc \in Inside) BY DEF Leaves, Inside
<1> HIDE DEF pc, a
<1>5. /\ r \in Call /\ r.pc = pc /\ r.source = call[c].source /\ r.answer = a
      /\ r.mutex = call[c].mutex
  BY <1>0, <1>3, <1>4 DEF Call, PC
<1> HIDE DEF r
<1> QED BY <1>0, <1>1, <1>2, <1>3, <1>4, <1>5, StepOfCall
        DEF LookUp, CallOK, IInv, Keyed, Types

LEMMA RereadIInv == ASSUME IInv, NEW c \in Calls, Reread(c) PROVE IInv'
<1> DEFINE a == cache[call[c].source]
           r == [call[c] EXCEPT !.pc = "forget", !.generated = TRUE, !.answer = a]
<1>0. Types /\ CallOK(c) /\ call[c] \in Call BY OfCall
<1>1. call' = [call EXCEPT ![c] = r] BY DEF Reread, GetCachedAgentResponse
<1>2. call[c].source \in Sources BY <1>0 DEF Reread, At, CallOK
<1>3. a \in Texts /\ (a # NoText => a.from = call[c].source)
  BY <1>0, <1>2 DEF Types, IInv, Keyed
<1> HIDE DEF a
<1>4. /\ r \in Call /\ r.pc = "forget" /\ r.source = call[c].source /\ r.answer = a
      /\ r.mutex = call[c].mutex
  BY <1>0, <1>3 DEF Call, PC
<1>5. /\ UNCHANGED <<kind, forced, source, holder, old>> /\ lockMap' \in Calls \union {None}
      /\ cache' \in [Sources -> Texts]
      /\ \A h \in Sources : cache'[h] # NoText => cache'[h].from = h
  BY <1>0 DEF Reread, Types, IInv, Keyed
<1>6. Locks(c) => r.pc \in Inside BY <1>4 DEF Inside
<1> HIDE DEF r
<1> QED BY <1>1, <1>3, <1>4, <1>5, <1>6, StepInside

LEMMA SaveIInv == ASSUME IInv, NEW c \in Calls, Save(c) PROVE IInv'
<1> DEFINE a == IF Locks(c) THEN call[c].answer ELSE [by |-> c, from |-> call[c].source]
           pc == IF Locks(c) THEN "reread" ELSE "reply"
           r == [call[c] EXCEPT !.pc = pc, !.answer = a]
<1>0. Types /\ CallOK(c) /\ call[c] \in Call BY OfCall
<1>1. call' = [call EXCEPT ![c] = r] BY DEF Save
<1>2. call[c].source \in Sources BY <1>0 DEF Save, At, CallOK
<1>3. a \in Texts /\ (a # NoText => a.from = call[c].source)
  BY <1>0, <1>2 DEF CallOK, Call, Texts, Text
<1>4. pc \in {"reread", "reply"} /\ (Locks(c) => pc \in Inside) BY DEF Inside
<1> HIDE DEF a, pc
<1>5. /\ r \in Call /\ r.pc = pc /\ r.source = call[c].source /\ r.answer = a
      /\ r.mutex = call[c].mutex
  BY <1>0, <1>3, <1>4 DEF Call, PC
<1>6. /\ UNCHANGED <<kind, forced, source, holder, old>> /\ lockMap' \in Calls \union {None}
      /\ cache' \in [Sources -> Texts]
      /\ \A h \in Sources : cache'[h] # NoText => cache'[h].from = h
  BY <1>0, Saved DEF Save, Types, IInv, Keyed
<1> HIDE DEF r
<1> QED BY <1>1, <1>2, <1>3, <1>4, <1>5, <1>6, StepInside

LEMMA FailsIInv == ASSUME IInv, NEW c \in Calls, Fails(c) PROVE IInv'
<1> DEFINE r == [call[c] EXCEPT !.pc = Leaves(c), !.answer = NoText]
<1>0. Types /\ CallOK(c) /\ call[c] \in Call BY OfCall
<1>1. call' = [call EXCEPT ![c] = r] BY DEF Fails
<1>2. Leaves(c) \in {"forget", "reply"} /\ (Locks(c) => Leaves(c) \in Inside)
  BY DEF Leaves, Inside
<1>3. /\ r \in Call /\ r.pc = Leaves(c) /\ r.source = call[c].source /\ r.answer = NoText
      /\ r.mutex = call[c].mutex
  BY <1>0, <1>2, ConstantTypes DEF Call, PC
<1>4. /\ cache' \in [Sources -> Texts]
      /\ \A h \in Sources : cache'[h] # NoText => cache'[h].from = h
  BY <1>0, Saved DEF Fails, Types, IInv, Keyed
<1>5. UNCHANGED <<kind, forced, source, holder, old>> /\ lockMap' \in Calls \union {None}
  BY <1>0 DEF Fails, Types
<1> HIDE DEF r
<1> QED BY <1>1, <1>2, <1>3, <1>4, <1>5, StepInside

LEMMA ForgetIInv == ASSUME IInv, NEW c \in Calls, Forget(c) PROVE IInv'
<1> DEFINE r == [call[c] EXCEPT !.pc = "unlock"]
<1>0. Types /\ CallOK(c) /\ call[c] \in Call BY OfCall
<1>1. call' = [call EXCEPT ![c] = r] BY DEF Forget, Goto
<1>2. /\ r \in Call /\ r.pc = "unlock" /\ r.source = call[c].source
      /\ r.answer = call[c].answer /\ r.mutex = call[c].mutex
  BY <1>0 DEF Call, PC
<1>3. /\ UNCHANGED <<kind, forced, source, holder, old>> /\ lockMap' \in Calls \union {None}
      /\ cache' \in [Sources -> Texts]
      /\ \A h \in Sources : cache'[h] # NoText => cache'[h].from = h
  BY <1>0 DEF Forget, Types, IInv, Keyed
<1>4. Locks(c) => r.pc \in Inside BY <1>2 DEF Inside
<1>5. r.answer # NoText => r.answer.from = r.source BY <1>0, <1>2 DEF CallOK
<1> HIDE DEF r
<1> QED BY <1>1, <1>2, <1>3, <1>4, <1>5, StepInside

LEMMA EndsIInv ==
  ASSUME IInv, NEW c \in Calls, Unlock(c) \/ Reply(c)
  PROVE  IInv'
<1> DEFINE r == [Idle EXCEPT !.pc = "done"]
<1>0. Types /\ CallOK(c) /\ call[c] \in Call BY OfCall
<1>1. call' = [call EXCEPT ![c] = r] BY DEF Unlock, Reply, Ends
<1>2. r \in Call /\ r.pc = "done" /\ r.answer = NoText
  BY ConstantTypes DEF Idle, Call, PC
<1>3. old' \in [Calls -> SUBSET (Calls \union {None})] BY <1>0 DEF Unlock, Reply, Types
<1>4. /\ holder' \in [Calls -> Calls \union {None}]
      /\ \A m \in Calls : holder'[m] \in {holder[m], None} /\ holder'[m] # c
  BY <1>0, ConstantTypes DEF Unlock, Reply, Released, At, CallOK, Types, Inside
<1>5. /\ UNCHANGED <<kind, forced, source, cache, lockMap>>
      /\ \A m \in Calls : holder'[m] \in {holder[m], c, None} /\ holder'[m] # c
  BY <1>4 DEF Unlock, Reply
<1>6. /\ lockMap' \in Calls \union {None} /\ source' \in Sources \union {NoSource}
      /\ cache' \in [Sources -> Texts]
      /\ \A h \in Sources : cache'[h] # NoText => cache'[h].from = h
  BY <1>0, <1>5 DEF Types, IInv, Keyed
<1>7. /\ r.pc \notin {"idle", "acquire", "read", "lookup", "llm", "reread"}
      /\ r.answer = NoText
  BY <1>2
<1> HIDE DEF r
<1> QED BY <1>1, <1>2, <1>3, <1>4, <1>5, <1>6, <1>7, StepOfCall

LEMMA NextIInv == IInv /\ [Next]_vars => IInv'
<1> SUFFICES ASSUME IInv, [Next]_vars PROVE IInv' OBVIOUS
<1>1. CASE UNCHANGED vars
  BY <1>1 DEF vars, IInv, Typed, Types, HasSource, Held, Waiting, Keyed,
              AnswersMatchTheSource, Locks
<1>2. CASE SourceChanges
  BY <1>2 DEF SourceChanges, IInv, Typed, Types, HasSource, Held, Waiting, Keyed,
              AnswersMatchTheSource, Locks
<1>3. ASSUME NEW c \in Calls, GenerateSummary(c) PROVE IInv'
  <2>1. LoadOrStore(c) \in Calls BY DEF LoadOrStore, IInv, Typed, Types
  <2> QED BY <1>3, <2>1, BeginIInv DEF GenerateSummary
<1>4. ASSUME NEW c \in Calls, DailyAtDate(c) PROVE IInv'
  <2>1. lockMap \in Calls \union {None} BY DEF IInv, Typed, Types
  <2> QED BY <1>4, <2>1, BeginIInv DEF DailyAtDate
<1> QED
  BY <1>1, <1>2, <1>3, <1>4, AcquireIInv, ReadIInv, LookUpIInv, SaveIInv, RereadIInv,
     FailsIInv, ForgetIInv, EndsIInv DEF Next, Step

(* The types of the calls, their rows and their locks: TypeOK.             *)
THEOREM TypeCorrect == Spec => []TypeOK
<1>1. IInv => TypeOK
  BY DEF IInv, Typed, Types, Held, TypeOK, At, Inside
<1> QED BY InitIInv, NextIInv, <1>1, PTL DEF Spec

(* Whatever changes meanwhile, a call answers with a text made from the    *)
(* source that it read: AnswersMatchTheSource.                             *)
THEOREM AnswersMatch == Spec => []AnswersMatchTheSource
<1>1. IInv => AnswersMatchTheSource BY DEF IInv, Keyed
<1> QED BY InitIInv, NextIInv, <1>1, PTL DEF Spec

-----------------------------------------------------------------------------
(* Which texts a call may show.  Past: the call has written its text, if it *)
(* ever does.  The texts in the cache, and those that were there when a    *)
(* call began, are of past calls; the row that a call reads back is its    *)
(* own, or of a call that wrote after it began.                            *)
PastPC == {"reread", "forget", "unlock", "reply", "done"}
Past(d) == call[d].pc \in PastPC

CachedArePast == \A h \in Sources : cache[h] # NoText => Past(cache[h].by)
OldArePast == \A c \in Calls : \A d \in old[c] : d # None => Past(d)
RowIsNew == \A c \in Calls : call[c].pc = "reread" =>
  cache[call[c].source] # NoText /\ cache[call[c].source].by \notin old[c]
AnswerIsNew == \A c \in Calls :
  call[c].answer # NoText /\ (c \in forced \/ call[c].generated) =>
    call[c].answer.by \notin old[c]
WhoLooks == \A c \in Calls :
  /\ call[c].generated => call[c].pc \in {"forget", "unlock"}
  /\ call[c].pc = "lookup" => c \notin forced

Fresh == CachedArePast /\ OldArePast /\ RowIsNew /\ AnswerIsNew /\ WhoLooks
FInv == IInv /\ Fresh

LEMMA InitFresh == Init => Fresh
BY ConstantTypes DEF Init, Fresh, CachedArePast, OldArePast, RowIsNew, AnswerIsNew,
   WhoLooks, Idle

(* A step of one call: what it writes is its own, and it has not been old. *)
LEMMA FreshStep ==
  ASSUME FInv, IInv', NEW c \in Calls, NEW r \in Call, call' = [call EXCEPT ![c] = r],
         call[c].pc \in PastPC => r.pc \in PastPC,
         \A h \in Sources : \/ cache'[h] = cache[h]
                            \/ /\ cache'[h] \in Text /\ cache'[h].by = c
                               /\ call[c].pc = "llm" /\ r.pc \in PastPC,
         \A d \in Calls : \/ old'[d] = old[d]
                          \/ d = c /\ \A e \in old'[c] : e # None => Past(e),
         r.pc = "reread" => cache'[r.source] # NoText /\ cache'[r.source].by \notin old'[c],
         r.answer # NoText /\ (c \in forced \/ r.generated) => r.answer.by \notin old'[c],
         r.generated => r.pc \in {"forget", "unlock"},
         r.pc = "lookup" => c \notin forced,
         UNCHANGED forced
  PROVE  Fresh'
<1>1. Types /\ Types' BY DEF FInv, IInv, Typed
<1>2. call'[c] = r /\ \A d \in Calls \ {c} : call'[d] = call[d] BY <1>1, OneCall
<1>3. \A d \in Calls : Past(d) => Past(d)' BY <1>2 DEF Past
<1>4. CachedArePast'
  <2> SUFFICES ASSUME NEW h \in Sources, cache'[h] # NoText
               PROVE  call'[cache'[h].by].pc \in PastPC
    BY DEF CachedArePast, Past
  <2>1. CASE cache'[h] = cache[h]
    <3>1. cache[h].by \in Calls BY <1>1, <2>1 DEF Types, Texts, Text
    <3>2. Past(cache[h].by) BY <2>1 DEF FInv, Fresh, CachedArePast
    <3>3. call'[cache[h].by].pc \in PastPC BY <1>3, <3>1, <3>2 DEF Past
    <3> QED BY <2>1, <3>3
  <2>2. CASE cache'[h].by = c /\ r.pc \in PastPC BY <1>2, <2>2
  <2> QED BY <2>1, <2>2
<1>5. OldArePast'
  <2> SUFFICES ASSUME NEW b \in Calls, NEW d \in old'[b], d # None PROVE Past(d)'
    BY DEF OldArePast, Past
  <2>1. d \in Calls BY <1>1 DEF Types
  <2>2. Past(d) BY DEF FInv, Fresh, OldArePast
  <2> QED BY <1>3, <2>1, <2>2
<1>6. RowIsNew'
  <2> SUFFICES ASSUME NEW d \in Calls, call'[d].pc = "reread"
               PROVE  /\ cache'[call'[d].source] # NoText
                      /\ cache'[call'[d].source].by \notin old'[d]
    BY DEF RowIsNew
  <2>1. CASE d = c BY <1>2, <2>1
  <2>2. CASE d # c
    <3>1. call[d].pc = "reread" /\ call'[d] = call[d] /\ old'[d] = old[d] BY <1>2, <2>2
    <3>2. call[d].source \in Sources BY <3>1 DEF FInv, IInv, Typed, HasSource
    <3>3. cache[call[d].source] # NoText /\ cache[call[d].source].by \notin old[d]
      BY <3>1 DEF FInv, Fresh, RowIsNew
    <3>4. call[c].pc = "llm" => c \notin old[d]
      BY ConstantTypes DEF FInv, Fresh, OldArePast, Past, PastPC
    <3> QED BY <3>1, <3>2, <3>3, <3>4, ConstantTypes
  <2> QED BY <2>1, <2>2
<1>7. AnswerIsNew'
  <2> SUFFICES ASSUME NEW d \in Calls, call'[d].answer # NoText,
                      d \in forced \/ call'[d].generated
               PROVE  call'[d].answer.by \notin old'[d]
    BY DEF AnswerIsNew
  <2>1. CASE d = c BY <1>2, <2>1
  <2>2. CASE d # c BY <1>2, <2>2 DEF FInv, Fresh, AnswerIsNew
  <2> QED BY <2>1, <2>2
<1>8. WhoLooks' BY <1>2 DEF FInv, Fresh, WhoLooks
<1> QED BY <1>4, <1>5, <1>6, <1>7, <1>8 DEF Fresh

(* The actions.                                                            *)
LEMMA BeginFresh ==
  ASSUME FInv, IInv', NEW c \in Calls, NEW pc \in {"acquire", "read"},
         NEW mutex \in Calls \union {None}, Begin(c, pc, mutex), UNCHANGED <<cache, forced>>
  PROVE  Fresh'
<1> DEFINE r == [call[c] EXCEPT !.pc = pc, !.mutex = mutex]
<1>0. Types /\ CallOK(c) /\ call[c] \in Call BY OfCall DEF FInv
<1>1. call' = [call EXCEPT ![c] = r] BY DEF Begin
<1>2. /\ r \in Call /\ r.pc = pc /\ r.answer = NoText
      /\ r.generated = call[c].generated
  BY <1>0 DEF Call, PC, Begin, At, CallOK
<1>3. ~call[c].generated BY DEF FInv, Fresh, WhoLooks, Begin, At
<1>4. \A e \in old'[c] : e # None => Past(e)
  <2>1. old'[c] \subseteq {cache[h].by : h \in Sources} BY <1>0 DEF Begin, Types
  <2> QED BY <2>1 DEF FInv, Fresh, CachedArePast, NoText
<1>5. \A d \in Calls \ {c} : old'[d] = old[d] BY <1>0 DEF Begin, Types
<1>6. call[c].pc \notin PastPC BY DEF Begin, At, PastPC
<1> HIDE DEF r
<1> QED BY <1>1, <1>2, <1>3, <1>4, <1>5, <1>6, FreshStep

LEMMA SaveFresh == ASSUME FInv, IInv', NEW c \in Calls, Save(c) PROVE Fresh'
<1> DEFINE t == [by |-> c, from |-> call[c].source]
           a == IF Locks(c) THEN call[c].answer ELSE t
           pc == IF Locks(c) THEN "reread" ELSE "reply"
           r == [call[c] EXCEPT !.pc = pc, !.answer = a]
<1>0. Types /\ CallOK(c) /\ call[c] \in Call BY OfCall DEF FInv
<1>1. call' = [call EXCEPT ![c] = r] BY DEF Save
<1>2. call[c].source \in Sources /\ call[c].pc = "llm" BY <1>0 DEF Save, At, CallOK
<1>3. t \in Text /\ t.by = c /\ a \in Texts BY <1>0, <1>2 DEF Text, Texts, Call
<1>4. cache'[call[c].source] = t /\ \A h \in Sources : cache'[h] \in {cache[h], t}
  BY <1>0, <1>2 DEF Save, SaveAgentResponse, Types
<1>5. c \notin old[c] BY <1>2, ConstantTypes DEF FInv, Fresh, OldArePast, Past, PastPC
<1>6. old' = old /\ forced' = forced BY DEF Save
<1>7. pc \in {"reread", "reply"} OBVIOUS
<1>8. ~call[c].generated /\ (a # NoText /\ c \in forced => a.by \notin old[c])
  BY <1>2, <1>3, <1>5 DEF FInv, Fresh, WhoLooks, AnswerIsNew
<1> HIDE DEF t, a, pc
<1>9. /\ r \in Call /\ r.pc = pc /\ r.source = call[c].source /\ r.answer = a
      /\ r.generated = call[c].generated
  BY <1>0, <1>3, <1>7 DEF Call, PC
<1>10. r.pc \in PastPC /\ r.pc # "lookup" BY <1>7, <1>9 DEF PastPC
<1>11. r.pc = "reread" => cache'[r.source] # NoText /\ cache'[r.source].by \notin old'[c]
  BY <1>3, <1>4, <1>5, <1>6, <1>9, ConstantTypes
<1> HIDE DEF r
<1> QED BY <1>1, <1>2, <1>3, <1>4, <1>6, <1>8, <1>9, <1>10, <1>11, FreshStep

LEMMA FailsFresh == ASSUME FInv, IInv', NEW c \in Calls, Fails(c) PROVE Fresh'
<1> DEFINE t == [by |-> c, from |-> call[c].source]
           r == [call[c] EXCEPT !.pc = Leaves(c), !.answer = NoText]
<1>0. Types /\ CallOK(c) /\ call[c] \in Call BY OfCall DEF FInv
<1>1. call' = [call EXCEPT ![c] = r] BY DEF Fails
<1>2. Leaves(c) \in {"forget", "reply"} BY DEF Leaves
<1>3. /\ r \in Call /\ r.pc = Leaves(c) /\ r.answer = NoText
      /\ r.generated = call[c].generated
  BY <1>0, <1>2, ConstantTypes DEF Call, PC
<1>4. ~call[c].generated BY DEF FInv, Fresh, WhoLooks, Fails
<1>5. \A h \in Sources : \/ cache'[h] = cache[h]
                         \/ cache'[h] \in Text /\ cache'[h].by = c /\ call[c].pc = "llm"
  <2>1. CASE UNCHANGED cache BY <2>1
  <2>2. CASE At(c, "llm") /\ SaveAgentResponse(c)
    <3>1. t \in Text /\ t.by = c BY <1>0, <2>2 DEF At, CallOK, Text
    <3>2. \A h \in Sources : cache'[h] \in {cache[h], t}
      BY <1>0, <2>2 DEF SaveAgentResponse, Types
    <3> HIDE DEF t
    <3> QED BY <2>2, <3>1, <3>2 DEF At
  <2> QED BY <2>1, <2>2 DEF Fails
<1>6. r.pc \in PastPC /\ r.pc \notin {"lookup", "reread"} BY <1>2, <1>3 DEF PastPC
<1>7. old' = old /\ forced' = forced BY DEF Fails
<1> HIDE DEF r
<1> QED BY <1>1, <1>3, <1>4, <1>5, <1>6, <1>7, FreshStep

LEMMA RereadFresh == ASSUME FInv, IInv', NEW c \in Calls, Reread(c) PROVE Fresh'
<1> DEFINE a == cache[call[c].source]
           r == [call[c] EXCEPT !.pc = "forget", !.generated = TRUE, !.answer = a]
<1>0. Types /\ CallOK(c) /\ call[c] \in Call BY OfCall DEF FInv
<1>1. call' = [call EXCEPT ![c] = r] BY DEF Reread, GetCachedAgentResponse
<1>2. call[c].source \in Sources BY <1>0 DEF Reread, At, CallOK
<1>3. a \in Texts /\ a.by \notin old[c]
  BY <1>0, <1>2 DEF Types, FInv, Fresh, RowIsNew, Reread, At
<1> HIDE DEF a
<1>4. r \in Call /\ r.pc = "forget" /\ r.answer = a BY <1>0, <1>3 DEF Call, PC
<1>5. r.pc \in PastPC BY <1>4 DEF PastPC
<1>6. UNCHANGED <<cache, old, forced>> BY DEF Reread
<1> HIDE DEF r
<1> QED BY <1>1, <1>3, <1>4, <1>5, <1>6, FreshStep

(* The steps that leave the cache, or read it for a call that may be shown *)
(* what is old.                                                            *)
LEMMA LookUpFresh == ASSUME FInv, IInv', NEW c \in Calls, LookUp(c) PROVE Fresh'
<1> DEFINE a == cache[call[c].source]
           pc == IF a = NoText THEN "llm" ELSE Leaves(c)
           r == [call[c] EXCEPT !.answer = a, !.pc = pc]
<1>0. Types /\ CallOK(c) /\ call[c] \in Call BY OfCall DEF FInv
<1>1. call' = [call EXCEPT ![c] = r] BY DEF LookUp, GetCachedAgentResponse
<1>2. a \in Texts BY <1>0 DEF LookUp, At, CallOK, Types
<1>3. pc \in {"forget", "reply", "llm"} BY DEF Leaves
<1>4. c \notin forced /\ ~call[c].generated BY DEF FInv, Fresh, WhoLooks, LookUp, At
<1>5. call[c].pc \notin PastPC BY DEF LookUp, At, PastPC
<1> HIDE DEF a, pc
<1>6. r \in Call /\ r.pc = pc /\ r.generated = call[c].generated
  BY <1>0, <1>2, <1>3 DEF Call, PC
<1>7. UNCHANGED <<cache, old, forced>> BY DEF LookUp
<1>8. r.pc \notin {"reread", "lookup"} /\ ~r.generated BY <1>3, <1>4, <1>6
<1> HIDE DEF r
<1> QED BY <1>1, <1>4, <1>5, <1>6, <1>7, <1>8, FreshStep

LEMMA ReadFresh == ASSUME FInv, IInv', NEW c \in Calls, ReadSource(c) PROVE Fresh'
<1> DEFINE pc == IF source = NoSource THEN Leaves(c)
                 ELSE IF c \in forced THEN "llm" ELSE "lookup"
           r == [call[c] EXCEPT !.source = source, !.pc = pc]
<1>0. Types /\ CallOK(c) /\ call[c] \in Call BY OfCall DEF FInv
<1>1. summarySource = source BY DEF summarySource, RecentDailySource, RecentSummarySource
<1>2. call' = [call EXCEPT ![c] = r] BY <1>1 DEF ReadSource
<1>3. /\ pc \in {"forget", "reply", "llm", "lookup"} /\ (pc = "lookup" => c \notin forced)
  BY DEF Leaves
<1>4. ~call[c].generated BY DEF FInv, Fresh, WhoLooks, ReadSource, At
<1>5. call[c].pc \notin PastPC BY DEF ReadSource, At, PastPC
<1> HIDE DEF pc
<1>6. /\ r \in Call /\ r.pc = pc /\ r.answer = NoText
      /\ r.generated = call[c].generated
  BY <1>0, <1>3 DEF ReadSource, At, CallOK, Call, PC, Types
<1>7. UNCHANGED <<cache, old, forced>> BY DEF ReadSource
<1>8. r.pc # "reread" /\ ~r.generated BY <1>3, <1>4, <1>6
<1> HIDE DEF r
<1> QED BY <1>2, <1>3, <1>5, <1>6, <1>7, <1>8, FreshStep

LEMMA AcquireFresh == ASSUME FInv, IInv', NEW c \in Calls, Acquire(c) PROVE Fresh'
<1> DEFINE r == [call[c] EXCEPT !.pc = "read"]
<1>0. Types /\ CallOK(c) /\ call[c] \in Call BY OfCall DEF FInv
<1>1. call' = [call EXCEPT ![c] = r] BY DEF Acquire, Goto
<1>2. /\ r \in Call /\ r.pc = "read" /\ r.answer = NoText
      /\ r.generated = call[c].generated
  BY <1>0 DEF Acquire, At, CallOK, Call, PC
<1>3. ~call[c].generated BY DEF FInv, Fresh, WhoLooks, Acquire, At
<1>4. UNCHANGED <<cache, old, forced>> /\ call[c].pc \notin PastPC
  BY DEF Acquire, At, PastPC
<1> HIDE DEF r
<1> QED BY <1>1, <1>2, <1>3, <1>4, FreshStep

LEMMA ForgetFresh == ASSUME FInv, IInv', NEW c \in Calls, Forget(c) PROVE Fresh'
<1> DEFINE r == [call[c] EXCEPT !.pc = "unlock"]
<1>0. Types /\ CallOK(c) /\ call[c] \in Call BY OfCall DEF FInv
<1>1. call' = [call EXCEPT ![c] = r] BY DEF Forget, Goto
<1>2. /\ r \in Call /\ r.pc = "unlock" /\ r.answer = call[c].answer
      /\ r.generated = call[c].generated
  BY <1>0 DEF Call, PC
<1>3. UNCHANGED <<cache, old, forced>> BY DEF Forget
<1>4. r.pc \in PastPC BY <1>2 DEF PastPC
<1>5. r.answer # NoText /\ (c \in forced \/ r.generated) => r.answer.by \notin old'[c]
  BY <1>2, <1>3 DEF FInv, Fresh, AnswerIsNew
<1> HIDE DEF r
<1> QED BY <1>1, <1>2, <1>3, <1>4, <1>5, FreshStep

LEMMA EndsFresh ==
  ASSUME FInv, IInv', NEW c \in Calls, Unlock(c) \/ Reply(c)
  PROVE  Fresh'
<1> DEFINE r == [Idle EXCEPT !.pc = "done"]
<1>0. Types /\ call[c] \in Call BY OfCall DEF FInv
<1>1. call' = [call EXCEPT ![c] = r] BY DEF Unlock, Reply, Ends
<1>2. r \in Call /\ r.pc = "done" /\ r.answer = NoText /\ ~r.generated
  BY ConstantTypes DEF Idle, Call, PC
<1>3. /\ UNCHANGED <<cache, forced>>
      /\ \A d \in Calls : old'[d] = old[d] \/ (d = c /\ old'[c] = {})
  BY <1>0 DEF Unlock, Reply, Types
<1>4. r.pc \in PastPC BY <1>2 DEF PastPC
<1> HIDE DEF r
<1> QED BY <1>1, <1>2, <1>3, <1>4, FreshStep

LEMMA NextFresh == FInv /\ [Next]_vars => FInv'
<1> SUFFICES ASSUME FInv, [Next]_vars PROVE Fresh' BY NextIInv DEF FInv
<1>1. IInv' BY NextIInv DEF FInv
<1>2. CASE UNCHANGED <<forced, cache, call, old>>
  BY <1>2 DEF FInv, Fresh, CachedArePast, OldArePast, RowIsNew, AnswerIsNew, WhoLooks, Past
<1>3. ASSUME NEW c \in Calls, GenerateSummary(c) PROVE Fresh'
  <2>1. LoadOrStore(c) \in Calls BY DEF LoadOrStore, FInv, IInv, Typed, Types
  <2> QED BY <1>1, <1>3, <2>1, BeginFresh DEF GenerateSummary
<1>4. ASSUME NEW c \in Calls, DailyAtDate(c) PROVE Fresh'
  BY <1>1, <1>4, BeginFresh DEF DailyAtDate
<1>5. CASE SourceChanges \/ UNCHANGED vars BY <1>2, <1>5 DEF SourceChanges, vars
<1> QED
  BY <1>1, <1>3, <1>4, <1>5, AcquireFresh, ReadFresh, LookUpFresh, SaveFresh, RereadFresh,
     FailsFresh, ForgetFresh, EndsFresh DEF Next, Step

(* --refresh, force and the weekly scheduler never show a text that was in *)
(* the cache before, whoever wrote the row in between:                     *)
(* NothingOldIsRefreshed.                                                  *)
THEOREM RefreshIsNew == Spec => []NothingOldIsRefreshed
<1>1. FInv => NothingOldIsRefreshed
  BY DEF FInv, Fresh, AnswerIsNew, NothingOldIsRefreshed, Shown
<1>2. Init => FInv BY InitIInv, InitFresh DEF FInv
<1> QED BY <1>1, <1>2, NextFresh, PTL DEF Spec
-----------------------------------------------------------------------------
(* The period's lock.  Whoever is inside holds its mutex; whoever has not  *)
(* left has the mutex of the map, unless another call has deleted that and *)
(* is on its way out, or gone.                                             *)
Entered == \A c \in Calls : call[c].pc \in {"reread", "forget", "unlock"} => Locks(c)
Owns == \A c \in Calls : Locks(c) =>
  /\ call[c].pc \in Inside \union {"acquire"} => call[c].mutex \in Calls
  /\ call[c].pc \in Inside => holder[call[c].mutex] = c
Left(e) == Locks(e) /\ call[e].pc \in {"unlock", "done"}
InMap == \A c \in Calls :
  Locks(c) /\ call[c].pc \in {"acquire", "read", "lookup", "llm", "reread", "forget"} =>
    lockMap = call[c].mutex \/ \E e \in Calls \ {c} : Left(e)

Locked == Entered /\ Owns /\ InMap
LInv == IInv /\ Locked

LEMMA InitLocked == Init => Locked
BY DEF Init, Locked, Entered, Owns, InMap, Idle, Inside

(* A step within the section, or out of it.                                *)
LEMMA InsideLocked ==
  ASSUME LInv, NEW c \in Calls, NEW pc \in PC,
         \A d \in Calls \ {c} : call'[d] = call[d],
         call'[c].pc = pc, call'[c].mutex = call[c].mutex,
         call[c].pc \in {"read", "lookup", "llm", "reread"},
         pc \in {"read", "lookup", "llm", "reread", "forget", "reply"},
         pc \in {"reread", "forget"} => Locks(c),
         UNCHANGED <<kind, forced, lockMap, holder>>
  PROVE  Locked'
<1>1. Entered' BY DEF LInv, Locked, Entered, Locks
<1>2. Owns' BY DEF LInv, Locked, Owns, Locks, Inside
<1>3. ASSUME NEW e \in Calls, Left(e) PROVE Left(e)' /\ e # c BY <1>3 DEF Left, Locks
<1>4. InMap' BY <1>3 DEF LInv, Locked, InMap, Locks
<1> QED BY <1>1, <1>2, <1>4 DEF Locked

LEMMA GenerateLocked == ASSUME LInv, NEW c \in Calls, GenerateSummary(c) PROVE Locked'
<1>1. Types BY DEF LInv, IInv, Typed
<1>2. /\ call[c].pc = "idle" /\ call'[c].pc = "acquire" /\ call'[c].mutex = lockMap'
      /\ \A d \in Calls \ {c} : call'[d] = call[d]
      /\ UNCHANGED <<kind, forced, holder>> /\ (lockMap = None \/ lockMap' = lockMap)
      /\ lockMap' \in Calls
  BY <1>1 DEF GenerateSummary, Begin, At, LoadOrStore, Types
<1>3. Entered' /\ Owns' BY <1>2 DEF LInv, Locked, Entered, Owns, Locks, Inside
<1>4. ASSUME NEW e \in Calls, Left(e) PROVE Left(e)' /\ e # c
  BY <1>2, <1>4 DEF Left, Locks
<1>5. ASSUME NEW d \in Calls \ {c}, Locks(d),
             call[d].pc \in {"acquire", "read", "lookup", "llm", "reread", "forget"}
      PROVE  lockMap' = call[d].mutex \/ \E e \in Calls \ {d} : Left(e)
  <2>1. call[d].mutex # None BY <1>5, ConstantTypes DEF LInv, Locked, Owns, Inside
  <2> QED BY <1>2, <1>5, <2>1 DEF LInv, Locked, InMap
<1>6. InMap' BY <1>2, <1>4, <1>5 DEF InMap, Locks
<1> QED BY <1>3, <1>6 DEF Locked

LEMMA AcquireLocked == ASSUME LInv, NEW c \in Calls, Acquire(c) PROVE Locked'
<1>1. Types BY DEF LInv, IInv, Typed
<1>2. /\ call[c].pc = "acquire" /\ call'[c].pc = "read" /\ call'[c].mutex = call[c].mutex
      /\ \A d \in Calls \ {c} : call'[d] = call[d]
      /\ holder[call[c].mutex] = None
      /\ holder' = [holder EXCEPT ![call[c].mutex] = c]
      /\ UNCHANGED <<kind, forced, lockMap>>
  BY <1>1 DEF Acquire, Goto, At, Types, Call
<1>3. Entered' BY <1>2 DEF LInv, Locked, Entered, Locks
<1>4. Owns'
  BY <1>1, <1>2, ConstantTypes DEF LInv, Locked, Owns, Locks, Inside, Types
<1>5. ASSUME NEW e \in Calls, Left(e) PROVE Left(e)' /\ e # c
  BY <1>2, <1>5 DEF Left, Locks
<1>6. InMap' BY <1>2, <1>5 DEF LInv, Locked, InMap, Locks
<1> QED BY <1>3, <1>4, <1>6 DEF Locked

(* The map's mutex is deleted before it is unlocked: the call that does so *)
(* has left, for all the others.                                           *)
LEMMA ForgetLocked == ASSUME LInv, NEW c \in Calls, Forget(c) PROVE Locked'
<1>1. Types BY DEF LInv, IInv, Typed
<1>2. /\ call[c].pc = "forget" /\ call'[c].pc = "unlock" /\ call'[c].mutex = call[c].mutex
      /\ \A d \in Calls \ {c} : call'[d] = call[d]
      /\ UNCHANGED <<kind, forced, holder>>
  BY <1>1 DEF Forget, Goto, At, Types, Call
<1>3. Locks(c) BY <1>2 DEF LInv, Locked, Entered
<1>4. Entered' /\ Owns' BY <1>2, <1>3 DEF LInv, Locked, Entered, Owns, Locks, Inside
<1>5. Left(c)' BY <1>2, <1>3 DEF Left, Locks
<1>6. InMap' BY <1>2, <1>5 DEF InMap
<1> QED BY <1>4, <1>6 DEF Locked

LEMMA UnlockLocked == ASSUME LInv, NEW c \in Calls, Unlock(c) PROVE Locked'
<1>1. Types BY DEF LInv, IInv, Typed
<1>2. /\ call[c].pc = "unlock" /\ call'[c].pc = "done"
      /\ \A d \in Calls \ {c} : call'[d] = call[d]
      /\ holder' = [holder EXCEPT ![call[c].mutex] = None]
      /\ UNCHANGED <<kind, forced, lockMap>>
  BY <1>1 DEF Unlock, Ends, Idle, Released, At, Types
<1>3. Locks(c) /\ call[c].mutex \in Calls /\ holder[call[c].mutex] = c
  BY <1>2 DEF LInv, Locked, Entered, Owns, Inside
<1>4. Entered' BY <1>2 DEF LInv, Locked, Entered, Locks
<1>5. Owns' BY <1>1, <1>2, <1>3 DEF LInv, Locked, Owns, Locks, Inside, Types
<1>6. ASSUME NEW e \in Calls, Left(e) PROVE Left(e)' BY <1>2, <1>6 DEF Left, Locks
<1>7. InMap' BY <1>2, <1>6 DEF LInv, Locked, InMap, Locks
<1> QED BY <1>4, <1>5, <1>7 DEF Locked

(* A call that takes no lock.                                              *)
LEMMA UnlockedLocked ==
  ASSUME LInv, NEW c \in Calls, DailyAtDate(c) \/ Reply(c)
  PROVE  Locked'
<1>1. Types BY DEF LInv, IInv, Typed
<1>2. /\ call'[c].pc \in {"read", "done"} /\ call[c].pc \in {"idle", "reply"}
      /\ call[c].pc = "idle" => ~Locks(c)
      /\ call[c].pc = "reply" => call'[c].pc = "done"
      /\ \A d \in Calls \ {c} : call'[d] = call[d]
      /\ UNCHANGED <<kind, forced, lockMap, holder>>
  <2>1. CASE DailyAtDate(c) BY <1>1, <2>1 DEF DailyAtDate, Begin, At, Types
  <2>2. CASE Reply(c) BY <1>1, <2>2 DEF Reply, Ends, Idle, At, Types
  <2> QED BY <2>1, <2>2
<1>3. Entered' /\ Owns' BY <1>2 DEF LInv, Locked, Entered, Owns, Locks, Inside
<1>4. ASSUME NEW e \in Calls, Left(e) PROVE Left(e)' /\ e # c
  BY <1>2, <1>4 DEF Left, Locks
<1>5. InMap' BY <1>2, <1>4 DEF LInv, Locked, InMap, Locks
<1> QED BY <1>3, <1>5 DEF Locked

LEMMA NextLocked == LInv /\ [Next]_vars => LInv'
<1> SUFFICES ASSUME LInv, [Next]_vars PROVE Locked' BY NextIInv DEF LInv
<1>1. Types BY DEF LInv, IInv, Typed
<1>2. CASE SourceChanges \/ UNCHANGED vars
  BY <1>2 DEF SourceChanges, vars, LInv, Locked, Entered, Owns, InMap, Left, Locks
<1>3. ASSUME NEW c \in Calls,
             ReadSource(c) \/ LookUp(c) \/ Save(c) \/ Reread(c) \/ Fails(c)
      PROVE  Locked'
  <2>1. /\ \A d \in Calls \ {c} : call'[d] = call[d]
        /\ call'[c].mutex = call[c].mutex
        /\ call[c].pc \in {"read", "lookup", "llm", "reread"}
        /\ call'[c].pc \in {"read", "lookup", "llm", "reread", "forget", "reply"}
        /\ UNCHANGED <<kind, forced, lockMap, holder>>
    BY <1>1, <1>3 DEF ReadSource, LookUp, Save, Reread, Fails, At, Leaves, Types, Call
  <2>2. call'[c].pc \in {"reread", "forget"} => Locks(c)
    BY <1>1, <1>3 DEF ReadSource, LookUp, Save, Reread, Fails, At, Leaves, Types, Call,
       LInv, Locked, Entered
  <2> QED BY <2>1, <2>2, InsideLocked DEF PC
<1> QED
  BY <1>2, <1>3, GenerateLocked, AcquireLocked, ForgetLocked, UnlockLocked,
     UnlockedLocked DEF Next, Step

LEMMA AtMostOne ==
  ASSUME NEW S, \A x, y \in S : x = y
  PROVE  Cardinality(S) <= 1
<1>1. CASE S = {} BY <1>1, FS_EmptySet
<1>2. ASSUME NEW x \in S PROVE Cardinality(S) <= 1
  <2>1. S = {x} BY <1>2
  <2> QED BY <2>1, FS_Singleton
<1> QED BY <1>1, <1>2

LEMMA ThreeElements ==
  ASSUME NEW S, IsFiniteSet(S), NEW x \in S, NEW y \in S, NEW z \in S,
         x # y, x # z, y # z
  PROVE  Cardinality(S) >= 3
<1>1. IsFiniteSet({x}) /\ Cardinality({x}) = 1 BY FS_Singleton
<1>2. IsFiniteSet({x, y}) /\ Cardinality({x, y}) = 2
  <2> DEFINE T == {x}
  <2>1. T \cup {y} = {x, y} /\ y \notin T OBVIOUS
  <2>2. IsFiniteSet(T) /\ Cardinality(T) = 1 BY <1>1
  <2> HIDE DEF T
  <2>3. IsFiniteSet(T \cup {y}) /\ Cardinality(T \cup {y}) = Cardinality(T) + 1
    BY <2>1, <2>2, FS_AddElement
  <2> QED BY <2>1, <2>2, <2>3
<1>3. IsFiniteSet({x, y, z}) /\ Cardinality({x, y, z}) = 3
  <2> DEFINE T == {x, y}
  <2>1. T \cup {z} = {x, y, z} /\ z \notin T OBVIOUS
  <2>2. IsFiniteSet(T) /\ Cardinality(T) = 2 BY <1>2
  <2> HIDE DEF T
  <2>3. IsFiniteSet(T \cup {z}) /\ Cardinality(T \cup {z}) = Cardinality(T) + 1
    BY <2>1, <2>2, FS_AddElement
  <2> QED BY <2>1, <2>2, <2>3
<1>4. Cardinality({x, y, z}) <= Cardinality(S) BY FS_Subset
<1> QED BY <1>3, <1>4, FS_CardinalityType

(* Two calls alone never generate at the same time: for that a third one   *)
(* must have deleted the mutex of the map under one of them.               *)
THEOREM TwoCallsExclude == Spec => []PairsExclude
<1>1. LInv => PairsExclude
  <2> DEFINE begun == {c \in Calls : Locks(c) /\ ~At(c, "idle")}
             sections == {c \in Calls : Section(c)}
  <2> SUFFICES ASSUME LInv, Cardinality(begun) <= 2 PROVE Cardinality(sections) <= 1
    BY DEF PairsExclude
  <2>1. IsFiniteSet(Calls) BY SummaryAssumption, FS_Union DEF Calls
  <2>2. IsFiniteSet(begun) BY <2>1, FS_Subset
  <2>3. ASSUME NEW c \in sections, NEW d \in sections, c # d PROVE FALSE
    <3>1. /\ Locks(c) /\ holder[call[c].mutex] = c
          /\ Locks(d) /\ holder[call[d].mutex] = d
          /\ lockMap = call[c].mutex \/ \E e \in Calls \ {c} : Left(e)
          /\ lockMap = call[d].mutex \/ \E e \in Calls \ {d} : Left(e)
      BY DEF Section, LInv, Locked, Owns, InMap, Inside
    <3>2. call[c].mutex # call[d].mutex BY <2>3, <3>1
    <3>3. PICK e \in Calls : Left(e) BY <3>1, <3>2
    <3>4. c \in begun /\ d \in begun /\ e \in begun /\ e # c /\ e # d
      BY <3>3 DEF Section, Left, At
    <3>5. Cardinality(begun) >= 3 BY <2>2, <2>3, <3>4, ThreeElements
    <3> QED BY <2>2, <3>5, FS_CardinalityType
  <2> QED BY <2>3, AtMostOne
<1>2. Init => LInv BY InitIInv, InitLocked DEF LInv
<1> QED BY <1>2, NextLocked, <1>1, PTL DEF Spec
=============================================================================
