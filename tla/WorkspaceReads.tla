--------------------------- MODULE WorkspaceReads ----------------------------
(***************************************************************************)
(* What a client of the HTTP API reads while the database changes:         *)
(*                                                                         *)
(*   - the lists of notes, actions, people, tickets and summaries, page by *)
(*     page after a cursor (internal/adapters/httpapi/httpapi.go, with one *)
(*     statement each in internal/adapters/store/store.go)                 *)
(*   - the notes of the history and of today, one note, one person, one    *)
(*     ticket, put together from several statements, in no transaction     *)
(*     (internal/services/service.go, today.go, people.go,                 *)
(*     tickets_workspace.go)                                               *)
(*                                                                         *)
(* A row is its id and the time that sorts it: notes and actions by their  *)
(* creation, people and tickets by their last mention, summaries by the    *)
(* end of their period.  A filter passes all rows, or those that are       *)
(* marked: processed notes, open actions, people and tickets with an open  *)
(* action, daily summaries.  Ids stand for (kind, id) of a summary and for *)
(* the key of a ticket.  The items of the page of a ticket or of a person  *)
(* are the notes that mention it.                                          *)
(***************************************************************************)
EXTENDS Integers, FiniteSets, Sequences

CONSTANTS
  Items,      \* ids
  Lists,      \* the lists asked for
  Limits,     \* the limits asked for
  MaxWrites,  \* bound: changes of the database
  Day,        \* ticks of a day
  Offset,     \* of the user's zone in ticks, negative west of UTC
  NoCursor

ASSUME ReadsAssumption ==
  /\ Items \subseteq Nat \ {0} /\ IsFiniteSet(Items)
  /\ Lists \subseteq {"notes", "today", "note", "person", "ticket",
                      "actions", "people", "tickets", "summaries"}
  /\ Limits \subseteq Nat
  /\ MaxWrites \in Nat
  /\ Day \in Nat \ {0} /\ Offset \in (1 - Day)..(Day - 1)
  /\ NoCursor \notin [at : Nat, item : Nat, filter : {"all", "marked"}]

VARIABLES
  list,      \* the list that the client reads
  now,       \* writes so far
  at,        \* the time that sorts a row, 0 for none
  marked,    \* rows that the narrower filter passes
  pc,        \* "ready" to ask, "reading", "done"
  filter,    \* of the client
  cursor,    \* next_cursor of the last page
  rows,      \* the first statement's rows
  view,      \* by statement, the notes whose results it could read
  more,      \* has_more
  seen,      \* how often a row was delivered
  still,     \* rows not touched since the first page
  moved,     \* the person was merged into another since the first statement
  mixed      \* a cursor was used with another filter than its own

db == <<now, at, marked>>
client == <<filter, cursor, more, seen, mixed>>
shown == <<rows, view, moved>>
vars == <<list, db, pc, client, shown, still>>

Filters == {"all", "marked"}
Paged == {"notes", "actions", "people", "tickets", "summaries"}
OfNotes == {"notes", "today", "note", "person", "ticket"}
(* The statements of the services, in order: ListNotesHistory and GetToday, *)
(* whose first one also reads the status; GetNoteDetail; of a person and   *)
(* of a ticket.                                                            *)
ListNotesHistory ==
  <<"ListAPINotesHistory", "NoteCounts", "HighlightsForNotes", "EntitiesForNotes">>
GetToday ==
  <<"ListTodayNotes", "NoteCounts", "HighlightsForNotes", "EntitiesForNotes">>
GetNoteDetail ==
  <<"NoteDetail", "ActionsForNote", "HighlightsForNotes", "DecisionsForNote",
    "EntitiesForNotes">>
GetPersonWorkspace ==
  <<"GetPersonWorkspaceProfile", "OpenActionsForPerson", "RecentDecisionsForPerson",
    "RecentNotesForPerson">>
GetTicketWorkspace ==
  <<"GetTicketWorkspaceProfile", "OpenActionsForTicket", "RecentDecisionsForTicket",
    "RecentNotesForTicket", "PeopleForNotes">>
Statements ==
  CASE list = "notes" -> ListNotesHistory
    [] list = "today" -> GetToday
    [] list = "note" -> GetNoteDetail
    [] list = "person" -> GetPersonWorkspace
    [] list = "ticket" -> GetTicketWorkspace
    [] OTHER -> <<"page">>

Times == 0..(Day * (MaxWrites + 2))

TypeOK ==
  /\ list \in Lists
  /\ now \in 0..MaxWrites
  /\ at \in [Items -> Times]
  /\ marked \subseteq Items
  /\ pc \in {"ready", "reading", "done"}
  /\ filter \in Filters
  /\ cursor \in [at : Times, item : Items, filter : Filters] \union {NoCursor}
  /\ rows \subseteq Items
  /\ view \in Seq(SUBSET Items) /\ Len(view) <= Len(Statements)
  /\ more \in BOOLEAN
  /\ seen \in [Items -> Nat]
  /\ still \subseteq Items
  /\ moved \in BOOLEAN
  /\ mixed \in BOOLEAN

Init ==
  /\ list \in Lists
  /\ now = 0
  /\ at = [i \in Items |-> 0]
  /\ marked = {}
  /\ pc = "ready"
  /\ filter \in IF list \in Paged THEN Filters ELSE {"all"}
  /\ cursor = NoCursor
  /\ rows = {}
  /\ view = << >>
  /\ more = FALSE
  /\ seen = [i \in Items |-> 0]
  /\ still = Items
  /\ moved = FALSE
  /\ mixed = FALSE

-----------------------------------------------------------------------------
(* The database.  A row gets the time at which its transaction began, which *)
(* may be before that of a row already there.                              *)
Begun == {now, now + 1} \ {0}

(* The times that a change can give to a row.  A note keeps its time; an    *)
(* action goes and comes again with each enrichment of its note.           *)
NoteTimes(i) == IF at[i] = 0 THEN Begun ELSE {}
ActionTimes(i) == Begun \union {0}

(* A mention comes with an enrichment, or goes with the one before; people *)
(* are merged; a ticket is as old as the newest note that mentions it.     *)
MentionTimes(i) == 0..(now + 1)

(* The end of a period: midnight of the user, before or after that of UTC. *)
PeriodEnds(i) == IF at[i] = 0 THEN {Day * d - Offset : d \in 1..2} ELSE {}

NewTimes(i) ==
  CASE list \in OfNotes -> NoteTimes(i)
    [] list = "actions" -> ActionTimes(i)
    [] list \in {"people", "tickets"} -> MentionTimes(i)
    [] list = "summaries" -> PeriodEnds(i)

Touched(i) ==
  /\ now < MaxWrites /\ now' = now + 1
  /\ still' = still \ {i}
  /\ UNCHANGED <<list, pc, client, shown>>

Write(i) ==
  /\ \E t \in NewTimes(i) \ {at[i]} : at' = [at EXCEPT ![i] = t]
  /\ marked' \in IF list \in OfNotes THEN {marked}
                 ELSE {marked \ {i}, marked \union {i}}
  /\ Touched(i)

(* SaveNoteEnrichmentResult: the status and all of the results, at once.   *)
Enrich(i) ==
  /\ list \in OfNotes /\ at[i] # 0 /\ i \notin marked
  /\ marked' = marked \union {i}
  /\ UNCHANGED at
  /\ Touched(i)

(* An action is completed or reopened.                                     *)
SetActionStatus(i) ==
  /\ list \in {"actions", "people", "tickets"} /\ at[i] # 0
  /\ marked' = (marked \ {i}) \union ({i} \ marked)
  /\ UNCHANGED at
  /\ Touched(i)

(* MergePeople moves the rows of the person to another one, at once.       *)
MergePerson ==
  /\ list = "person" /\ ~moved
  /\ moved' = TRUE
  /\ UNCHANGED <<list, db, pc, client, rows, view, still>>

-----------------------------------------------------------------------------
(* The statements of the lists: newest first, ids against ties, strictly   *)
(* after the cursor.                                                       *)
Before(i, j) == at[i] > at[j] \/ (at[i] = at[j] /\ i > j)
After(c, S) ==
  IF c = NoCursor THEN S ELSE {i \in S : at[i] < c.at \/ (at[i] = c.at /\ i < c.item)}
Top(S, n) == {i \in S : Cardinality({j \in S : Before(j, i)}) < n}
Passing(f) == {i \in Items : at[i] # 0 /\ (f = "all" \/ i \in marked)}

ListAPINotesHistory(f, c, n) == Top(After(c, Passing(f)), n)   \* by processing_status
ListAPIActions(f, c, n) == Top(After(c, Passing(f)), n)        \* by status
ListPeopleWorkspace(f, c, n) == Top(After(c, Passing(f)), n)   \* with open actions
ListTicketsWorkspace(f, c, n) == Top(After(c, Passing(f)), n)  \* with open actions
ListSummaries(f, c, n) == Top(After(c, Passing(f)), n)         \* by kind
ListTodayNotes(n) == Top(Passing("all"), n)
NoteDetail(i) == Passing("all") \intersect {i}
GetPersonWorkspaceProfile == Passing("marked")   \* of the person it is merged into
GetTicketWorkspaceProfile == Passing("marked")   \* a mention is a result

(* What the queries must satisfy; a refused request is answered with 400.  *)
(* Only the cursor of the actions does not know its filter.                *)
SameFilter(f, c) == c # NoCursor => c.filter = f
notesPage(l, f, c) == l \in 1..50 /\ SameFilter(f, c)
page(l, f, c) == l \in 1..100
peoplePage(l, f, c) == l \in 1..50 /\ SameFilter(f, c)
ticketsPage(l, f, c) == l \in 1..50 /\ SameFilter(f, c)
summariesPage(l, f, c) == l \in 1..50 /\ SameFilter(f, c)

Accepted(l, f, c) ==
  CASE list = "notes" -> notesPage(l, f, c)
    [] list = "actions" -> page(l, f, c)
    [] list = "people" -> peoplePage(l, f, c)
    [] list = "tickets" -> ticketsPage(l, f, c)
    [] list = "summaries" -> summariesPage(l, f, c)

Statement(f, c, n) ==
  CASE list = "notes" -> ListAPINotesHistory(f, c, n)
    [] list = "actions" -> ListAPIActions(f, c, n)
    [] list = "people" -> ListPeopleWorkspace(f, c, n)
    [] list = "tickets" -> ListTicketsWorkspace(f, c, n)
    [] list = "summaries" -> ListSummaries(f, c, n)

(* The last day of a period, in the user's zone.                           *)
PeriodTo(i) == (at[i] + Offset) \div Day - 1

(* The time in the cursor behind a row; a summary's is made of the last    *)
(* day of its period, which was printed, as the next midnight of UTC.      *)
nextCursorTime(i) == at[i]
nextCursorSummaries(i) == Day * (PeriodTo(i) + 1)
CursorTime(i) == IF list = "summaries" THEN nextCursorSummaries(i) ELSE nextCursorTime(i)

(* The last row of a page, from a statement asked for one row more.        *)
Oldest(S) == CHOOSE i \in S : \A j \in S \ {i} : Before(j, i)
LastFetched(S, l) == Oldest(S)   \* a mutant: the row after the page
LastShown(S, l) == Oldest(Top(S, l))
NextCursor(S, l) ==
  IF Cardinality(S) > l
    THEN [at |-> CursorTime(LastShown(S, l)), item |-> LastShown(S, l),
          filter |-> filter]
    ELSE NoCursor

ShownOf(S, l) ==
  /\ rows' = Top(S, l)
  /\ view' = <<Top(S, l) \intersect marked>>
  /\ pc' = "reading"
  /\ moved' = FALSE

(* The first statement of a page.  The touched rows are told from here on. *)
Ask(l) ==
  /\ pc = "ready" /\ list \in Paged
  /\ Accepted(l, filter, cursor)
  /\ LET found == Statement(filter, cursor, l + 1)
     IN  /\ ShownOf(found, l)
         /\ more' = (Cardinality(found) > l)
         /\ cursor' = NextCursor(found, l)
  /\ still' = IF cursor = NoCursor THEN Items ELSE still
  /\ mixed' = (mixed \/ ~SameFilter(filter, cursor))
  /\ UNCHANGED <<list, db, filter, seen>>

(* Today's notes; one note; a person, found through the merges; a ticket.  *)
AskToday(l) ==
  /\ pc = "ready" /\ list = "today"
  /\ ShownOf(ListTodayNotes(l), l)
  /\ UNCHANGED <<list, db, client, still>>

AskNote(i) ==
  /\ pc = "ready" /\ list = "note" /\ at[i] # 0
  /\ ShownOf(NoteDetail(i), 1)
  /\ UNCHANGED <<list, db, client, still>>

AskPerson ==
  /\ pc = "ready" /\ list = "person" /\ marked # {}
  /\ ShownOf(GetPersonWorkspaceProfile, Cardinality(Items))
  /\ UNCHANGED <<list, db, client, still>>

AskTicket ==
  /\ pc = "ready" /\ list = "ticket" /\ marked # {}
  /\ ShownOf(GetTicketWorkspaceProfile, Cardinality(Items))
  /\ UNCHANGED <<list, db, client, still>>

(* A 400 for another filter: the client begins again.                      *)
Refused ==
  /\ pc = "ready" /\ list \in Paged /\ cursor # NoCursor
  /\ \A l \in Limits : ~Accepted(l, filter, cursor)
  /\ cursor' = NoCursor
  /\ seen' = [i \in Items |-> 0]
  /\ UNCHANGED <<list, db, pc, filter, more, shown, still, mixed>>

SwitchFilter ==
  /\ pc = "ready" /\ list \in Paged /\ cursor # NoCursor
  /\ \E f \in Filters \ {filter} : filter' = f
  /\ UNCHANGED <<list, db, pc, cursor, more, seen, shown, still, mixed>>

(* The statements that follow, each on a state of its own.  Limits of the  *)
(* previews aside, they read the results of the notes asked for; those of  *)
(* a person go by the id found first, those of a ticket by its key, and    *)
(* the last one by the notes just read.                                    *)
ReadAnew(s, notes) ==            \* a mutant: the status is read last
  /\ pc = "reading" /\ Len(view) < Len(Statements)
  /\ s = Statements[Len(view) + 1]
  /\ view' = [Append(view, notes \intersect marked) EXCEPT ![1] = rows \intersect marked]
  /\ UNCHANGED <<list, db, pc, client, rows, moved, still>>
Read(s, notes) ==
  /\ pc = "reading" /\ Len(view) < Len(Statements)
  /\ s = Statements[Len(view) + 1]
  /\ view' = Append(view, notes \intersect marked)
  /\ UNCHANGED <<list, db, pc, client, rows, moved, still>>

NoteCounts == Read("NoteCounts", rows)
HighlightsForNotes == Read("HighlightsForNotes", rows)
EntitiesForNotes == Read("EntitiesForNotes", rows)
ActionsForNote == Read("ActionsForNote", rows)
DecisionsForNote == Read("DecisionsForNote", rows)
OfPerson == IF moved THEN {} ELSE Items
OpenActionsForPerson == Read("OpenActionsForPerson", OfPerson)
RecentDecisionsForPerson == Read("RecentDecisionsForPerson", OfPerson)
RecentNotesForPerson == Read("RecentNotesForPerson", OfPerson)
OpenActionsForTicket == Read("OpenActionsForTicket", Items)
RecentDecisionsForTicket == Read("RecentDecisionsForTicket", Items)
RecentNotesForTicket == Read("RecentNotesForTicket", Items)
PeopleForNotes == pc = "reading" /\ Read("PeopleForNotes", view[Len(view)])

Respond ==
  /\ pc = "reading" /\ Len(view) = Len(Statements)
  /\ seen' = [i \in Items |-> seen[i] + IF i \in rows THEN 1 ELSE 0]
  /\ pc' = IF more THEN "ready" ELSE "done"
  /\ UNCHANGED <<list, db, filter, cursor, more, shown, still, mixed>>

Next ==
  \/ \E i \in Items : Write(i) \/ Enrich(i) \/ SetActionStatus(i) \/ AskNote(i)
  \/ \E l \in Limits : Ask(l) \/ AskToday(l)
  \/ Refused \/ SwitchFilter
  \/ AskPerson \/ AskTicket \/ MergePerson
  \/ OpenActionsForPerson \/ RecentDecisionsForPerson \/ RecentNotesForPerson
  \/ NoteCounts \/ HighlightsForNotes \/ EntitiesForNotes
  \/ ActionsForNote \/ DecisionsForNote
  \/ OpenActionsForTicket \/ RecentDecisionsForTicket
  \/ RecentNotesForTicket \/ PeopleForNotes
  \/ Respond

Spec == Init /\ [][Next]_vars

-----------------------------------------------------------------------------
(* A client that reads a list to its end gets every row that nothing       *)
(* touched meanwhile, if it passes the filter, and gets it once: whatever  *)
(* is inserted, moved, marked or removed between the pages, with ties and  *)
(* with limits that change from page to page.  For the summaries this holds *)
(* of users at UTC, Offset = 0: elsewhere the cursor is not that of a row. *)
DeliveredOnce ==
  pc = "done" /\ list \in Paged /\ ~mixed =>
    \A i \in still : seen[i] = IF i \in Passing(filter) THEN 1 ELSE 0

(* A page of notes is put together from several statements, in no          *)
(* transaction.  What one of them saw of a note, its status or its results, *)
(* the next ones saw too: no note is shown as processed without its        *)
(* results, none is counted for a person or a ticket and then missing in   *)
(* the lists.  A person that is merged into another in between is the      *)
(* exception: its lists come out empty.                                    *)
ProcessedNotesAreComplete ==
  list \in OfNotes /\ ~moved =>
    \A k \in 2..Len(view) : view[k - 1] \subseteq view[k]

(* The pages of a list follow its order: what a page shows comes after all *)
(* that was delivered before, rows touched meanwhile aside.  "Ordered by   *)
(* period_end DESC, type DESC, id DESC.  Cursor pagination is opaque".     *)
PagesFollowTheOrder ==
  pc = "reading" /\ ~mixed =>
    \A i \in rows \intersect still, j \in still :
      seen[j] > 0 => Before(j, i)
=============================================================================
