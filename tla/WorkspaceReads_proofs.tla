----------------------- MODULE WorkspaceReads_proofs -------------------------
(***************************************************************************)
(* A client that reads a list to its end gets each row that nothing        *)
(* touched once, and what the statements of a page of notes see only       *)
(* grows: for any number of rows and writes, and any limits.               *)
(*                                                                         *)
(* A page is the rows after the cursor that have fewer rows before them    *)
(* than the limit.  So the rows that a page shows and those after its last *)
(* row part what was asked for, and the next cursor, which is a value and  *)
(* no row, still parts the untouched rows when the others have moved.  The *)
(* cursor of the summaries has the time of its row only where midnight is  *)
(* that of UTC: what is said of the pages assumes it.                      *)
(***************************************************************************)
EXTENDS WorkspaceReads, FiniteSetTheorems, TLAPS

LEMMA LeastNat ==
  ASSUME NEW T, T \subseteq Nat, T # {}
  PROVE  \E x \in T : \A y \in T : x <= y
<1> DEFINE R == {ss \in Nat \X Nat : ss[1] < ss[2]}
<1>1. PICK x \in T : \A y \in T : ~(<<y, x>> \in R)
  <2>1. IsWellFoundedOn(R, Nat) BY NatLessThanWellFounded, Zenon DEF OpToRel
  <2> HIDE DEF R
  <2> QED BY <2>1, WFMin
<1>2. ASSUME NEW y \in T PROVE x <= y
  <2>1. <<y, x>> \in Nat \X Nat => ~(<<y, x>>[1] < <<y, x>>[2]) BY <1>1 DEF R
  <2> QED BY <2>1
<1> QED BY <1>2

-----------------------------------------------------------------------------
(* The order of a list, and the rows before a row.                         *)
Timed == at \in [Items -> Nat]
Preceding(S, i) == {j \in S : Before(j, i)}
Rank(S, i) == Cardinality(Preceding(S, i))

LEMMA BeforeIsOrder ==
  ASSUME Timed, NEW i \in Items, NEW j \in Items
  PROVE  /\ ~Before(i, i)
         /\ Before(i, j) => ~Before(j, i)
         /\ i # j => Before(i, j) \/ Before(j, i)
         /\ \A k \in Items : Before(i, j) /\ Before(j, k) => Before(i, k)
BY ReadsAssumption DEF Timed, Before

LEMMA FiniteRows ==
  ASSUME NEW S, S \subseteq Items
  PROVE  IsFiniteSet(S) /\ Cardinality(S) \in Nat
BY ReadsAssumption, FS_Subset, FS_CardinalityType

LEMMA Ranks ==
  ASSUME Timed, NEW S, S \subseteq Items, NEW i \in Items
  PROVE  /\ IsFiniteSet(S) /\ Cardinality(S) \in Nat
         /\ Rank(S, i) \in Nat
         /\ i \in S => Rank(S, i) < Cardinality(S)
<1>1. IsFiniteSet(S) BY ReadsAssumption, FS_Subset
<1>2. IsFiniteSet(Preceding(S, i)) /\ Rank(S, i) <= Cardinality(S)
  BY <1>1, FS_Subset DEF Preceding, Rank
<1>3. ASSUME i \in S PROVE Rank(S, i) # Cardinality(S)
  <2>1. i \notin Preceding(S, i) BY BeforeIsOrder DEF Preceding
  <2>2. Preceding(S, i) \in SUBSET S BY DEF Preceding
  <2> QED BY <1>1, <1>3, <2>1, <2>2, FS_Subset DEF Rank
<1>4. Cardinality(S) \in Nat /\ Rank(S, i) \in Nat
  BY <1>1, <1>2, FS_CardinalityType DEF Rank
<1> QED BY <1>1, <1>2, <1>3, <1>4

LEMMA RankGrows ==
  ASSUME Timed, NEW S, S \subseteq Items, NEW i \in S, NEW j \in Items, Before(i, j)
  PROVE  /\ Preceding(S, i) \subseteq Preceding(S, j)
         /\ Rank(S, i) < Rank(S, j)
<1>1. Preceding(S, i) \subseteq Preceding(S, j) BY BeforeIsOrder DEF Preceding
<1>2. i \in Preceding(S, j) /\ i \notin Preceding(S, i) BY BeforeIsOrder DEF Preceding
<1>3. IsFiniteSet(Preceding(S, j)) BY Ranks, FS_Subset DEF Preceding
<1>4. /\ Cardinality(Preceding(S, i)) <= Cardinality(Preceding(S, j))
      /\ Cardinality(Preceding(S, i)) # Cardinality(Preceding(S, j))
  BY <1>1, <1>2, <1>3, FS_Subset
<1>5. Rank(S, i) \in Nat /\ Rank(S, j) \in Nat BY Ranks
<1> QED BY <1>1, <1>4, <1>5 DEF Rank

-----------------------------------------------------------------------------
(* The first rows of a list.                                               *)
LEMMA TopByRank ==
  ASSUME NEW S, NEW n
  PROVE  Top(S, n) = {i \in S : Rank(S, i) < n}
BY DEF Top, Rank, Preceding

LEMMA TopType ==
  ASSUME NEW S, NEW n
  PROVE  Top(S, n) \subseteq S
BY DEF Top

(* One row more is asked for than is shown.                                *)
LEMMA TopOfTop ==
  ASSUME Timed, NEW S, S \subseteq Items, NEW l \in Nat
  PROVE  Top(Top(S, l + 1), l) = Top(S, l)
<1> DEFINE F == Top(S, l + 1)
<1>1. F \subseteq S /\ F \subseteq Items BY TopType
<1>2. ASSUME NEW i \in F PROVE Rank(F, i) = Rank(S, i)
  <2>1. ASSUME NEW j \in Preceding(S, i) PROVE j \in F
    <3>1. j \in S /\ Rank(S, j) < Rank(S, i) BY <1>1, RankGrows DEF Preceding
    <3>2. Rank(S, i) < l + 1 BY TopByRank
    <3>3. Rank(S, i) \in Nat /\ Rank(S, j) \in Nat BY <1>1, <3>1, Ranks
    <3> QED BY <3>1, <3>2, <3>3, TopByRank
  <2>2. Preceding(F, i) = Preceding(S, i) BY <1>1, <2>1 DEF Preceding
  <2> QED BY <2>2 DEF Rank
<1>3. Top(F, l) = {i \in F : Rank(S, i) < l} BY <1>2, TopByRank
<1>4. \A i \in S : Rank(S, i) \in Nat BY Ranks
<1>5. F = {i \in S : Rank(S, i) < l + 1} BY TopByRank
<1>6. Top(S, l) = {i \in S : Rank(S, i) < l} BY TopByRank
<1> HIDE DEF F
<1>7. Top(F, l) = Top(S, l) BY <1>3, <1>4, <1>5, <1>6
<1> QED BY <1>7 DEF F

(* Fewer rows than were asked for are all.                                 *)
LEMMA TopIsAll ==
  ASSUME Timed, NEW S, S \subseteq Items, NEW n \in Nat, Cardinality(Top(S, n)) < n
  PROVE  Top(S, n) = S
<1> DEFINE F == Top(S, n)
           T == {Rank(S, i) : i \in S \ F}
<1> SUFFICES ASSUME S \ F # {} PROVE FALSE BY TopType
<1>1. \A i \in S : Rank(S, i) \in Nat BY Ranks
<1>2. PICK x \in S \ F : \A i \in S \ F : Rank(S, x) <= Rank(S, i)
  <2>1. T \subseteq Nat /\ T # {} BY <1>1
  <2>2. PICK r \in T : \A q \in T : r <= q BY <2>1, LeastNat
  <2> QED BY <2>2
<1>3. Preceding(S, x) \subseteq F
  <2>1. ASSUME NEW j \in Preceding(S, x) PROVE j \in F
    <3>1. j \in S /\ Rank(S, j) < Rank(S, x) BY RankGrows DEF Preceding
    <3> QED BY <1>1, <1>2, <3>1
  <2> QED BY <2>1
<1>4. IsFiniteSet(F) /\ Cardinality(F) \in Nat BY TopType, Ranks
<1>5. Rank(S, x) <= Cardinality(F) BY <1>3, <1>4, FS_Subset DEF Rank
<1>6. ~(Rank(S, x) < n) BY <1>2, TopByRank
<1> HIDE DEF F
<1> QED BY <1>1, <1>2, <1>4, <1>5, <1>6 DEF F

(* The last row of a page parts the rows shown from those to come.         *)
LEMMA LastOfTop ==
  ASSUME Timed, NEW S, S \subseteq Items, NEW n \in Nat, Top(S, n) # {}
  PROVE  /\ Oldest(Top(S, n)) \in Top(S, n)
         /\ \A i \in S : i \in Top(S, n) <=> ~Before(Oldest(Top(S, n)), i)
<1> DEFINE F == Top(S, n)
           T == {k \in Nat : \E i \in F : Rank(S, i) + k = n}
<1>1. /\ F \subseteq S /\ \A i \in S : Rank(S, i) \in Nat
      /\ \A i \in S : i \in F <=> Rank(S, i) < n
  BY TopType, TopByRank, Ranks
<1>2. PICK m \in F : \A i \in F : Rank(S, i) <= Rank(S, m)
  <2>1. T \subseteq Nat OBVIOUS
  <2>2. PICK i \in F : TRUE OBVIOUS
  <2>3. n - Rank(S, i) \in T BY <1>1, <2>2
  <2>4. PICK k \in T : \A q \in T : k <= q BY <2>1, <2>3, LeastNat
  <2>5. PICK m \in F : Rank(S, m) + k = n BY <2>4
  <2>6. ASSUME NEW j \in F PROVE Rank(S, j) <= Rank(S, m)
    <3>1. n - Rank(S, j) \in T BY <1>1
    <3>2. k <= n - Rank(S, j) BY <2>4, <3>1
    <3> QED BY <1>1, <2>4, <2>5, <3>2
  <2> QED BY <2>6
<1>3. ASSUME NEW i \in F \ {m} PROVE Before(i, m)
  <2>1. Before(i, m) \/ Before(m, i) BY <1>1, BeforeIsOrder
  <2>2. Before(m, i) => Rank(S, m) < Rank(S, i) BY <1>1, RankGrows
  <2> QED BY <1>1, <1>2, <2>1, <2>2
<1>4. Oldest(F) \in F /\ \A i \in F \ {Oldest(F)} : Before(i, Oldest(F))
  BY <1>3 DEF Oldest
<1> DEFINE o == Oldest(F)
<1>5. ASSUME NEW i \in S PROVE i \in F <=> ~Before(o, i)
  <2>1. CASE i \in F
    BY <1>1, <1>4, <2>1, BeforeIsOrder
  <2>2. CASE i \notin F
    <3>1. i # o BY <1>4, <2>2
    <3>2. Before(o, i) \/ Before(i, o) BY <1>1, <1>4, <3>1, BeforeIsOrder
    <3>3. Before(i, o) => Rank(S, i) < Rank(S, o) BY <1>1, <1>4, RankGrows
    <3> QED BY <1>1, <1>4, <2>2, <3>2, <3>3
  <2> QED BY <2>1, <2>2
<1> QED BY <1>4, <1>5
-----------------------------------------------------------------------------
(* The end of a period is a midnight.                                      *)
Midnights == list = "summaries" =>
  \A i \in Items : at[i] # 0 => \E d \in 1..2 : at[i] = Day * d - Offset

LEMMA DaysAreTimes ==
  ASSUME MaxWrites >= 1, NEW d \in 1..2
  PROVE  /\ Day * d \in Times /\ Day * d - Offset \in Times
         /\ Day * d - Offset # 0
         /\ (Day * d - Offset + Offset) \div Day = d
<1>1. Day \in Nat /\ Day > 0 /\ MaxWrites \in Nat /\ Offset \in (1 - Day)..(Day - 1)
  BY ReadsAssumption
<1>2. Day * 1 = Day /\ Day * 2 = Day + Day BY <1>1
<1>3. Day * (MaxWrites + 2) = Day * MaxWrites + Day + Day BY <1>1
<1>4. Day * MaxWrites >= Day /\ Day * MaxWrites \in Nat BY <1>1
<1>5. Day \div Day = 1 /\ (Day + Day) \div Day = 2 BY <1>1
<1>6. CASE d = 1
  <2>1. Day * d = Day BY <1>2, <1>6
  <2> QED BY <1>1, <1>3, <1>4, <1>5, <1>6, <2>1 DEF Times
<1>7. CASE d = 2
  <2>1. Day * d = Day + Day BY <1>2, <1>7
  <2> QED BY <1>1, <1>3, <1>4, <1>5, <1>7, <2>1 DEF Times
<1> QED BY <1>6, <1>7

LEMMA TimesAreNats == Times \subseteq Nat /\ 0 \in Times
BY ReadsAssumption DEF Times

LEMMA WritesAreTimes ==
  ASSUME now \in 0..MaxWrites, now < MaxWrites, NEW t \in 0..(now + 1)
  PROVE  t \in Times
<1>1. Day \in Nat /\ Day > 0 /\ MaxWrites \in Nat BY ReadsAssumption
<1>2. Day * (MaxWrites + 2) >= MaxWrites + 2 BY <1>1
<1>3. Day * (MaxWrites + 2) \in Nat BY <1>1
<1> QED BY <1>1, <1>2, <1>3 DEF Times

Typed == TypeOK /\ Midnights

LEMMA TypedIsTimed == TypeOK => Timed
BY TimesAreNats DEF TypeOK, Timed

LEMMA SomeStatements == Len(Statements) \in Nat /\ Len(Statements) >= 1
BY DEF Statements, ListNotesHistory, GetToday, GetNoteDetail, GetPersonWorkspace,
       GetTicketWorkspace

LEMMA InitTyped == Init => Typed
<1> SUFFICES ASSUME Init PROVE Typed OBVIOUS
<1>1. view \in Seq(SUBSET Items) /\ Len(view) <= Len(Statements)
  BY SomeStatements DEF Init
<1>2. filter \in Filters BY DEF Init, Filters
<1>3. at \in [Items -> Times] BY TimesAreNats DEF Init
<1>4. now \in 0..MaxWrites /\ seen \in [Items -> Nat] BY ReadsAssumption DEF Init
<1>5. Midnights
  <2>1. \A i \in Items : at[i] = 0 BY DEF Init
  <2> QED BY <2>1 DEF Midnights
<1> QED BY <1>1, <1>2, <1>3, <1>4, <1>5 DEF Init, Typed, TypeOK

-----------------------------------------------------------------------------
(* The database.                                                           *)
LEMMA WriteTyped ==
  ASSUME Typed, NEW i \in Items, Write(i)
  PROVE  Typed'
<1>1. /\ now \in Nat /\ now < MaxWrites /\ now' = now + 1
      /\ at \in [Items -> Times] /\ marked \subseteq Items /\ still \subseteq Items
  BY ReadsAssumption DEF Write, Touched, Typed, TypeOK
<1>2. PICK t \in NewTimes(i) : at' = [at EXCEPT ![i] = t] BY DEF Write
<1>3. ASSUME list = "summaries" PROVE at' \in [Items -> Times] /\ Midnights'
  <2>1. PICK d \in 1..2 : t = Day * d - Offset
    BY <1>2, <1>3 DEF NewTimes, PeriodEnds, OfNotes
  <2>2. t \in Times BY <1>1, <2>1, DaysAreTimes, ReadsAssumption
  <2> QED BY <1>1, <1>2, <2>1, <2>2 DEF Typed, Midnights, Write, Touched
<1>4. ASSUME list # "summaries" PROVE at' \in [Items -> Times] /\ Midnights'
  <2>1. t \in 0..(now + 1)
    BY <1>1, <1>2, <1>4, ReadsAssumption DEF NewTimes, NoteTimes, ActionTimes, MentionTimes,
       Begun, OfNotes, Typed, TypeOK
  <2>2. t \in Times BY <1>1, <2>1, WritesAreTimes DEF Typed, TypeOK
  <2> QED BY <1>1, <1>2, <1>4, <2>2 DEF Typed, Midnights, Write, Touched
<1>5. at' \in [Items -> Times] /\ Midnights' BY <1>3, <1>4
<1>6. marked' \subseteq Items /\ still' \subseteq Items /\ now' \in 0..MaxWrites
  BY <1>1, ReadsAssumption DEF Write, Touched
<1>7. Statements' = Statements BY DEF Write, Touched, Statements
<1> QED
  BY <1>5, <1>6, <1>7 DEF Typed, TypeOK, Write, Touched, client, shown
LEMMA RowWritesTyped ==
  ASSUME Typed, NEW i \in Items, Enrich(i) \/ SetActionStatus(i)
  PROVE  Typed'
<1>1. now \in Nat /\ now < MaxWrites /\ now' = now + 1 /\ MaxWrites \in Nat
  BY ReadsAssumption DEF Enrich, SetActionStatus, Touched, Typed, TypeOK
<1>2. marked' \subseteq Items /\ still' \subseteq Items /\ at' = at /\ list' = list
  BY DEF Enrich, SetActionStatus, Touched, Typed, TypeOK
<1>3. Statements' = Statements BY <1>2 DEF Statements
<1>4. Midnights' BY <1>2 DEF Typed, Midnights
<1>5. UNCHANGED <<pc, client, shown>> BY DEF Enrich, SetActionStatus, Touched
<1>6. now' \in 0..MaxWrites BY <1>1
<1> QED BY <1>2, <1>3, <1>4, <1>5, <1>6 DEF Typed, TypeOK, client, shown

-----------------------------------------------------------------------------
(* The client.                                                             *)
LEMMA ShownTyped ==
  ASSUME Typed, NEW S, S \subseteq Items, NEW l, ShownOf(S, l), list' = list
  PROVE  /\ rows' \subseteq Items /\ pc' = "reading" /\ moved' = FALSE
         /\ view' \in Seq(SUBSET Items) /\ Len(view') = 1 /\ Len(view') <= Len(Statements)'
         /\ view'[1] = rows' \intersect marked
<1>1. Top(S, l) \subseteq Items BY TopType
<1>2. Statements' = Statements BY DEF Statements
<1>3. Top(S, l) \intersect marked \in SUBSET Items BY <1>1
<1> QED BY <1>1, <1>2, <1>3, SomeStatements DEF ShownOf

(* The rows that are asked for, after the cursor.                          *)
Asked == After(cursor, Passing(filter))

LEMMA AskedType == Asked \subseteq Items
BY DEF Asked, After, Passing

(* A page shows what comes first of the rows asked for; the next cursor is *)
(* that of its last row, or there is none and it shows all.                *)
LEMMA AskPage ==
  ASSUME Typed, NEW l, Ask(l)
  PROVE  /\ l \in Nat
         /\ ShownOf(Top(Asked, l + 1), l)
         /\ rows' \subseteq Asked /\ more' \in BOOLEAN
         /\ \/ /\ more'
               /\ \E m \in rows' :
                    /\ cursor' = [at |-> CursorTime(m), item |-> m, filter |-> filter]
                    /\ \A i \in Asked : i \in rows' <=> ~Before(m, i)
            \/ /\ ~more'
               /\ cursor' = NoCursor /\ rows' = Asked
<1> DEFINE F == Top(Asked, l + 1)
<1>1. l \in Nat /\ l >= 1
  <2>1. list \in Paged /\ Accepted(l, filter, cursor) BY DEF Ask
  <2>2. \/ notesPage(l, filter, cursor) \/ page(l, filter, cursor)
        \/ peoplePage(l, filter, cursor) \/ ticketsPage(l, filter, cursor)
        \/ summariesPage(l, filter, cursor)
    BY <2>1, Zenon DEF Accepted, Paged
  <2>3. l \in 1..50 \/ l \in 1..100
    BY <2>2 DEF notesPage, page, peoplePage, ticketsPage, summariesPage
  <2> QED BY <2>3
<1>2. Statement(filter, cursor, l + 1) = F
  BY DEF Ask, Paged, Statement, ListAPINotesHistory, ListAPIActions, ListPeopleWorkspace,
         ListTicketsWorkspace, ListSummaries, Asked
<1>3. Timed /\ Asked \subseteq Items BY TypedIsTimed, AskedType DEF Typed
<1>4. Top(F, l) = Top(Asked, l) BY <1>1, <1>3, TopOfTop
<1>5. /\ ShownOf(F, l) /\ more' = (Cardinality(F) > l) /\ more' \in BOOLEAN
      /\ cursor' = NextCursor(F, l)
  BY <1>2 DEF Ask
<1>6. rows' = Top(Asked, l) BY <1>4, <1>5 DEF ShownOf
<1>7. F \subseteq Items /\ Cardinality(F) \in Nat /\ Cardinality(Asked) \in Nat
  BY <1>3, TopType, FiniteRows
<1>8. CASE Cardinality(F) > l
  <2>1. ASSUME rows' = {} PROVE FALSE
    <3>0. Cardinality(Top(Asked, l)) = 0 BY <1>6, <2>1, FS_EmptySet
    <3>1. Top(Asked, l) = Asked BY <1>1, <1>3, <3>0, TopIsAll
    <3>2. F = {} BY <1>6, <2>1, <3>1, TopType
    <3> QED BY <1>1, <1>8, <3>2, FS_EmptySet
  <2> DEFINE m == LastShown(F, l)
  <2>2. m = Oldest(rows') BY <1>4, <1>6 DEF LastShown
  <2>3. m \in rows' /\ \A i \in Asked : i \in rows' <=> ~Before(m, i)
    BY <1>1, <1>3, <1>6, <2>1, <2>2, LastOfTop
  <2>4. cursor' = [at |-> CursorTime(m), item |-> m, filter |-> filter]
    BY <1>5, <1>8 DEF NextCursor
  <2>5. more' BY <1>5, <1>8
  <2> QED BY <1>1, <1>5, <1>6, <2>3, <2>4, <2>5, TopType
<1>9. CASE ~(Cardinality(F) > l)
  <2>1. F = Asked BY <1>1, <1>3, <1>7, <1>9, TopIsAll
  <2>2. ASSUME NEW i \in Asked PROVE Rank(Asked, i) < l
    <3>1. Rank(Asked, i) < Cardinality(Asked) /\ Rank(Asked, i) \in Nat BY <1>3, Ranks
    <3> QED BY <1>1, <1>7, <1>9, <2>1, <3>1
  <2>3. rows' = Asked BY <1>6, <2>2, TopByRank
  <2>4. cursor' = NoCursor BY <1>5, <1>9 DEF NextCursor
  <2>5. ~more' BY <1>5, <1>9, Zenon
  <2> QED BY <1>1, <1>5, <2>3, <2>4, <2>5
<1> QED BY <1>8, <1>9
(* The time in a cursor is that of the row, or its midnight in UTC.        *)
LEMMA CursorIsTime ==
  ASSUME Typed, NEW m \in Items, at[m] # 0
  PROVE  /\ CursorTime(m) \in Times
         /\ Offset = 0 \/ list # "summaries" => CursorTime(m) = at[m]
<1>1. Day \in Nat /\ Day > 0 /\ MaxWrites \in Nat /\ Offset \in (1 - Day)..(Day - 1)
  BY ReadsAssumption
<1>2. at[m] \in Times BY DEF Typed, TypeOK
<1>3. CASE list # "summaries"
  BY <1>2, <1>3 DEF CursorTime, nextCursorTime
<1>4. CASE list = "summaries"
  <2>1. PICK d \in 1..2 : at[m] = Day * d - Offset BY <1>4 DEF Typed, Midnights
  <2>2. Day * 1 = Day /\ Day * 2 = Day + Day BY <1>1
  <2>3. Day * d \in Nat BY <1>1
  <2>4. (at[m] + Offset) \div Day = d /\ Day * d \in Times
    <3>1. CASE MaxWrites >= 1 BY <2>1, <3>1, DaysAreTimes
    <3>2. CASE MaxWrites = 0
      <4>1. Times = 0..(Day + Day) BY <1>1, <2>2, <3>2 DEF Times
      <4>2. Day * d \in 0..(Day + Day) BY <1>1, <2>2
      <4>3. at[m] + Offset = Day * d BY <1>1, <2>1, <2>2, <2>3
      <4>4. Day \div Day = 1 /\ (Day + Day) \div Day = 2 BY <1>1
      <4>5. CASE d = 1 BY <2>2, <4>1, <4>2, <4>3, <4>4, <4>5
      <4>6. CASE d = 2 BY <2>2, <4>1, <4>2, <4>3, <4>4, <4>6
      <4> QED BY <4>5, <4>6
    <3> QED BY <1>1, <3>1, <3>2
  <2>5. PeriodTo(m) + 1 = d BY <2>1, <2>4 DEF PeriodTo
  <2>6. CursorTime(m) = Day * d BY <1>4, <2>5 DEF CursorTime, nextCursorSummaries
  <2>7. Offset = 0 => Day * d = at[m] BY <2>1, <2>3
  <2> QED BY <1>4, <2>4, <2>6, <2>7
<1> QED BY <1>3, <1>4

LEMMA AskTyped ==
  ASSUME Typed, NEW l, Ask(l)
  PROVE  Typed'
<1>1. UNCHANGED <<list, db, filter, seen>> BY DEF Ask
<1>2. /\ rows' \subseteq Items /\ pc' = "reading" /\ moved' = FALSE
      /\ view' \in Seq(SUBSET Items) /\ Len(view') <= Len(Statements)'
  BY <1>1, AskPage, ShownTyped, TopType, AskedType
<1>3. cursor' \in [at : Times, item : Items, filter : Filters] \union {NoCursor}
  <2>1. CASE cursor' = NoCursor BY <2>1
  <2>2. ASSUME NEW m \in rows',
               cursor' = [at |-> CursorTime(m), item |-> m, filter |-> filter]
        PROVE  cursor' \in [at : Times, item : Items, filter : Filters]
    <3>1. m \in Items /\ at[m] # 0 BY AskPage DEF Asked, After, Passing
    <3>2. CursorTime(m) \in Times BY <3>1, CursorIsTime
    <3> QED BY <2>2, <3>1, <3>2 DEF Typed, TypeOK
  <2> QED BY <2>1, <2>2, AskPage
<1>4. more' \in BOOLEAN BY AskPage
<1>5. still' \subseteq Items BY DEF Ask, Typed, TypeOK
<1>6. mixed' \in BOOLEAN BY DEF Ask, Typed, TypeOK
<1>7. Midnights' BY <1>1 DEF Typed, Midnights, db
<1> QED BY <1>1, <1>2, <1>3, <1>4, <1>5, <1>6, <1>7 DEF Typed, TypeOK, db

LEMMA AskOneTyped ==
  ASSUME Typed,
         \/ \E l \in Limits : AskToday(l)
         \/ \E i \in Items : AskNote(i)
         \/ AskPerson \/ AskTicket
  PROVE  Typed'
<1>1. PICK S, l : S \subseteq Items /\ ShownOf(S, l)
  <2>1. /\ Passing("all") \subseteq Items /\ Passing("marked") \subseteq Items
        /\ \A n : ListTodayNotes(n) \subseteq Items
        /\ \A i : NoteDetail(i) \subseteq Items
    BY TopType DEF Passing, ListTodayNotes, NoteDetail
  <2> QED BY <2>1 DEF AskToday, AskNote, AskPerson, AskTicket,
       GetPersonWorkspaceProfile, GetTicketWorkspaceProfile
<1>2. UNCHANGED <<list, db, client, still>>
  BY DEF AskToday, AskNote, AskPerson, AskTicket
<1>3. /\ rows' \subseteq Items /\ pc' = "reading" /\ moved' = FALSE
      /\ view' \in Seq(SUBSET Items) /\ Len(view') <= Len(Statements)'
  BY <1>1, <1>2, ShownTyped
<1>4. Midnights' BY <1>2 DEF Typed, Midnights, db
<1> QED BY <1>2, <1>3, <1>4 DEF Typed, TypeOK, db, client

Reads ==
  \/ OpenActionsForPerson \/ RecentDecisionsForPerson \/ RecentNotesForPerson
  \/ NoteCounts \/ HighlightsForNotes \/ EntitiesForNotes
  \/ ActionsForNote \/ DecisionsForNote
  \/ OpenActionsForTicket \/ RecentDecisionsForTicket
  \/ RecentNotesForTicket \/ PeopleForNotes

LEMMA ReadTyped ==
  ASSUME Typed, NEW s, NEW notes, Read(s, notes)
  PROVE  Typed'
<1>1. UNCHANGED <<list, db, pc, client, rows, moved, still>> BY DEF Read
<1>2. view' = Append(view, notes \intersect marked) /\ Len(view) < Len(Statements) BY DEF Read
<1>3. notes \intersect marked \in SUBSET Items /\ view \in Seq(SUBSET Items)
  BY DEF Typed, TypeOK
<1>4. view' \in Seq(SUBSET Items) /\ Len(view') = Len(view) + 1 /\ Len(view) \in Nat
  BY <1>2, <1>3
<1>5. Statements' = Statements BY <1>1 DEF Statements
<1>6. Len(view') <= Len(Statements)' BY <1>2, <1>4, <1>5, SomeStatements
<1>7. Midnights' BY <1>1 DEF Typed, Midnights, db
<1> QED BY <1>1, <1>4, <1>6, <1>7 DEF Typed, TypeOK, db, client

LEMMA OneRead ==
  ASSUME Reads
  PROVE  \E s, notes : Read(s, notes)
BY DEF Reads, OpenActionsForPerson, RecentDecisionsForPerson, RecentNotesForPerson,
       NoteCounts, HighlightsForNotes, EntitiesForNotes, ActionsForNote, DecisionsForNote,
       OpenActionsForTicket, RecentDecisionsForTicket, RecentNotesForTicket, PeopleForNotes

LEMMA ClientTyped ==
  ASSUME Typed, Refused \/ SwitchFilter \/ MergePerson \/ Respond
  PROVE  Typed'
<1>1. list' = list /\ UNCHANGED db
  BY DEF Refused, SwitchFilter, MergePerson, Respond
<1>2. Statements' = Statements /\ Midnights' BY <1>1 DEF Statements, Typed, Midnights, db
<1>3. CASE Refused BY <1>1, <1>2, <1>3 DEF Refused, Typed, TypeOK, db, shown
<1>4. CASE SwitchFilter BY <1>1, <1>2, <1>4 DEF SwitchFilter, Typed, TypeOK, db, shown
<1>5. CASE MergePerson BY <1>1, <1>2, <1>5 DEF MergePerson, Typed, TypeOK, db, client
<1>6. CASE Respond
  <2>1. seen' \in [Items -> Nat] BY <1>6 DEF Respond, Typed, TypeOK
  <2>2. pc' \in {"ready", "reading", "done"} BY <1>6 DEF Respond
  <2> QED BY <1>1, <1>2, <1>6, <2>1, <2>2 DEF Respond, Typed, TypeOK, db, shown
<1> QED BY <1>3, <1>4, <1>5, <1>6

LEMMA NextTyped == Typed /\ [Next]_vars => Typed'
<1> SUFFICES ASSUME Typed, [Next]_vars PROVE Typed' OBVIOUS
<1>1. CASE UNCHANGED vars
  <2>1. Statements' = Statements BY <1>1 DEF vars, Statements
  <2> QED BY <1>1, <2>1 DEF vars, db, client, shown, Typed, TypeOK, Midnights
<1>2. CASE \E i \in Items : Write(i) \/ Enrich(i) \/ SetActionStatus(i)
  BY <1>2, WriteTyped, RowWritesTyped
<1>3. CASE \E l \in Limits : Ask(l) BY <1>3, AskTyped
<1>4. CASE \/ \E l \in Limits : AskToday(l)
           \/ \E i \in Items : AskNote(i)
           \/ AskPerson \/ AskTicket
  BY <1>4, AskOneTyped
<1>5. CASE Reads BY <1>5, OneRead, ReadTyped
<1>6. CASE Refused \/ SwitchFilter \/ MergePerson \/ Respond BY <1>6, ClientTyped
<1> QED BY <1>1, <1>2, <1>3, <1>4, <1>5, <1>6, Zenon DEF Next, Reads

(* Every variable has its type; a summary's time is a midnight.            *)
THEOREM TypeCorrect == Spec => []TypeOK
<1>1. Typed => TypeOK BY DEF Typed
<1> QED BY InitTyped, NextTyped, <1>1, PTL DEF Spec
-----------------------------------------------------------------------------
(* The statements of a page of notes.  What each of them saw is among the  *)
(* processed notes, which only become more, and for the lists that ask by  *)
(* note among the rows found first.                                        *)
ByNote == {"notes", "today", "note"}

VInv ==
  /\ Typed
  /\ list \in OfNotes =>
       \A k \in 1..Len(view) :
         view[k] \subseteq marked /\ (list \in ByNote => view[k] \subseteq rows)
  /\ ProcessedNotesAreComplete

(* The list decides which notes a statement reads.                         *)
LEMMA NotesRead ==
  ASSUME Typed, list \in OfNotes, Reads
  PROVE  \E notes :
           /\ view' = Append(view, notes \intersect marked)
           /\ list \in ByNote => notes = rows
           /\ list \notin ByNote /\ ~moved => view[Len(view)] \subseteq notes \/ notes = Items
<1> DEFINE Asks(s) == Len(view) < Len(Statements) /\ s = Statements[Len(view) + 1]
<1>1. Len(view) \in Nat BY DEF Typed, TypeOK
<1>2. ASSUME NEW s, Asks(s)
      PROVE  /\ list \in ByNote => s \in {"ListAPINotesHistory", "ListTodayNotes", "NoteCounts",
                   "HighlightsForNotes", "EntitiesForNotes", "NoteDetail", "ActionsForNote",
                   "DecisionsForNote"}
             /\ list \notin ByNote => s \in {"GetPersonWorkspaceProfile",
                   "OpenActionsForPerson", "RecentDecisionsForPerson", "RecentNotesForPerson",
                   "GetTicketWorkspaceProfile", "OpenActionsForTicket",
                   "RecentDecisionsForTicket", "RecentNotesForTicket", "PeopleForNotes"}
  <2>1. CASE list = "notes"
    BY <1>1, <1>2, <2>1 DEF Statements, ListNotesHistory, ByNote
  <2>2. CASE list = "today"
    BY <1>1, <1>2, <2>2 DEF Statements, GetToday, ByNote
  <2>3. CASE list = "note"
    BY <1>1, <1>2, <2>3 DEF Statements, GetNoteDetail, ByNote
  <2>4. CASE list = "person"
    BY <1>1, <1>2, <2>4 DEF Statements, GetPersonWorkspace, ByNote
  <2>5. CASE list = "ticket"
    BY <1>1, <1>2, <2>5 DEF Statements, GetTicketWorkspace, ByNote
  <2> QED BY <2>1, <2>2, <2>3, <2>4, <2>5 DEF OfNotes
<1>3. ASSUME NEW s, NEW notes, Read(s, notes)
      PROVE  Asks(s) /\ view' = Append(view, notes \intersect marked)
  BY <1>3 DEF Read
<1> HIDE DEF Asks
<1>4. CASE NoteCounts \/ HighlightsForNotes \/ EntitiesForNotes
           \/ ActionsForNote \/ DecisionsForNote
  <2>1. PICK s \in {"NoteCounts", "HighlightsForNotes", "EntitiesForNotes",
                    "ActionsForNote", "DecisionsForNote"} : Read(s, rows)
    BY <1>4 DEF NoteCounts, HighlightsForNotes, EntitiesForNotes, ActionsForNote, DecisionsForNote
  <2>2. list \in ByNote BY <1>2, <1>3, <2>1
  <2> QED BY <1>3, <2>1, <2>2
<1>5. CASE OpenActionsForPerson \/ RecentDecisionsForPerson \/ RecentNotesForPerson
  <2>1. PICK s \in {"OpenActionsForPerson", "RecentDecisionsForPerson", "RecentNotesForPerson"} :
          Read(s, OfPerson)
    BY <1>5 DEF OpenActionsForPerson, RecentDecisionsForPerson, RecentNotesForPerson
  <2>2. list \notin ByNote BY <1>2, <1>3, <2>1
  <2>3. ~moved => OfPerson = Items BY DEF OfPerson
  <2> QED BY <1>3, <2>1, <2>2, <2>3
<1>6. CASE OpenActionsForTicket \/ RecentDecisionsForTicket \/ RecentNotesForTicket
  <2>1. PICK s \in {"OpenActionsForTicket", "RecentDecisionsForTicket", "RecentNotesForTicket"} :
          Read(s, Items)
    BY <1>6 DEF OpenActionsForTicket, RecentDecisionsForTicket, RecentNotesForTicket
  <2>2. list \notin ByNote BY <1>2, <1>3, <2>1
  <2> QED BY <1>3, <2>1, <2>2
<1>7. CASE PeopleForNotes
  <2>1. Read("PeopleForNotes", view[Len(view)]) BY <1>7 DEF PeopleForNotes
  <2>2. list \notin ByNote BY <1>2, <1>3, <2>1
  <2> QED BY <1>3, <2>1, <2>2
<1> QED BY <1>4, <1>5, <1>6, <1>7 DEF Reads

LEMMA ReadKeepsView ==
  ASSUME VInv, Reads
  PROVE  VInv'
<1>1. UNCHANGED <<list, db, pc, client, rows, moved, still>> BY OneRead DEF Read
<1>2. Typed' BY OneRead, ReadTyped DEF VInv
<1>3. ASSUME list \in OfNotes
      PROVE  /\ \A k \in 1..Len(view') :
                  view'[k] \subseteq marked /\ (list \in ByNote => view'[k] \subseteq rows)
             /\ ~moved => \A k \in 2..Len(view') : view'[k - 1] \subseteq view'[k]
  <2>1. PICK notes :
           /\ view' = Append(view, notes \intersect marked)
           /\ list \in ByNote => notes = rows
           /\ list \notin ByNote /\ ~moved => view[Len(view)] \subseteq notes \/ notes = Items
    BY <1>3, NotesRead DEF VInv
  <2> DEFINE n == Len(view)
  <2>2. /\ view \in Seq(SUBSET Items) /\ n \in Nat /\ marked \subseteq Items
    BY DEF VInv, Typed, TypeOK
  <2>3. /\ Len(view') = n + 1 /\ view'[n + 1] = notes \intersect marked
        /\ \A k \in 1..n : view'[k] = view[k]
    <3>1. notes \intersect marked \in SUBSET Items BY <2>2
    <3> QED BY <2>1, <2>2, <3>1
  <2>4. \A k \in 1..n :
          view[k] \subseteq marked /\ (list \in ByNote => view[k] \subseteq rows)
    BY <1>3 DEF VInv
  <2>5. ~moved => \A k \in 2..n : view[k - 1] \subseteq view[k]
    BY <1>3 DEF VInv, ProcessedNotesAreComplete
  <2>6. ASSUME NEW k \in 1..(n + 1)
        PROVE  view'[k] \subseteq marked /\ (list \in ByNote => view'[k] \subseteq rows)
    <3>1. k \in 1..n \/ k = n + 1 BY <2>2
    <3> QED BY <2>1, <2>3, <2>4, <3>1
  <2>7. ASSUME ~moved, NEW k \in 2..(n + 1) PROVE view'[k - 1] \subseteq view'[k]
    <3>1. CASE k = n + 1
      <4>1. n \in 1..n /\ k - 1 = n BY <2>2, <3>1
      <4>2. view'[k - 1] = view[n] /\ view'[k] = notes \intersect marked
        BY <2>2, <2>3, <3>1, <4>1
      <4>3. view[n] \subseteq marked /\ (list \in ByNote => view[n] \subseteq rows)
        BY <2>4, <4>1
      <4> QED BY <2>1, <2>2, <2>7, <4>2, <4>3
    <3>2. CASE k # n + 1
      <4>1. k \in 2..n /\ k \in 1..n /\ k - 1 \in 1..n BY <2>2, <3>2
      <4> QED BY <2>3, <2>5, <2>7, <4>1
    <3> QED BY <3>1, <3>2
  <2> QED BY <2>3, <2>6, <2>7
<1> QED BY <1>1, <1>2, <1>3 DEF VInv, ProcessedNotesAreComplete, db

LEMMA FirstView ==
  ASSUME VInv, Typed', list' = list, UNCHANGED marked,
         NEW S, S \subseteq Items, NEW l, ShownOf(S, l)
  PROVE  VInv'
<1>1. Len(view') = 1 /\ view'[1] = rows' \intersect marked
  BY ShownTyped DEF VInv
<1>2. 2..Len(view') = {} /\ 1..Len(view') = {1} BY <1>1
<1> QED BY <1>1, <1>2 DEF VInv, ProcessedNotesAreComplete

(* Whether the notes are processed only changes by Enrich.                 *)
LEMMA ViewKept ==
  ASSUME VInv, Typed', UNCHANGED <<list, rows, view>>, moved => moved',
         list \in OfNotes => marked \subseteq marked'
  PROVE  VInv'
BY DEF VInv, ProcessedNotesAreComplete

LEMMA NextKeepsView == VInv /\ [Next]_vars => VInv'
<1> SUFFICES ASSUME VInv, [Next]_vars PROVE VInv' OBVIOUS
<1>0. Typed /\ Typed' BY NextTyped DEF VInv
<1>1. CASE UNCHANGED vars
  BY <1>0, <1>1, ViewKept DEF vars, db, shown
<1>2. CASE \E i \in Items : Write(i) \/ Enrich(i) \/ SetActionStatus(i)
  <2>1. PICK i \in Items : Write(i) \/ Enrich(i) \/ SetActionStatus(i) BY <1>2
  <2>2. UNCHANGED <<list, rows, view, moved>>
    BY <2>1 DEF Write, Enrich, SetActionStatus, Touched, shown
  <2>3. list \in OfNotes => marked \subseteq marked'
    BY <2>1 DEF Write, Enrich, SetActionStatus, OfNotes
  <2> QED BY <1>0, <2>2, <2>3, ViewKept
<1>3. CASE \E l \in Limits : Ask(l)
  <2>1. PICK l \in Limits : Ask(l) BY <1>3
  <2>2. ShownOf(Top(Asked, l + 1), l) BY <1>0, <2>1, AskPage
  <2>3. Top(Asked, l + 1) \subseteq Items BY TopType, AskedType
  <2>4. UNCHANGED <<list, marked>> BY <2>1 DEF Ask, db
  <2> QED BY <1>0, <2>2, <2>3, <2>4, FirstView
<1>4. CASE \/ \E l \in Limits : AskToday(l)
           \/ \E i \in Items : AskNote(i)
           \/ AskPerson \/ AskTicket
  <2>1. PICK S, l : S \subseteq Items /\ ShownOf(S, l)
    <3>1. /\ Passing("all") \subseteq Items /\ Passing("marked") \subseteq Items
          /\ \A n : ListTodayNotes(n) \subseteq Items
          /\ \A i : NoteDetail(i) \subseteq Items
      BY TopType DEF Passing, ListTodayNotes, NoteDetail
    <3> QED BY <1>4, <3>1 DEF AskToday, AskNote, AskPerson, AskTicket,
         GetPersonWorkspaceProfile, GetTicketWorkspaceProfile
  <2>2. UNCHANGED <<list, marked>> BY <1>4 DEF AskToday, AskNote, AskPerson, AskTicket, db
  <2> QED BY <1>0, <2>1, <2>2, FirstView
<1>5. CASE Reads BY <1>5, ReadKeepsView
<1>6. CASE Refused \/ SwitchFilter \/ MergePerson \/ Respond
  <2>1. UNCHANGED <<list, rows, view, marked>> /\ (moved => moved')
    BY <1>6 DEF Refused, SwitchFilter, MergePerson, Respond, db, shown
  <2> QED BY <1>0, <2>1, ViewKept
<1> QED BY <1>1, <1>2, <1>3, <1>4, <1>5, <1>6, Zenon DEF Next, Reads

(* No statement of a page of notes misses what one before it saw.          *)
THEOREM PagesAreComplete == Spec => []ProcessedNotesAreComplete
<1>1. Init => VInv
  <2> SUFFICES ASSUME Init PROVE VInv OBVIOUS
  <2>1. Len(view) = 0 BY DEF Init
  <2>2. 1..Len(view) = {} /\ 2..Len(view) = {} BY <2>1
  <2> QED BY <2>2, InitTyped DEF VInv, ProcessedNotesAreComplete
<1>2. VInv => ProcessedNotesAreComplete BY DEF VInv
<1> QED BY <1>1, <1>2, NextKeepsView, PTL DEF Spec
-----------------------------------------------------------------------------
(* What was delivered of a row, the page being read included, is told by   *)
(* the cursor alone: once if it is not after the cursor, and then, when no *)
(* cursor is left, once if it passes the filter.  A cursor without its     *)
(* page, or a count without a cursor, would not part the rows: so none is  *)
(* left when the list is done, and nothing is counted when it begins.      *)
OwnTimes == Offset = 0 \/ list # "summaries"

Got(i) == seen[i] + IF pc = "reading" /\ i \in rows THEN 1 ELSE 0
Once(b) == IF b THEN 1 ELSE 0
Behind(c, i) == i \in Passing(c.filter) /\ i \notin After(c, Passing(c.filter))

Begins == pc = "ready" /\ cursor = NoCursor => \A i \in Items : seen[i] = 0
Goes == /\ pc = "reading" => (more => cursor # NoCursor) /\ (~more => cursor = NoCursor)
        /\ pc = "done" => cursor = NoCursor
Pages == ~mixed /\ cursor # NoCursor => \A i \in still : Got(i) = Once(Behind(cursor, i))
Ends == ~mixed /\ cursor = NoCursor /\ pc # "ready" =>
          \A i \in still : Got(i) = Once(i \in Passing(filter))

PInv == /\ Typed
        /\ OwnTimes /\ list \in Paged => Begins /\ Goes /\ Pages /\ Ends

(* A cursor made of a row has behind it what the row is not before.        *)
LEMMA CursorParts ==
  ASSUME Typed, NEW m \in Items, NEW i \in Items, NEW f \in Filters,
         NEW c, c = [at |-> at[m], item |-> m, filter |-> f]
  PROVE  /\ c # NoCursor
         /\ Behind(c, i) <=> i \in Passing(f) /\ ~Before(m, i)
<1>1. Timed BY TypedIsTimed DEF Typed
<1>2. c \in [at : Nat, item : Nat, filter : {"all", "marked"}]
  BY <1>1, ReadsAssumption DEF Timed, Filters
<1>3. c # NoCursor BY <1>2, ReadsAssumption
<1>4. c.at = at[m] /\ c.item = m /\ c.filter = f OBVIOUS
<1>5. i \in After(c, Passing(f)) <=> i \in Passing(f) /\ Before(m, i)
  <2>1. at[i] \in Nat /\ at[m] \in Nat /\ i \in Nat /\ m \in Nat
    BY <1>1, ReadsAssumption DEF Timed
  <2> QED BY <1>3, <1>4, <2>1 DEF After, Before
<1> QED BY <1>3, <1>4, <1>5 DEF Behind

(* What a row after the cursor comes before is after the cursor too.       *)
LEMMA AfterGoesOn ==
  ASSUME Typed, NEW m \in Asked, NEW i \in Passing(filter), Before(m, i)
  PROVE  i \in Asked
<1>1. Timed /\ m \in Items /\ i \in Items BY TypedIsTimed, AskedType DEF Typed, Passing
<1>2. CASE cursor = NoCursor BY <1>2 DEF Asked, After
<1>3. CASE cursor # NoCursor
  <2>1. cursor.at \in Nat /\ cursor.item \in Nat
    BY <1>3, TimesAreNats, ReadsAssumption DEF Typed, TypeOK
  <2>2. at[i] \in Nat /\ at[m] \in Nat /\ i \in Nat /\ m \in Nat
    BY <1>1, ReadsAssumption DEF Timed
  <2> QED BY <1>3, <2>1, <2>2 DEF Asked, After, Before
<1> QED BY <1>2, <1>3

LEMMA AskDelivers ==
  ASSUME PInv, OwnTimes, NEW l, Ask(l)
  PROVE  PInv'
<1>1. /\ pc = "ready" /\ list \in Paged /\ UNCHANGED <<list, db, filter, seen>>
      /\ still' = IF cursor = NoCursor THEN Items ELSE still
      /\ ~mixed' => ~mixed /\ (cursor # NoCursor => cursor.filter = filter)
  BY DEF Ask, SameFilter, PInv, Typed, TypeOK
<1>2. Typed /\ Typed' BY AskTyped DEF PInv
<1>3. pc' = "reading" BY AskPage DEF PInv, ShownOf
<1>4. /\ Begins /\ Pages /\ Timed /\ still \subseteq Items /\ seen \in [Items -> Nat]
      /\ filter \in Filters
  BY <1>1, <1>2, TypedIsTimed DEF PInv, Typed, TypeOK
<1>5. ASSUME ~mixed', NEW i \in still'
      PROVE  /\ i \in Items
             /\ seen[i] = Once(i \in Passing(filter) /\ i \notin Asked)
  <2>1. CASE cursor = NoCursor
    <3>1. seen[i] = 0 /\ i \in Items BY <1>1, <1>4, <1>5, <2>1 DEF Begins
    <3>2. Asked = Passing(filter) BY <2>1 DEF Asked, After
    <3> QED BY <3>1, <3>2 DEF Once
  <2>2. CASE cursor # NoCursor
    <3>1. Got(i) = Once(Behind(cursor, i)) /\ i \in Items
      BY <1>1, <1>4, <1>5, <2>2 DEF Pages
    <3>2. Got(i) = seen[i] BY <1>1, <1>4, <3>1 DEF Got
    <3>3. Behind(cursor, i) <=> i \in Passing(filter) /\ i \notin Asked
      BY <1>1, <1>5, <2>2 DEF Behind, Asked
    <3> QED BY <3>1, <3>2, <3>3 DEF Once
  <2> QED BY <2>1, <2>2
<1>6. rows' \subseteq Asked /\ Asked \subseteq Passing(filter)
  BY <1>2, AskPage DEF Asked, After
<1>7. ASSUME ~mixed', NEW i \in still'
      PROVE  Got(i)' = Once(i \in Passing(filter) /\ (i \notin Asked \/ i \in rows'))
  <2>1. Got(i)' = seen[i] + IF i \in rows' THEN 1 ELSE 0 BY <1>1, <1>3 DEF Got
  <2>2. CASE i \in rows' BY <1>5, <1>6, <1>7, <2>1, <2>2 DEF Once
  <2>3. CASE i \notin rows' BY <1>5, <1>7, <2>1, <2>3 DEF Once
  <2> QED BY <2>2, <2>3
<1>8. CASE ~more'
  <2>1. cursor' = NoCursor /\ rows' = Asked BY <1>2, <1>8, AskPage
  <2>2. ASSUME ~mixed', NEW i \in still' PROVE Got(i)' = Once(i \in Passing(filter))'
    <3>1. i \in Passing(filter) /\ (i \notin Asked \/ i \in rows') <=> i \in Passing(filter)
      BY <2>1
    <3>2. Passing(filter)' = Passing(filter) BY <1>1 DEF db, Passing
    <3> QED BY <1>7, <2>2, <3>1, <3>2 DEF Once
  <2> QED BY <1>2, <1>3, <1>8, <2>1, <2>2 DEF PInv, Begins, Goes, Pages, Ends
<1>9. CASE more'
  <2>1. PICK m \in rows' :
          /\ cursor' = [at |-> CursorTime(m), item |-> m, filter |-> filter]
          /\ \A i \in Asked : i \in rows' <=> ~Before(m, i)
    BY <1>2, <1>9, AskPage
  <2>2. m \in Items /\ at[m] # 0 BY <1>6 DEF Passing
  <2>3. CursorTime(m) = at[m] BY <1>2, <2>2, CursorIsTime DEF OwnTimes
  <2>4. cursor' # NoCursor BY <1>2, <1>4, <2>1, <2>2, <2>3, CursorParts
  <2>5. ASSUME ~mixed', NEW i \in still' PROVE Got(i)' = Once(Behind(cursor, i))'
    <3>1. i \in Items BY <1>5, <2>5
    <3>2. Behind(cursor', i) <=> i \in Passing(filter) /\ ~Before(m, i)
      BY <1>2, <1>4, <2>1, <2>2, <2>3, <3>1, CursorParts
    <3>3. i \in Passing(filter) /\ Before(m, i) => i \in Asked
      BY <1>2, <1>6, AfterGoesOn
    <3>4. i \in Passing(filter) /\ (i \notin Asked \/ i \in rows') <=> Behind(cursor', i)
      BY <1>6, <2>1, <3>2, <3>3
    <3>5. Behind(cursor, i)' <=> Behind(cursor', i)
      BY <1>1 DEF db, Behind, Passing, After
    <3> QED BY <1>7, <2>5, <3>4, <3>5 DEF Once
  <2> QED BY <1>2, <1>3, <1>9, <2>4, <2>5 DEF PInv, Begins, Goes, Pages, Ends
<1> QED BY <1>8, <1>9

(* A write touches one row, which is not told any more.                    *)
LEMMA WriteDelivers ==
  ASSUME PInv, NEW i \in Items, Write(i) \/ Enrich(i) \/ SetActionStatus(i)
  PROVE  PInv'
<1>1. /\ still' = still \ {i} /\ UNCHANGED <<list, pc, client, shown>>
      /\ \A j \in Items \ {i} : at'[j] = at[j] /\ (j \in marked' <=> j \in marked)
  <2>1. CASE Write(i)
    <3>1. at \in [Items -> Times] BY DEF PInv, Typed, TypeOK
    <3>2. PICK t : at' = [at EXCEPT ![i] = t] BY <2>1 DEF Write
    <3>3. marked' \in {marked, marked \ {i}, marked \union {i}} BY <2>1 DEF Write
    <3> QED BY <2>1, <3>1, <3>2, <3>3 DEF Write, Touched
  <2>2. CASE Enrich(i) BY <2>2 DEF Enrich, Touched
  <2>3. CASE SetActionStatus(i) BY <2>3 DEF SetActionStatus, Touched
  <2> QED BY <2>1, <2>2, <2>3
<1>2. Typed' BY WriteTyped, RowWritesTyped DEF PInv
<1>3. still' \subseteq Items \ {i} BY <1>1 DEF PInv, Typed, TypeOK
<1>4. ASSUME NEW j \in still'
      PROVE  /\ Got(j)' = Got(j)
             /\ Once(Behind(cursor, j))' = Once(Behind(cursor, j))
             /\ Once(j \in Passing(filter))' = Once(j \in Passing(filter))
  <2>1. at'[j] = at[j] /\ (j \in marked' <=> j \in marked) BY <1>1, <1>3
  <2>2. Got(j)' = Got(j) BY <1>1 DEF Got, client, shown
  <2>3. \A f : j \in Passing(f)' <=> j \in Passing(f) BY <2>1 DEF Passing
  <2>4. \A S, T : (j \in S <=> j \in T) => (j \in After(cursor, S)' <=> j \in After(cursor, T))
    BY <1>1, <2>1 DEF After, client
  <2>5. Behind(cursor, j)' <=> Behind(cursor, j)
    BY <1>1, <2>3, <2>4 DEF Behind, client
  <2>6. (j \in Passing(filter))' <=> j \in Passing(filter) BY <1>1, <2>3 DEF client
  <2> QED BY <2>2, <2>5, <2>6 DEF Once
<1>5. (Begins /\ Goes)' <=> Begins /\ Goes BY <1>1 DEF Begins, Goes, client
<1>6. Pages => Pages' BY <1>1, <1>4 DEF Pages, client
<1>7. Ends => Ends' BY <1>1, <1>4 DEF Ends, client
<1> QED BY <1>1, <1>2, <1>5, <1>6, <1>7 DEF PInv, OwnTimes

LEMMA RespondDelivers ==
  ASSUME PInv, OwnTimes, list \in Paged, Respond
  PROVE  PInv'
<1>1. /\ pc = "reading" /\ pc' = (IF more THEN "ready" ELSE "done")
      /\ seen' = [i \in Items |-> seen[i] + IF i \in rows THEN 1 ELSE 0]
      /\ UNCHANGED <<list, db, filter, cursor, more, shown, still, mixed>>
  BY DEF Respond
<1>2. Typed' BY ClientTyped DEF PInv
<1>3. Begins /\ Goes /\ Pages /\ Ends /\ still \subseteq Items /\ seen \in [Items -> Nat]
  BY DEF PInv, Typed, TypeOK
<1>4. ASSUME NEW i \in still PROVE Got(i)' = Got(i)
  <2>1. seen'[i] = Got(i) /\ seen'[i] \in Nat BY <1>1, <1>3 DEF Got
  <2>2. pc' # "reading" BY <1>1
  <2> QED BY <2>1, <2>2 DEF Got
<1>5. /\ \A i : Behind(cursor, i)' <=> Behind(cursor, i)
      /\ Passing(filter)' = Passing(filter)
  BY <1>1 DEF db, Behind, Passing, After
<1>6. Begins' /\ Goes' BY <1>1, <1>3 DEF Begins, Goes
<1>7. Pages' BY <1>1, <1>3, <1>4, <1>5 DEF Pages, Once
<1>8. Ends' BY <1>1, <1>3, <1>4, <1>5 DEF Ends, Once
<1> QED BY <1>2, <1>6, <1>7, <1>8 DEF PInv

LEMMA NextDelivers == PInv /\ [Next]_vars => PInv'
<1> SUFFICES ASSUME PInv, [Next]_vars PROVE PInv' OBVIOUS
<1>1. Typed /\ Typed' BY NextTyped DEF PInv
<1>2. CASE \E i \in Items : Write(i) \/ Enrich(i) \/ SetActionStatus(i)
  BY <1>2, WriteDelivers
<1>3. list' = list
  BY DEF Next, vars, db, client, shown, Write, Enrich, SetActionStatus, Touched, AskNote, Ask,
         AskToday, Refused, SwitchFilter, AskPerson, AskTicket, MergePerson, Read,
         OpenActionsForPerson, RecentDecisionsForPerson, RecentNotesForPerson, NoteCounts,
         HighlightsForNotes, EntitiesForNotes, ActionsForNote, DecisionsForNote,
         OpenActionsForTicket, RecentDecisionsForTicket, RecentNotesForTicket,
         PeopleForNotes, Respond
<1>4. CASE ~(OwnTimes /\ list \in Paged) BY <1>1, <1>3, <1>4 DEF PInv, OwnTimes
<1>5. ASSUME OwnTimes, list \in Paged, UNCHANGED <<list, db, pc, client, rows, still>>
      PROVE  PInv'
  <2>1. Begins' /\ Goes' BY <1>5 DEF PInv, Begins, Goes, client
  <2>2. Pages'
    BY <1>5 DEF PInv, Pages, Got, Once, Behind, After, Passing, db, client
  <2>3. Ends' BY <1>5 DEF PInv, Ends, Got, Once, Passing, db, client
  <2> QED BY <1>1, <2>1, <2>2, <2>3 DEF PInv
<1> SUFFICES ASSUME OwnTimes, list \in Paged PROVE PInv' BY <1>4
<1>6. CASE UNCHANGED vars BY <1>5, <1>6 DEF vars, shown
<1>7. CASE \E l \in Limits : Ask(l) BY <1>7, AskDelivers
<1>8. CASE \/ \E l \in Limits : AskToday(l)
           \/ \E i \in Items : AskNote(i)
           \/ AskPerson \/ AskTicket \/ MergePerson
  BY <1>8 DEF AskToday, AskNote, AskPerson, AskTicket, MergePerson, Paged
<1>9. CASE Reads BY <1>5, <1>9, OneRead DEF Read
<1>10. CASE Refused
  <2>1. Begins' BY <1>10 DEF Refused, Begins
  <2>2. Goes' /\ Pages' /\ Ends' BY <1>10 DEF Refused, Goes, Pages, Ends
  <2> QED BY <1>1, <2>1, <2>2 DEF PInv
<1>11. CASE SwitchFilter
  <2>1. /\ pc = "ready" /\ cursor # NoCursor /\ UNCHANGED <<pc, cursor, seen, still, mixed, rows, db>>
    BY <1>11 DEF SwitchFilter, shown
  <2>2. Begins' /\ Goes' /\ Ends' BY <2>1 DEF Begins, Goes, Ends
  <2>3. Pages' BY <2>1 DEF PInv, Pages, Got, Once, Behind, After, Passing, db
  <2> QED BY <1>1, <2>2, <2>3 DEF PInv
<1>12. CASE Respond BY <1>12, RespondDelivers
<1> QED
  BY <1>2, <1>6, <1>7, <1>8, <1>9, <1>10, <1>11, <1>12, Zenon DEF Next, Reads

(* A client that reads a list to its end gets each untouched row that      *)
(* passes its filter, and gets it once; the summaries, where the user's    *)
(* midnight is that of UTC.                                                *)
THEOREM RowsAreDelivered == Spec => [](OwnTimes => DeliveredOnce)
<1>1. Init => PInv
  <2> SUFFICES ASSUME Init PROVE PInv OBVIOUS
  <2>1. Begins /\ Goes /\ Pages /\ Ends BY DEF Init, Begins, Goes, Pages, Ends
  <2> QED BY <2>1, InitTyped DEF PInv
<1>2. PInv => (OwnTimes => DeliveredOnce)
  <2> SUFFICES ASSUME PInv, OwnTimes, pc = "done", list \in Paged, ~mixed, NEW i \in still
               PROVE  seen[i] = IF i \in Passing(filter) THEN 1 ELSE 0
    BY DEF DeliveredOnce
  <2>1. cursor = NoCursor BY DEF PInv, Goes
  <2>2. Got(i) = Once(i \in Passing(filter)) BY <2>1 DEF PInv, Ends
  <2>3. Got(i) = seen[i] BY DEF Got, PInv, Typed, TypeOK
  <2> QED BY <2>2, <2>3 DEF Once
<1> QED BY <1>1, <1>2, NextDelivers, PTL DEF Spec
=============================================================================
