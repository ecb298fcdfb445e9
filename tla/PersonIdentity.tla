---------------------------- MODULE PersonIdentity ----------------------------
(***************************************************************************)
(* The people of one user: rows of people and person_aliases, and the rows *)
(* that notes have on them, under concurrent transactions:                 *)
(*                                                                         *)
(*   - enrichments, SaveNoteEnrichmentResult with upsertPerson for every   *)
(*     name of the note, at READ COMMITTED                                 *)
(*   - edits, UpdatePersonProfile and MergePeople, at SERIALIZABLE: they   *)
(*     read the snapshot of their first statement, and fail if a row they  *)
(*     lock or write has changed since                                     *)
(*                                                                         *)
(* all of internal/adapters/store/store.go.  An edit locks people rows and *)
(* then the advisory locks of names, an enrichment locks names and then,   *)
(* by its foreign keys, shares people rows; PostgreSQL breaks a deadlock   *)
(* by failing one of its transactions.  What an edit writes is seen at its *)
(* commit, so its writes and the commit are one step.                      *)
(***************************************************************************)
EXTENDS Naturals, FiniteSets, Sequences, FiniteSetsExt

CONSTANTS
  Spellings,      \* names as written, numbers
  Norm,           \* NormalizePersonName; names are locked in its order
  Known,          \* the people at the start: a sequence of spellings
  MaxPeople,      \* bound: ids
  Enrichments,    \* notes being enriched
  Mentions,       \* the names in each, in the note's order
  OldNotes,       \* other notes, with rows on all the known people
  Edits,          \* calls of UpdatePersonProfile and MergePeople
  AliasCountMax,  \* personAliasCountMax
  MaxHops         \* how far the chain of tombstones is followed

Ids == 1..MaxPeople
Notes == Enrichments \union OldNotes
Norms == {Norm[s] : s \in Spellings}

ASSUME PeopleAssumption ==
  /\ Spellings \subseteq Nat \ {0} /\ Norm \in [Spellings -> Nat \ {0}]
  /\ Known \in Seq(Spellings) /\ Len(Known) <= MaxPeople
  /\ \A i, j \in DOMAIN Known : Norm[Known[i]] = Norm[Known[j]] => i = j
  /\ Mentions \in [Enrichments -> Seq(Spellings)]
  /\ Enrichments \intersect OldNotes = {} /\ Enrichments \intersect Edits = {}
  /\ MaxPeople \in Nat /\ MaxHops \in Nat /\ AliasCountMax \in Nat
  /\ IsFiniteSet(Edits)

None == 0
NoRow == [name |-> None, merged |-> None, version |-> 0]
NotSet == {None}   \* the aliases are not in the request

VARIABLES
  people,   \* rows: the name, merged_into_person_id, updated_at as a version
  aliases,  \* the owner of each normalized alias
  links,    \* people_notes, actions and decisions of a note: person, save
  meant,    \* the people that the names of a note stood for when it was saved
  enrich,   \* the transactions of enrichments
  edit      \* those of edits

vars == <<people, aliases, links, meant, enrich, edit>>

Exists(tab, p) == p # None /\ tab[p].name # None
Active(tab, p) == Exists(tab, p) /\ tab[p].merged = None

(* A transaction of an enrichment: the next name, the stage in it, what it *)
(* has locked, the people it found and made and the aliases it inserted.   *)
Fresh == [pc |-> "idle", next |-> 1, found |-> None, norms |-> {}, shares |-> {},
          made |-> {}, given |-> {}, rows |-> {}]
NoSnapshot == [people |-> <<>>, aliases |-> <<>>, links |-> <<>>]
Unsent == [pc |-> "idle", kind |-> "none", person |-> None, source |-> None,
           name |-> None, aliases |-> NotSet, rows |-> {}, norms |-> {},
           snap |-> NoSnapshot, reply |-> "none"]

(* Every known person has a name of its own, though rows from before       *)
(* migration 015 may share one: what follows is about names given since.   *)
(* An old alias can be missing (migration 004 normalised apostrophes       *)
(* otherwise than migration 015).                                          *)
Init ==
  /\ people = [p \in Ids |-> IF p \in DOMAIN Known
                 THEN [name |-> Known[p], merged |-> None, version |-> 0] ELSE NoRow]
  /\ \E missing \in SUBSET DOMAIN Known : aliases = [n \in Norms |->
       IF \E p \in DOMAIN Known \ missing : Norm[Known[p]] = n
       THEN CHOOSE p \in DOMAIN Known : Norm[Known[p]] = n ELSE None]
  /\ links = [n \in Notes |-> IF n \in OldNotes
                THEN {[person |-> p, save |-> 0] : p \in DOMAIN Known} ELSE {}]
  /\ meant = [n \in Notes |-> IF n \in OldNotes THEN DOMAIN Known ELSE {}]
  /\ enrich = [e \in Enrichments |-> Fresh]
  /\ edit = [d \in Edits |-> Unsent]

-----------------------------------------------------------------------------
(* Locks.                                                                  *)
NameHolders(n) == {e \in Enrichments : n \in enrich[e].norms}
                    \union {d \in Edits : n \in edit[d].norms}
RowLockers(p) == {d \in Edits : p \in edit[d].rows}
RowSharers(p) == {e \in Enrichments : p \in enrich[e].shares}

(* The tombstones from a person on, to the one that is none.               *)
Canonical(tab, p) ==
  LET up[k \in 0..MaxHops] == IF k = 0 THEN p ELSE
        LET q == up[k - 1] IN IF tab[q].merged = None THEN q ELSE tab[q].merged
  IN  up[MaxHops]

-----------------------------------------------------------------------------
(* Enrichments.                                                            *)
SetEnrich(e, r) == enrich' = [enrich EXCEPT ![e] = r]
Mentioned(e) == Mentions[e][enrich[e].next]

(* The transaction begins and deletes the note's rows.                     *)
EnrichBegin(e) ==
  /\ enrich[e].pc = "idle"
  /\ SetEnrich(e, [Fresh EXCEPT !.pc = IF Mentions[e] = <<>> THEN "commit" ELSE "name"])
  /\ UNCHANGED <<people, aliases, links, meant, edit>>

(* The lock of a name, held to the end of the transaction.                 *)
LockAnyName(e) == enrich[e].pc = "name"
LockName(e) ==
  /\ enrich[e].pc = "name"
  /\ NameHolders(Norm[Mentioned(e)]) \subseteq {e}
WithName(e) == [enrich[e] EXCEPT !.norms = @ \union {Norm[Mentioned(e)]}]

(* Who the alias belongs to, in what is committed or its own.              *)
OwnAlias(e, n) == {g \in enrich[e].given : g.norm = n}
AliasOwner(e, n) == IF OwnAlias(e, n) # {} THEN (CHOOSE g \in OwnAlias(e, n) : TRUE).person
  ELSE IF aliases[n] # None THEN Canonical(people, aliases[n]) ELSE None
ByName(n) == {p \in Ids : Active(people, p) /\ Norm[people[p].name] = n}
Unused == {p \in Ids : ~Exists(people, p)
             /\ \A e \in Enrichments : \A m \in enrich[e].made : m.person # p}

(* upsertPerson: the alias's owner; else the person of that name, who gets *)
(* the alias; else a new person and alias.                                 *)
ResolveByAlias(e) ==
  LET n == Norm[Mentioned(e)] IN
  /\ LockName(e) /\ AliasOwner(e, n) # None
  /\ SetEnrich(e, [WithName(e) EXCEPT !.pc = "link", !.found = AliasOwner(e, n)])
  /\ UNCHANGED <<people, aliases, links, meant, edit>>

ResolveByName(e) ==
  LET n == Norm[Mentioned(e)] p == Min(ByName(n)) IN
  /\ LockName(e) /\ AliasOwner(e, n) = None
  /\ ByName(n) # {} /\ RowLockers(p) = {}
  /\ SetEnrich(e, [WithName(e) EXCEPT !.pc = "link", !.found = p, !.shares = @ \union {p},
       !.given = @ \union {[norm |-> n, person |-> p]}])
  /\ UNCHANGED <<people, aliases, links, meant, edit>>

NameTaken(s, own) == \E p \in Ids \ own : Exists(people, p) /\ people[p].name = s

CreatePerson(e) ==
  LET n == Norm[Mentioned(e)] IN
  /\ LockName(e) /\ AliasOwner(e, n) = None /\ ByName(n) = {}
  /\ ~NameTaken(Mentioned(e), {})
  /\ Unused # {}
  /\ SetEnrich(e, [WithName(e) EXCEPT !.pc = "link", !.found = Min(Unused),
       !.made = @ \union {[person |-> Min(Unused), name |-> Mentioned(e)]},
       !.given = @ \union {[norm |-> n, person |-> Min(Unused)]}])
  /\ UNCHANGED <<people, aliases, links, meant, edit>>

(* The note's row on the person, whose row the foreign key shares.         *)
LinkPerson(e) ==
  LET p == enrich[e].found IN
  /\ enrich[e].pc = "link" /\ RowLockers(p) = {}
  /\ SetEnrich(e, [enrich[e] EXCEPT !.shares = @ \union {p}, !.rows = @ \union {p},
       !.next = @ + 1, !.found = None,
       !.pc = IF enrich[e].next = Len(Mentions[e]) THEN "commit" ELSE "name"])
  /\ UNCHANGED <<people, aliases, links, meant, edit>>

EnrichCommit(e) ==
  LET t == enrich[e] IN
  /\ t.pc = "commit"
  /\ people' = [p \in Ids |-> IF \E m \in t.made : m.person = p
       THEN [NoRow EXCEPT !.name = (CHOOSE m \in t.made : m.person = p).name] ELSE people[p]]
  /\ aliases' = [n \in Norms |-> IF OwnAlias(e, n) # {} /\ aliases[n] = None
       THEN AliasOwner(e, n) ELSE aliases[n]]
  /\ links' = [links EXCEPT ![e] = {[person |-> p, save |-> 1] : p \in t.rows}]
  /\ meant' = [meant EXCEPT ![e] = t.rows]
  /\ SetEnrich(e, [Fresh EXCEPT !.pc = "done"])
  /\ UNCHANGED edit

(* The claim is lost, a statement fails (the name of a new person is that  *)
(* of a tombstone, say), or the process ends; another attempt follows.     *)
EnrichRollback(e) ==
  /\ enrich[e].pc \notin {"idle", "done"}
  /\ SetEnrich(e, Fresh)
  /\ UNCHANGED <<people, aliases, links, meant, edit>>
-----------------------------------------------------------------------------
(* Edits.                                                                  *)
SetEdit(d, r) == edit' = [edit EXCEPT ![d] = r]
Answered(d, reply) == SetEdit(d, IF reply = "ok" /\ edit[d].kind = "merge"
  THEN [Unsent EXCEPT !.pc = "done", !.kind = edit[d].kind, !.person = edit[d].person,
                      !.source = edit[d].source, !.reply = reply]
  ELSE [Unsent EXCEPT !.pc = "done", !.reply = reply])
EditOnly == UNCHANGED <<people, aliases, links, meant, enrich>>

(* What validatePersonProfileUpdate and MergePeople of the service let by. *)
AliasSets == {NotSet} \union {A \in SUBSET Spellings : Cardinality(A) <= AliasCountMax}
Updates == [name : Spellings \union {None}, aliases : AliasSets]
Snapshot == [people |-> people, aliases |-> aliases, links |-> links]

(* The first statement; a request for a missing person ends there, as does *)
(* one that expected another updated_at.                                   *)
UpdateBegin(d) ==
  /\ edit[d].pc = "idle"
  /\ \E p \in Ids, u \in Updates :
       /\ Active(people, p)
       /\ SetEdit(d, [Unsent EXCEPT !.pc = "rows", !.kind = "update", !.person = p,
            !.name = u.name, !.aliases = u.aliases, !.snap = Snapshot])
  /\ EditOnly

(* profile_resolution: the display name of the primary or of the source.   *)
Resolutions(p, q) == {people[p].name, people[q].name}
MergeBegin(d) ==
  /\ edit[d].pc = "idle"
  /\ \E p \in Ids : \E q \in Ids \ {p} : \E s \in Resolutions(p, q) :
       /\ Exists(people, p) /\ Exists(people, q)
       /\ SetEdit(d, [Unsent EXCEPT !.pc = "rows", !.kind = "merge", !.person = p,
            !.source = q, !.name = s, !.snap = Snapshot])
  /\ EditOnly

RowsOf(d) == {edit[d].person, edit[d].source} \ {None}
PrimaryFirst(d) == IF edit[d].rows = {} THEN edit[d].person ELSE edit[d].source
NextRow(d) == Min(RowsOf(d) \ edit[d].rows)

(* A merge that is done already is answered so; tombstones are not edited. *)
AlreadyMerged(d) == edit[d].kind = "merge"
  /\ people[edit[d].source].merged = edit[d].person
SourceActive(d) == \A p \in RowsOf(d) \ {edit[d].person} : Active(people, p)
BothActive(d) == \A p \in RowsOf(d) : Active(people, p)

(* FOR UPDATE, in the order of the ids; a row that has changed since the   *)
(* snapshot fails the transaction.                                         *)
LockRow(d) ==
  LET p == NextRow(d) locked == edit[d].rows \union {p} IN
  /\ edit[d].pc = "rows"
  /\ RowLockers(p) = {} /\ RowSharers(p) = {}
  /\ people[p] = edit[d].snap.people[p]
  /\ IF locked # RowsOf(d) THEN SetEdit(d, [edit[d] EXCEPT !.rows = locked])
     ELSE IF AlreadyMerged(d) THEN Answered(d, "ok")
     ELSE IF BothActive(d) THEN SetEdit(d, [edit[d] EXCEPT !.rows = locked, !.pc = "names"])
     ELSE Answered(d, "conflict")
  /\ EditOnly

(* The names that the person will have, their own and each display name,   *)
(* old and new, included.                                                  *)
NewName(d) == IF edit[d].name = None THEN edit[d].snap.people[edit[d].person].name
              ELSE edit[d].name
DisplayNames(d) == {Norm[NewName(d)]} \union
  {Norm[edit[d].snap.people[p].name] : p \in RowsOf(d)}
OwnAliases(d) == {n \in Norms : edit[d].snap.aliases[n] \in RowsOf(d)}
NewNorms(d) == DisplayNames(d) \union
  (IF edit[d].aliases = NotSet THEN OwnAliases(d) ELSE {Norm[a] : a \in edit[d].aliases})

(* Someone else has one of the names, as the snapshot has it.              *)
AliasConflict(d) == \E n \in NewNorms(d) :
  LET o == edit[d].snap.aliases[n] IN o \notin RowsOf(d) /\ Active(edit[d].snap.people, o)
NameConflict(d) == \E p \in Ids \ RowsOf(d) :
  Active(edit[d].snap.people, p) /\ Norm[edit[d].snap.people[p].name] \in NewNorms(d)
Conflict(d) == AliasConflict(d) \/ NameConflict(d)

(* The locks of the names, in their order, and then the check.             *)
LockNorm(d) ==
  LET n == Min(NewNorms(d) \ edit[d].norms) held == edit[d].norms \union {n} IN
  /\ edit[d].pc = "names"
  /\ NameHolders(n) = {}
  /\ IF held # NewNorms(d) THEN SetEdit(d, [edit[d] EXCEPT !.norms = held])
     ELSE IF Conflict(d) THEN Answered(d, "conflict")
     ELSE SetEdit(d, [edit[d] EXCEPT !.norms = held, !.pc = "write"])
  /\ EditOnly

(* The rows that a merge moves are those of its snapshot.                  *)
RowsSeen(d, n) == {l \in edit[d].snap.links[n] : l.person = edit[d].source}
MovedNowhere(d, n) == {}
Moved(d, n) == {[l EXCEPT !.person = edit[d].person] : l \in RowsSeen(d, n)}
LinksAfter(d) == [n \in Notes |-> (links[n] \ RowsSeen(d, n)) \union Moved(d, n)]

(* The aliases are rewritten by a merge, and by an update of them or of    *)
(* the display name.                                                       *)
WritesAliases(d) == edit[d].kind = "merge" \/ edit[d].aliases # NotSet \/ edit[d].name # None
AliasesAfter(d) == [n \in Norms |->
  IF n \in NewNorms(d) THEN edit[d].person
  ELSE IF n \in OwnAliases(d) THEN None ELSE aliases[n]]

(* What makes a write fail: an alias or a note's row that has changed      *)
(* since the snapshot, a display name that another row has.                *)
Changed(d) ==
  \/ WritesAliases(d) /\ \E n \in NewNorms(d) :
       aliases[n] # None /\ aliases[n] # edit[d].snap.aliases[n]
  \/ \E n \in Notes : ~(RowsSeen(d, n) \subseteq links[n])
  \/ NameTaken(NewName(d), {edit[d].person})

(* An enrichment that has deleted such a row is waited for.                *)
Deleting(d) == {e \in Enrichments :
  enrich[e].pc \notin {"idle", "done"} /\ RowsSeen(d, e) \intersect links[e] # {}}

PeopleAfter(d) == [p \in Ids |->
  IF p = edit[d].person THEN [people[p] EXCEPT !.name = NewName(d), !.version = @ + 1]
  ELSE IF p = edit[d].source THEN [people[p] EXCEPT !.merged = edit[d].person, !.version = @ + 1]
  ELSE people[p]]

EditCommit(d) ==
  /\ edit[d].pc = "write" /\ ~Changed(d) /\ Deleting(d) = {}
  /\ people' = PeopleAfter(d)
  /\ aliases' = IF WritesAliases(d) THEN AliasesAfter(d) ELSE aliases
  /\ links' = LinksAfter(d)
  /\ Answered(d, "ok")
  /\ UNCHANGED <<meant, enrich>>

(* A row has changed, a write fails, PostgreSQL fails the transaction, the *)
(* request ends.                                                           *)
EditRollback(d) ==
  /\ edit[d].pc \in {"rows", "names", "write"}
  /\ Answered(d, "failed")
  /\ EditOnly

Next ==
  \/ \E e \in Enrichments :
       \/ EnrichBegin(e) \/ ResolveByAlias(e) \/ ResolveByName(e)
       \/ CreatePerson(e) \/ LinkPerson(e) \/ EnrichCommit(e) \/ EnrichRollback(e)
  \/ \E d \in Edits :
       \/ UpdateBegin(d) \/ MergeBegin(d) \/ LockRow(d)
       \/ LockNorm(d) \/ EditCommit(d) \/ EditRollback(d)

Spec == Init /\ [][Next]_vars

-----------------------------------------------------------------------------
(* Rows have their types; no two transactions hold one name's lock, and a  *)
(* person's row that is locked for update is locked by that one alone.     *)
TypeOK ==
  /\ people \in [Ids -> [name : Spellings \union {None}, merged : Ids \union {None},
                         version : 0..Cardinality(Edits)]]
  /\ aliases \in [Norms -> Ids \union {None}]
  /\ links \in [Notes -> SUBSET [person : Ids, save : 0..1]]
  /\ meant \in [Notes -> SUBSET Ids]
  /\ \A n \in Norms : Cardinality(NameHolders(n)) <= 1
  /\ \A p \in Ids : Cardinality(RowLockers(p)) <= 1
       /\ (RowLockers(p) # {} => RowSharers(p) = {})

(* A name means one person: no two active people share one, what an alias  *)
(* names is active, and the name of an active person is no one else's      *)
(* alias.  The schema has no unique index for it, and edits decide on      *)
(* snapshots older than their locks.                                       *)
NamesIdentifyOnePerson ==
  /\ \A p, q \in Ids : Active(people, p) /\ Active(people, q)
       /\ Norm[people[p].name] = Norm[people[q].name] => p = q
  /\ \A n \in Norms : aliases[n] # None => Active(people, aliases[n])
  /\ \A p \in Ids : Active(people, p) => aliases[Norm[people[p].name]] \in {p, None}

(* A merge that was answered with success stays one: the source leads to   *)
(* the person that the primary leads to, an active one, however later      *)
(* merges of either are ordered.                                           *)
MergedForGood ==
  /\ \A p \in Ids : Exists(people, p) => Active(people, Canonical(people, p))
  /\ \A d \in Edits : edit[d].kind = "merge" /\ edit[d].reply = "ok" =>
       Canonical(people, edit[d].source) = Canonical(people, edit[d].person)

(* A merge sends the rows of a note after its people and loses none: the   *)
(* note is about the same people as when it was saved, up to merges.       *)
NotesKeepTheirPeople == \A n \in Notes :
  {Canonical(people, l.person) : l \in links[n]} = {Canonical(people, p) : p \in meant[n]}

(* Updates and merges alone never wait for each other in a circle: in any  *)
(* set of them one waits for none of the others.                           *)
WaitsFor(d) ==
  CASE edit[d].pc = "rows" -> RowLockers(NextRow(d))
    [] edit[d].pc = "names" -> NameHolders(Min(NewNorms(d) \ edit[d].norms))
    [] OTHER -> {}
EditsNeverDeadlock == \A S \in SUBSET Edits :
  S # {} => \E d \in S : WaitsFor(d) \intersect S = {}

(* What the API says of a merge: it reassigns the live records of the      *)
(* source, none of which stays on the tombstone.                           *)
LiveRecordsAreReassigned == \A n \in Notes : \A l \in links[n] :
  Active(people, l.person)

(* What the API says of removed aliases: every name still leads to a       *)
(* person, or to a new one.                                                *)
NamesStayResolvable == \A s \in Spellings :
  aliases[Norm[s]] = None /\ ByName(Norm[s]) = {} => ~NameTaken(s, {})
=============================================================================
