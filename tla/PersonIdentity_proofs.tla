----------------------- MODULE PersonIdentity_proofs -------------------------
(***************************************************************************)
(* Proofs about PersonIdentity, for any number of notes and edits.         *)
(*                                                                         *)
(*   - Base: types, and who holds which lock at which stage of a           *)
(*     transaction.  Edits lock rows, then names, each in order, so        *)
(*     EditsNeverDeadlock follows from it alone                            *)
(*   - Naming: what an edit's snapshot still says of the present, and what *)
(*     an enrichment may still assume of the names it has locked; with it  *)
(*     NamesIdentifyOnePerson is inductive                                 *)
(*   - Lasting: the tombstones in the order of their merges, from which    *)
(*     the chain of each ends; for MergedForGood and NotesKeepTheirPeople  *)
(***************************************************************************)
EXTENDS PersonIdentity, FiniteSetTheorems, TLAPS

LEMMA LeastNat ==
  ASSUME NEW T, T \subseteq Nat, T # {}
  PROVE  \E x \in T : \A y \in T : x <= y
<1> DEFINE R == {ss \in Nat \X Nat : ss[1] < ss[2]}
<1>1. PICK x \in T : \A y \in T : ~(<<y, x>> \in R)
  <2>1. IsWellFoundedOn(R, Nat) BY NatLessThanWellFounded, Zenon DEF OpToRel
  <2> HIDE DEF R
  <2> QED BY <2>1, WFMin
<1>2. ASSUME NEW y \in T PROVE x <= y
  <2>1. <<y, x>> \in Nat \X Nat => ~(<<y, x>>[1] < <<y, x>>[2]) BY <1>1 DEF R
  <2> QED BY <2>1
<1> QED BY <1>2

LEMMA LeastOf ==
  ASSUME NEW T, T \subseteq Nat, T # {}
  PROVE  Min(T) \in T /\ \A y \in T : Min(T) <= y
BY LeastNat DEF Min

(* One of the greatest of finitely many values.                            *)
LEMMA GreatestOf ==
  ASSUME NEW S, IsFiniteSet(S), S # {}, NEW w, \A c \in S : w[c] \in Nat
  PROVE  \E d \in S : \A c \in S : w[c] <= w[d]
<1> DEFINE Over(d) == {c \in S : w[c] > w[d]}
           T == {Cardinality(Over(d)) : d \in S}
<1>1. \A d \in S : IsFiniteSet(Over(d)) /\ Cardinality(Over(d)) \in Nat
  BY FS_Subset, FS_CardinalityType
<1>2. PICK d \in S : \A c \in S : Cardinality(Over(d)) <= Cardinality(Over(c))
  <2>1. T \subseteq Nat /\ T # {} BY <1>1
  <2>2. PICK r \in T : \A q \in T : r <= q BY <2>1, LeastNat
  <2> QED BY <2>2
<1>3. ASSUME NEW c \in S, w[c] > w[d] PROVE FALSE
  <2>1. Over(c) \subseteq Over(d) /\ c \in Over(d) /\ c \notin Over(c) BY <1>3
  <2>2. Cardinality(Over(c)) < Cardinality(Over(d))
    <3> HIDE DEF Over
    <3>1. Cardinality(Over(c)) <= Cardinality(Over(d)) /\ Cardinality(Over(c)) # Cardinality(Over(d))
      BY <1>1, <2>1, FS_Subset
    <3> QED BY <1>1, <3>1
  <2> HIDE DEF Over
  <2> QED BY <1>1, <1>2, <2>2
<1> QED BY <1>3

-----------------------------------------------------------------------------
(* The chain of tombstones stays among the people.                         *)
PersonRows == [name : Spellings \union {None}, merged : Ids \union {None}, version : Nat]
PeopleTables == [Ids -> PersonRows]

Step(tab, q) == IF tab[q].merged = None THEN q ELSE tab[q].merged
Chain(tab, p, f, n) ==
  f = [k \in 0..n |-> IF k = 0 THEN p ELSE Step(tab, f[k - 1])]

LEMMA ChainExists ==
  ASSUME NEW tab, NEW p, NEW n \in Nat
  PROVE  \E f : Chain(tab, p, f, n)
<1> DEFINE T == {m \in Nat : ~\E f : Chain(tab, p, f, m)}
<1> SUFFICES ASSUME T # {} PROVE FALSE OBVIOUS
<1>1. PICK m \in T : \A y \in T : m <= y BY LeastNat
<1>2. CASE m = 0
  <2>1. Chain(tab, p, [k \in 0..0 |-> p], 0) BY DEF Chain
  <2> QED BY <1>1, <1>2, <2>1
<1>3. CASE m # 0
  <2>1. m - 1 \in Nat /\ m - 1 \notin T BY <1>1, <1>3
  <2>2. PICK f : Chain(tab, p, f, m - 1) BY <2>1
  <2> DEFINE g == [k \in 0..m |-> IF k = m THEN Step(tab, f[m - 1]) ELSE f[k]]
  <2>3. ASSUME NEW k \in 0..m
        PROVE  g[k] = IF k = 0 THEN p ELSE Step(tab, g[k - 1])
    <3>1. CASE k = m
      <4>1. m - 1 \in 0..m /\ m - 1 # m BY <1>3
      <4> QED BY <1>3, <3>1, <4>1
    <3>2. CASE k # m
      <4>1. k \in 0..(m - 1) BY <3>2
      <4>2. f[k] = IF k = 0 THEN p ELSE Step(tab, f[k - 1]) BY <2>2, <4>1 DEF Chain
      <4>3. k # 0 => k - 1 \in 0..m /\ k - 1 # m BY <4>1
      <4> QED BY <3>2, <4>2, <4>3
    <3> QED BY <3>1, <3>2
  <2>4. Chain(tab, p, g, m)
    <3>1. [k \in 0..m |-> g[k]] = [k \in 0..m |-> IF k = 0 THEN p ELSE Step(tab, g[k - 1])]
      <4> HIDE DEF g
      <4> QED BY <2>3
    <3>2. g = [k \in 0..m |-> g[k]] OBVIOUS
    <3> HIDE DEF g
    <3> QED BY <3>1, <3>2 DEF Chain
  <2> QED BY <1>1, <2>4
<1> QED BY <1>2, <1>3

LEMMA CanonicalIsChain ==
  ASSUME NEW tab, NEW p
  PROVE  \E f : Chain(tab, p, f, MaxHops) /\ Canonical(tab, p) = f[MaxHops]
<1> DEFINE up == CHOOSE f : Chain(tab, p, f, MaxHops)
<1>1. Chain(tab, p, up, MaxHops) BY ChainExists, PeopleAssumption
<1>2. Canonical(tab, p) = up[MaxHops] BY Zenon DEF Canonical, Chain, Step
<1> QED BY <1>1, <1>2
LEMMA CanonicalType ==
  ASSUME NEW tab \in PeopleTables, NEW p \in Ids
  PROVE  Canonical(tab, p) \in Ids
<1>1. PICK f : Chain(tab, p, f, MaxHops) /\ Canonical(tab, p) = f[MaxHops]
  BY CanonicalIsChain
<1> DEFINE T == {k \in 0..MaxHops : f[k] \notin Ids}
<1>2. ASSUME T # {} PROVE FALSE
  <2>0. MaxHops \in Nat /\ T \subseteq Nat BY PeopleAssumption
  <2>1. PICK k \in T : \A j \in T : k <= j BY <1>2, <2>0, LeastNat
  <2>2. f[k] = IF k = 0 THEN p ELSE Step(tab, f[k - 1]) BY <1>1 DEF Chain
  <2>3. k # 0 BY <2>1, <2>2
  <2>4. k - 1 \in 0..MaxHops /\ k - 1 \notin T BY <2>0, <2>1, <2>3
  <2>5. f[k - 1] \in Ids BY <2>4
  <2> QED BY <2>1, <2>2, <2>3, <2>5 DEF Step, PeopleTables, PersonRows
<1> QED BY <1>1, <1>2, PeopleAssumption
-----------------------------------------------------------------------------
(* The tables and the transactions.                                        *)
AliasTables == [Norms -> Ids \union {None}]
Links == [person : Ids, save : 0..1]
LinkTables == [Notes -> SUBSET Links]
Snapshots == [people : PeopleTables, aliases : AliasTables, links : LinkTables]

EnrichRecords ==
  [pc : {"idle", "name", "link", "commit", "done"}, next : Nat, found : Ids \union {None},
   norms : SUBSET Norms, shares : SUBSET Ids, made : SUBSET [person : Ids, name : Spellings],
   given : SUBSET [norm : Norms, person : Ids], rows : SUBSET Ids]

EditRecords ==
  [pc : {"idle", "rows", "names", "write", "done"}, kind : {"none", "update", "merge"},
   person : Ids \union {None}, source : Ids \union {None}, name : Spellings \union {None},
   aliases : (SUBSET Spellings) \union {NotSet}, rows : SUBSET Ids, norms : SUBSET Norms,
   snap : Snapshots \union {NoSnapshot}, reply : {"none", "ok", "conflict", "failed"}]

(* An enrichment is at one of its names; an edit has a snapshot, in which  *)
(* its people are, and the name of one of them or a new one.               *)
AtName(e) ==
  /\ enrich[e].pc \in {"name", "link"} =>
       enrich[e].next \in DOMAIN Mentions[e] /\ Mentioned(e) \in Spellings
         /\ Norm[Mentioned(e)] \in Norms
  /\ enrich[e].pc = "link" => enrich[e].found \in Ids

Working(d) == edit[d].pc \in {"rows", "names", "write"}
Meant(d) ==
  Working(d) =>
    /\ edit[d].snap \in Snapshots
    /\ edit[d].person \in Ids /\ edit[d].source # edit[d].person
    /\ edit[d].kind = "merge" => edit[d].source \in Ids /\ edit[d].name \in Spellings
                                   /\ edit[d].aliases = NotSet
    /\ edit[d].kind = "update" => edit[d].source = None
    /\ edit[d].kind # "none"
    /\ \A p \in RowsOf(d) : Exists(edit[d].snap.people, p)

Tables == /\ people \in PeopleTables /\ aliases \in AliasTables
          /\ links \in LinkTables /\ meant \in [Notes -> SUBSET Ids]

Types == /\ Tables
         /\ enrich \in [Enrichments -> EnrichRecords]
         /\ edit \in [Edits -> EditRecords]
         /\ \A e \in Enrichments : AtName(e)
         /\ \A d \in Edits : Meant(d)

LEMMA NoneIsNoId == /\ None \notin Ids /\ None \notin Spellings /\ None \notin Norms
                    /\ Ids \subseteq Nat /\ Norms \subseteq Nat
                    /\ \A s \in Spellings : Norm[s] \in Norms
BY PeopleAssumption DEF None, Ids, Norms

LEMMA NormOfName ==
  ASSUME NEW tab \in PeopleTables, NEW p \in Ids, Exists(tab, p)
  PROVE  tab[p].name \in Spellings /\ Norm[tab[p].name] \in Norms
BY NoneIsNoId DEF Exists, PeopleTables, PersonRows

LEMMA UnsentIsRecord == Unsent \in EditRecords
BY DEF Unsent, EditRecords

LEMMA InitTypes == Init => Types
<1> SUFFICES ASSUME Init PROVE Types OBVIOUS
<1>1. Known \in Seq(Spellings) /\ DOMAIN Known \subseteq Ids
  <2>1. Known \in Seq(Spellings) /\ Len(Known) \in Nat /\ MaxPeople \in Nat
        /\ Len(Known) <= MaxPeople /\ DOMAIN Known = 1..Len(Known)
    BY PeopleAssumption
  <2> QED BY <2>1 DEF Ids
<1>2. people \in PeopleTables
  <2>1. \A p \in DOMAIN Known : Known[p] \in Spellings BY <1>1
  <2>2. NoRow \in PersonRows BY DEF NoRow, PersonRows
  <2>3. \A p \in DOMAIN Known : [name |-> Known[p], merged |-> None, version |-> 0] \in PersonRows
    BY <2>1 DEF PersonRows
  <2> QED BY <2>2, <2>3 DEF Init, PeopleTables
<1>3. aliases \in AliasTables
  <2>1. PICK missing \in SUBSET DOMAIN Known : aliases = [n \in Norms |->
       IF \E p \in DOMAIN Known \ missing : Norm[Known[p]] = n
       THEN CHOOSE p \in DOMAIN Known : Norm[Known[p]] = n ELSE None]
    BY DEF Init
  <2>2. ASSUME NEW n \in Norms PROVE aliases[n] \in Ids \union {None}
    <3>1. CASE \E p \in DOMAIN Known \ missing : Norm[Known[p]] = n
      <4>1. (CHOOSE p \in DOMAIN Known : Norm[Known[p]] = n) \in DOMAIN Known BY <3>1
      <4> QED BY <1>1, <2>1, <3>1, <4>1
    <3>2. CASE ~\E p \in DOMAIN Known \ missing : Norm[Known[p]] = n BY <2>1, <3>2
    <3> QED BY <3>1, <3>2
  <2> QED BY <2>1, <2>2 DEF AliasTables
<1>4. links \in LinkTables /\ meant \in [Notes -> SUBSET Ids]
  BY <1>1 DEF Init, LinkTables, Links
<1>5. /\ enrich \in [Enrichments -> EnrichRecords]
      /\ \A e \in Enrichments : enrich[e].pc = "idle"
  BY DEF Init, Fresh, EnrichRecords
<1>6. /\ edit \in [Edits -> EditRecords]
      /\ \A d \in Edits : edit[d].pc = "idle"
  BY UnsentIsRecord DEF Init, Unsent
<1> QED BY <1>2, <1>3, <1>4, <1>5, <1>6 DEF Types, Tables, AtName, Meant, Working
-----------------------------------------------------------------------------
(* What the steps of an enrichment do to its transaction.                  *)
NormAt(e) == Norm[Mentioned(e)]
DatabaseKept == UNCHANGED <<people, aliases, links, meant>>
EnrichTable == enrich = [f \in Enrichments |-> enrich[f]]
EditTable == edit = [d \in Edits |-> edit[d]]
OthersKept(e) == \A f \in Enrichments \ {e} : enrich'[f] = enrich[f]

LEMMA SetEnrichSets ==
  ASSUME Types, NEW e \in Enrichments, NEW r, SetEnrich(e, r)
  PROVE  enrich'[e] = r /\ OthersKept(e) /\ EnrichTable'
BY DEF Types, SetEnrich, OthersKept, EnrichTable

(* Who an alias belongs to; no one only if there is none.                  *)
LEMMA AliasOwnerType ==
  ASSUME Types, NEW e \in Enrichments, NEW n \in Norms
  PROVE  /\ AliasOwner(e, n) \in Ids \union {None}
         /\ AliasOwner(e, n) = None => OwnAlias(e, n) = {} /\ aliases[n] = None
<1>1. OwnAlias(e, n) \subseteq [norm : Norms, person : Ids]
  BY DEF Types, EnrichRecords, OwnAlias
<1>2. CASE OwnAlias(e, n) # {}
  <2>1. (CHOOSE g \in OwnAlias(e, n) : TRUE) \in OwnAlias(e, n) BY <1>2
  <2>2. AliasOwner(e, n) \in Ids BY <1>1, <1>2, <2>1 DEF AliasOwner
  <2> QED BY <2>2, NoneIsNoId
<1>3. CASE OwnAlias(e, n) = {} /\ aliases[n] # None
  <2>1. aliases[n] \in Ids BY <1>3 DEF Types, Tables, AliasTables
  <2>2. AliasOwner(e, n) \in Ids BY <1>3, <2>1, CanonicalType DEF AliasOwner, Types, Tables
  <2> QED BY <2>2, NoneIsNoId
<1>4. CASE OwnAlias(e, n) = {} /\ aliases[n] = None BY <1>4 DEF AliasOwner
<1> QED BY <1>2, <1>3, <1>4

(* A transaction with a lock more.                                         *)
LEMMA LockedRecord ==
  ASSUME NEW q \in EnrichRecords, NEW n \in Norms,
         NEW w, w = [q EXCEPT !.norms = @ \union {n}]
  PROVE  /\ w \in EnrichRecords /\ w.norms = q.norms \union {n}
         /\ w.pc = q.pc /\ w.next = q.next /\ w.shares = q.shares /\ w.made = q.made
         /\ w.given = q.given /\ w.rows = q.rows
BY DEF EnrichRecords

LEMMA ResolveShape ==
  ASSUME Types, NEW e \in Enrichments,
         ResolveByAlias(e) \/ ResolveByName(e) \/ CreatePerson(e)
  PROVE  /\ DatabaseKept /\ UNCHANGED edit /\ OthersKept(e) /\ EnrichTable'
         /\ enrich[e].pc = "name" /\ NameHolders(NormAt(e)) \subseteq {e}
         /\ enrich'[e] \in EnrichRecords
         /\ enrich'[e].pc = "link" /\ enrich'[e].next = enrich[e].next
         /\ enrich'[e].found \in Ids /\ enrich'[e].rows = enrich[e].rows
         /\ enrich'[e].norms = enrich[e].norms \union {NormAt(e)}
         /\ \/ /\ enrich'[e].shares = enrich[e].shares
               /\ enrich'[e].made = enrich[e].made /\ enrich'[e].given = enrich[e].given
            \/ /\ AliasOwner(e, NormAt(e)) = None
               /\ \E p \in ByName(NormAt(e)) :
                    /\ RowLockers(p) = {}
                    /\ enrich'[e].shares = enrich[e].shares \union {p}
                    /\ enrich'[e].made = enrich[e].made
                    /\ enrich'[e].given = enrich[e].given
                         \union {[norm |-> NormAt(e), person |-> p]}
            \/ /\ AliasOwner(e, NormAt(e)) = None /\ ByName(NormAt(e)) = {}
               /\ \E p \in Unused :
                    /\ enrich'[e].shares = enrich[e].shares
                    /\ enrich'[e].made = enrich[e].made
                         \union {[person |-> p, name |-> Mentioned(e)]}
                    /\ enrich'[e].given = enrich[e].given
                         \union {[norm |-> NormAt(e), person |-> p]}
<1> DEFINE n == NormAt(e)
<1>1. /\ enrich[e] \in EnrichRecords /\ enrich[e].pc = "name" /\ NameHolders(n) \subseteq {e}
      /\ Mentioned(e) \in Spellings /\ n \in Norms
  BY DEF Types, AtName, ResolveByAlias, ResolveByName, CreatePerson, LockName, NormAt
<1>2. DatabaseKept /\ UNCHANGED edit
  BY DEF ResolveByAlias, ResolveByName, CreatePerson, DatabaseKept
<1>3. CASE ResolveByAlias(e)
  <2>1. AliasOwner(e, n) \in Ids
    BY <1>1, <1>3, AliasOwnerType DEF ResolveByAlias, NormAt
  <2> DEFINE r == [WithName(e) EXCEPT !.pc = "link", !.found = AliasOwner(e, n)]
  <2>2. SetEnrich(e, r) BY <1>3 DEF ResolveByAlias, NormAt
  <2>3. /\ r \in EnrichRecords /\ r.pc = "link" /\ r.next = enrich[e].next
        /\ r.found \in Ids /\ r.rows = enrich[e].rows
        /\ r.norms = enrich[e].norms \union {n} /\ r.shares = enrich[e].shares
        /\ r.made = enrich[e].made /\ r.given = enrich[e].given
    BY <1>1, <2>1 DEF EnrichRecords, WithName, NormAt
  <2> HIDE DEF r
  <2> QED BY <1>1, <1>2, <2>2, <2>3, SetEnrichSets
<1>4. CASE ResolveByName(e)
  <2> DEFINE p == Min(ByName(n))
             r == [WithName(e) EXCEPT !.pc = "link", !.found = p, !.shares = @ \union {p},
                    !.given = @ \union {[norm |-> n, person |-> p]}]
  <2>1. p \in ByName(n) /\ p \in Ids /\ AliasOwner(e, n) = None /\ RowLockers(p) = {}
    <3>1. ByName(n) \subseteq Nat /\ ByName(n) \subseteq Ids BY NoneIsNoId DEF ByName
    <3>2. ByName(n) # {} BY <1>4 DEF ResolveByName, NormAt
    <3> QED BY <1>4, <3>1, <3>2, LeastOf DEF ResolveByName, NormAt
  <2>2. SetEnrich(e, r) BY <1>4 DEF ResolveByName, NormAt
  <2> HIDE DEF p
  <2>3. /\ r \in EnrichRecords /\ r.pc = "link" /\ r.next = enrich[e].next
        /\ r.found \in Ids /\ r.rows = enrich[e].rows
        /\ r.norms = enrich[e].norms \union {n} /\ r.shares = enrich[e].shares \union {p}
        /\ r.made = enrich[e].made
        /\ r.given = enrich[e].given \union {[norm |-> n, person |-> p]}
    <3> DEFINE w == WithName(e)
    <3>1. /\ w \in EnrichRecords /\ w.norms = enrich[e].norms \union {n}
          /\ w.next = enrich[e].next /\ w.shares = enrich[e].shares /\ w.made = enrich[e].made
          /\ w.given = enrich[e].given /\ w.rows = enrich[e].rows
      BY <1>1, LockedRecord DEF WithName, NormAt
    <3> DEFINE B == w.shares \union {p}
               G == w.given \union {[norm |-> n, person |-> p]}
    <3>2. r = [w EXCEPT !.pc = "link", !.found = p, !.shares = B, !.given = G] BY <3>1
    <3>3. B \in SUBSET Ids BY <2>1, <3>1 DEF EnrichRecords
    <3>4. G \in SUBSET [norm : Norms, person : Ids]
      <4>1. [norm |-> n, person |-> p] \in [norm : Norms, person : Ids] BY <1>1, <2>1
      <4> QED BY <3>1, <4>1 DEF EnrichRecords
    <3>5. /\ r \in EnrichRecords /\ r.pc = "link" /\ r.next = w.next /\ r.found = p
          /\ r.rows = w.rows /\ r.norms = w.norms /\ r.shares = B /\ r.made = w.made
          /\ r.given = G
      <4> HIDE DEF w, B, G, r
      <4> QED BY <2>1, <3>1, <3>2, <3>3, <3>4 DEF EnrichRecords
    <3> HIDE DEF w, n, r
    <3> QED BY <1>1, <2>1, <3>1, <3>5
  <2> HIDE DEF r
  <2> QED BY <1>1, <1>2, <2>1, <2>2, <2>3, SetEnrichSets
<1>5. CASE CreatePerson(e)
  <2> DEFINE p == Min(Unused)
             r == [WithName(e) EXCEPT !.pc = "link", !.found = p,
                    !.made = @ \union {[person |-> p, name |-> Mentioned(e)]},
                    !.given = @ \union {[norm |-> n, person |-> p]}]
  <2>1. /\ p \in Unused /\ p \in Ids /\ AliasOwner(e, n) = None /\ ByName(n) = {}
    <3>1. Unused \subseteq Nat /\ Unused \subseteq Ids BY NoneIsNoId DEF Unused
    <3>2. Unused # {} BY <1>5 DEF CreatePerson
    <3> QED BY <1>5, <3>1, <3>2, LeastOf DEF CreatePerson, NormAt
  <2>2. SetEnrich(e, r) BY <1>5 DEF CreatePerson, NormAt
  <2> HIDE DEF p
  <2>3. /\ r \in EnrichRecords /\ r.pc = "link" /\ r.next = enrich[e].next
        /\ r.found \in Ids /\ r.rows = enrich[e].rows
        /\ r.norms = enrich[e].norms \union {n} /\ r.shares = enrich[e].shares
        /\ r.made = enrich[e].made \union {[person |-> p, name |-> Mentioned(e)]}
        /\ r.given = enrich[e].given \union {[norm |-> n, person |-> p]}
    <3> DEFINE w == WithName(e)
    <3>1. /\ w \in EnrichRecords /\ w.norms = enrich[e].norms \union {n}
          /\ w.next = enrich[e].next /\ w.shares = enrich[e].shares /\ w.made = enrich[e].made
          /\ w.given = enrich[e].given /\ w.rows = enrich[e].rows
      BY <1>1, LockedRecord DEF WithName, NormAt
    <3> DEFINE M == w.made \union {[person |-> p, name |-> Mentioned(e)]}
               G == w.given \union {[norm |-> n, person |-> p]}
    <3>2. r = [w EXCEPT !.pc = "link", !.found = p, !.made = M, !.given = G] BY <3>1
    <3>3. M \in SUBSET [person : Ids, name : Spellings]
      <4>1. [person |-> p, name |-> Mentioned(e)] \in [person : Ids, name : Spellings]
        BY <1>1, <2>1
      <4> QED BY <3>1, <4>1 DEF EnrichRecords
    <3>4. G \in SUBSET [norm : Norms, person : Ids]
      <4>1. [norm |-> n, person |-> p] \in [norm : Norms, person : Ids] BY <1>1, <2>1
      <4> QED BY <3>1, <4>1 DEF EnrichRecords
    <3>5. /\ r \in EnrichRecords /\ r.pc = "link" /\ r.next = w.next /\ r.found = p
          /\ r.rows = w.rows /\ r.norms = w.norms /\ r.shares = w.shares /\ r.made = M
          /\ r.given = G
      <4> HIDE DEF w, M, G, r
      <4> QED BY <2>1, <3>1, <3>2, <3>3, <3>4 DEF EnrichRecords
    <3> HIDE DEF w, n, r
    <3> QED BY <1>1, <2>1, <3>1, <3>5
  <2> HIDE DEF r
  <2> QED BY <1>1, <1>2, <2>1, <2>2, <2>3, SetEnrichSets
<1> QED BY <1>3, <1>4, <1>5

LEMMA LinkShape ==
  ASSUME Types, NEW e \in Enrichments, LinkPerson(e)
  PROVE  /\ DatabaseKept /\ UNCHANGED edit /\ OthersKept(e) /\ EnrichTable'
         /\ enrich[e].pc = "link" /\ RowLockers(enrich[e].found) = {}
         /\ enrich'[e] \in EnrichRecords
         /\ enrich'[e].pc \in {"name", "commit"}
         /\ enrich'[e].pc = "name" => enrich'[e].next \in DOMAIN Mentions[e]
         /\ enrich'[e].rows = enrich[e].rows \union {enrich[e].found}
         /\ enrich'[e].shares = enrich[e].shares \union {enrich[e].found}
         /\ enrich'[e].norms = enrich[e].norms
         /\ enrich'[e].made = enrich[e].made /\ enrich'[e].given = enrich[e].given
<1> DEFINE p == enrich[e].found
           c == IF enrich[e].next = Len(Mentions[e]) THEN "commit" ELSE "name"
           r == [enrich[e] EXCEPT !.shares = @ \union {p}, !.rows = @ \union {p},
                   !.next = enrich[e].next + 1, !.found = None, !.pc = c]
<1>1. /\ enrich[e] \in EnrichRecords /\ enrich[e].pc = "link" /\ RowLockers(p) = {}
      /\ p \in Ids /\ enrich[e].next \in DOMAIN Mentions[e]
  BY DEF Types, AtName, LinkPerson
<1>2. SetEnrich(e, r) /\ DatabaseKept /\ UNCHANGED edit BY DEF LinkPerson, DatabaseKept
<1>3. DOMAIN Mentions[e] = 1..Len(Mentions[e]) /\ Len(Mentions[e]) \in Nat
  BY PeopleAssumption
<1> HIDE DEF p
<1>4. /\ r \in EnrichRecords /\ r.pc = c /\ r.next = enrich[e].next + 1
      /\ r.rows = enrich[e].rows \union {p} /\ r.shares = enrich[e].shares \union {p}
      /\ r.norms = enrich[e].norms /\ r.made = enrich[e].made /\ r.given = enrich[e].given
  <2>1. enrich[e].next + 1 \in Nat /\ c \in {"name", "commit"} BY <1>1, <1>3
  <2> DEFINE B == enrich[e].shares \union {p}
             R == enrich[e].rows \union {p}
             k == enrich[e].next + 1
  <2>2. r = [enrich[e] EXCEPT !.shares = B, !.rows = R, !.next = k, !.found = None, !.pc = c]
    OBVIOUS
  <2>3. B \in SUBSET Ids /\ R \in SUBSET Ids BY <1>1 DEF EnrichRecords
  <2>4. /\ r \in EnrichRecords /\ r.pc = c /\ r.next = k /\ r.rows = R /\ r.shares = B
        /\ r.norms = enrich[e].norms /\ r.made = enrich[e].made /\ r.given = enrich[e].given
    <3> DEFINE q == enrich[e]
    <3>1. q \in EnrichRecords BY <1>1
    <3>2. r = [q EXCEPT !.shares = B, !.rows = R, !.next = k, !.found = None, !.pc = c] BY <2>2
    <3>3. k \in Nat /\ c \in {"name", "commit"} BY <2>1
    <3>4. r \in EnrichRecords
      <4> HIDE DEF B, R, k, c, r, q
      <4> QED BY <2>3, <3>1, <3>2, <3>3 DEF EnrichRecords
    <3>5. /\ r.pc = c /\ r.next = k /\ r.rows = R /\ r.shares = B
          /\ r.norms = q.norms /\ r.made = q.made /\ r.given = q.given
      <4> HIDE DEF B, R, k, c, r, q
      <4> QED BY <3>1, <3>2 DEF EnrichRecords
    <3> QED BY <3>4, <3>5
  <2> HIDE DEF c, r
  <2> QED BY <2>4
<1> HIDE DEF r
<1>5. r.pc \in {"name", "commit"} /\ (r.pc = "name" => r.next \in DOMAIN Mentions[e])
  BY <1>1, <1>3, <1>4
<1> QED BY <1>1, <1>2, <1>4, <1>5, SetEnrichSets DEF p

(* A transaction that begins or ends has nothing locked and nothing made.  *)
Empty(r) == r.norms = {} /\ r.shares = {} /\ r.made = {} /\ r.given = {} /\ r.rows = {}

LEMMA FreshShape ==
  ASSUME Types, NEW e \in Enrichments,
         EnrichBegin(e) \/ EnrichCommit(e) \/ EnrichRollback(e)
  PROVE  /\ UNCHANGED edit /\ OthersKept(e) /\ EnrichTable'
         /\ enrich'[e] \in EnrichRecords /\ Empty(enrich'[e])
         /\ enrich'[e].pc \in {"idle", "name", "commit", "done"}
         /\ enrich'[e].pc = "name" => enrich'[e].next \in DOMAIN Mentions[e]
<1>1. PICK pc \in {"idle", "name", "commit", "done"} :
        /\ SetEnrich(e, [Fresh EXCEPT !.pc = pc]) /\ UNCHANGED edit
        /\ pc = "name" => Mentions[e] # << >>
  <2>1. Fresh = [Fresh EXCEPT !.pc = "idle"] BY DEF Fresh
  <2> QED BY <2>1 DEF EnrichBegin, EnrichCommit, EnrichRollback
<1> DEFINE r == [Fresh EXCEPT !.pc = pc]
<1>2. r \in EnrichRecords /\ Empty(r) /\ r.pc = pc /\ r.next = 1
  BY DEF Fresh, EnrichRecords, Empty
<1>3. Mentions[e] # << >> => 1 \in DOMAIN Mentions[e]
  <2>1. Mentions[e] \in Seq(Spellings) BY PeopleAssumption
  <2> QED BY <2>1
<1> HIDE DEF r
<1>4. enrich'[e] = r /\ OthersKept(e) /\ EnrichTable'
  BY <1>1, SetEnrichSets DEF r
<1> QED BY <1>1, <1>2, <1>3, <1>4
(* What the commit of an enrichment makes: its new people, and the aliases *)
(* that it gave and that no one has.                                       *)
LEMMA CommitShape ==
  ASSUME Types, NEW e \in Enrichments, EnrichCommit(e)
  PROVE  /\ people' = [p \in Ids |-> people'[p]] /\ aliases' = [n \in Norms |-> aliases'[n]]
         /\ \A p \in Ids :
              \/ /\ people'[p] = people[p] /\ \A m \in enrich[e].made : m.person # p
              \/ \E m \in enrich[e].made :
                   /\ m.person = p /\ m.name \in Spellings
                   /\ people'[p] = [name |-> m.name, merged |-> None, version |-> 0]
         /\ \A n \in Norms :
              \/ /\ aliases'[n] = aliases[n]
                 /\ aliases[n] # None \/ \A g \in enrich[e].given : g.norm # n
              \/ /\ aliases[n] = None
                 /\ \E g \in enrich[e].given :
                      g.norm = n /\ g.person \in Ids /\ aliases'[n] = g.person
         /\ enrich[e].pc = "commit"
         /\ links' = [links EXCEPT ![e] = {[person |-> p, save |-> 1] : p \in enrich[e].rows}]
         /\ meant' = [meant EXCEPT ![e] = enrich[e].rows]
<1> DEFINE t == enrich[e]
<1>1. t \in EnrichRecords BY DEF Types
<1>2. /\ people' = [p \in Ids |-> IF \E m \in t.made : m.person = p
           THEN [NoRow EXCEPT !.name = (CHOOSE m \in t.made : m.person = p).name]
           ELSE people[p]]
      /\ aliases' = [n \in Norms |-> IF OwnAlias(e, n) # {} /\ aliases[n] = None
           THEN AliasOwner(e, n) ELSE aliases[n]]
      /\ t.pc = "commit"
      /\ links' = [links EXCEPT ![e] = {[person |-> p, save |-> 1] : p \in t.rows}]
      /\ meant' = [meant EXCEPT ![e] = t.rows]
  BY DEF EnrichCommit
<1>3. ASSUME NEW p \in Ids, \E m \in t.made : m.person = p
      PROVE  \E m \in t.made :
                   /\ m.person = p /\ m.name \in Spellings
                   /\ people'[p] = [name |-> m.name, merged |-> None, version |-> 0]
  <2> DEFINE m == CHOOSE m \in t.made : m.person = p
  <2>1. m \in t.made /\ m.person = p BY <1>3
  <2> HIDE DEF m
  <2>2. m.name \in Spellings BY <1>1, <2>1 DEF EnrichRecords
  <2>3. people'[p] = [NoRow EXCEPT !.name = m.name] BY <1>2, <1>3 DEF m
  <2>4. people'[p] = [name |-> m.name, merged |-> None, version |-> 0] BY <2>3 DEF NoRow
  <2> QED BY <2>1, <2>2, <2>4
<1>4. ASSUME NEW n \in Norms, OwnAlias(e, n) # {}, aliases[n] = None
      PROVE  \E g \in t.given : g.norm = n /\ g.person \in Ids /\ aliases'[n] = g.person
  <2> DEFINE g == CHOOSE g \in OwnAlias(e, n) : TRUE
  <2>1. g \in t.given /\ g.norm = n BY <1>4 DEF OwnAlias
  <2> HIDE DEF g
  <2>2. g.person \in Ids BY <1>1, <2>1 DEF EnrichRecords
  <2>3. aliases'[n] = g.person BY <1>2, <1>4 DEF AliasOwner, g
  <2> QED BY <2>1, <2>2, <2>3
<1>5. \A n : OwnAlias(e, n) = {} => \A g \in t.given : g.norm # n BY DEF OwnAlias
<1>6. \A n \in Norms : ~(OwnAlias(e, n) # {} /\ aliases[n] = None) => aliases'[n] = aliases[n]
  BY <1>2
<1>7. \A p \in Ids : ~(\E m \in t.made : m.person = p) => people'[p] = people[p] BY <1>2
<1>8. people' = [p \in Ids |-> people'[p]] /\ aliases' = [n \in Norms |-> aliases'[n]] BY <1>2
<1> QED BY <1>2, <1>3, <1>4, <1>5, <1>6, <1>7, <1>8

-----------------------------------------------------------------------------
(* What the steps of an edit do to its transaction.                        *)
EditsKept(d) == \A c \in Edits \ {d} : edit'[c] = edit[c]

LEMMA SetEditSets ==
  ASSUME Types, NEW d \in Edits, NEW r, SetEdit(d, r)
  PROVE  edit'[d] = r /\ EditsKept(d) /\ EditTable'
BY DEF Types, SetEdit, EditsKept, EditTable

LEMMA AnsweredShape ==
  ASSUME Types, NEW d \in Edits, NEW reply \in {"ok", "conflict", "failed"}, Answered(d, reply)
  PROVE  /\ EditsKept(d) /\ EditTable'
         /\ edit'[d] \in EditRecords
         /\ edit'[d].pc = "done" /\ edit'[d].rows = {} /\ edit'[d].norms = {}
         /\ edit'[d].reply = reply
         /\ IF reply = "ok" /\ edit[d].kind = "merge"
              THEN /\ edit'[d].kind = "merge" /\ edit'[d].person = edit[d].person
                   /\ edit'[d].source = edit[d].source
              ELSE edit'[d].kind = "none"
<1> DEFINE q == edit[d]
           r1 == [Unsent EXCEPT !.pc = "done", !.kind = q.kind, !.person = q.person,
                    !.source = q.source, !.reply = reply]
           r2 == [Unsent EXCEPT !.pc = "done", !.reply = reply]
<1>1. q \in EditRecords BY DEF Types
<1>2. /\ r1 \in EditRecords /\ r1.pc = "done" /\ r1.rows = {} /\ r1.norms = {}
      /\ r1.kind = q.kind /\ r1.person = q.person /\ r1.source = q.source /\ r1.reply = reply
  <2> DEFINE k == q.kind a == q.person b == q.source
  <2>1. /\ k \in {"none", "update", "merge"} /\ a \in Ids \union {None}
        /\ b \in Ids \union {None}
    BY <1>1 DEF EditRecords
  <2> HIDE DEF q, k, a, b
  <2>2. r1 = [Unsent EXCEPT !.pc = "done", !.kind = k, !.person = a, !.source = b,
                !.reply = reply]
    BY DEF k, a, b
  <2>3. r1 \in EditRecords
    <3> HIDE DEF r1
    <3> QED BY <2>1, <2>2, UnsentIsRecord DEF EditRecords
  <2>4. /\ r1.pc = "done" /\ r1.rows = {} /\ r1.norms = {}
        /\ r1.kind = k /\ r1.person = a /\ r1.source = b /\ r1.reply = reply
    <3> HIDE DEF r1
    <3> QED BY <2>2 DEF Unsent
  <2> QED BY <2>3, <2>4 DEF k, a, b
<1>3. /\ r2 \in EditRecords /\ r2.pc = "done" /\ r2.rows = {} /\ r2.norms = {}
      /\ r2.kind = "none" /\ r2.reply = reply
  BY UnsentIsRecord DEF EditRecords, Unsent
<1>4. CASE reply = "ok" /\ q.kind = "merge"
  <2>1. SetEdit(d, r1) BY <1>4 DEF Answered
  <2> HIDE DEF r1
  <2> QED BY <1>2, <1>4, <2>1, SetEditSets
<1>5. CASE ~(reply = "ok" /\ q.kind = "merge")
  <2>1. SetEdit(d, r2) BY <1>5 DEF Answered
  <2> HIDE DEF r2
  <2> QED BY <1>3, <1>5, <2>1, SetEditSets
<1> QED BY <1>4, <1>5

LEMMA BeginShape ==
  ASSUME Types, NEW d \in Edits, UpdateBegin(d) \/ MergeBegin(d)
  PROVE  /\ DatabaseKept /\ UNCHANGED enrich /\ EditsKept(d) /\ EditTable'
         /\ edit[d].pc = "idle"
         /\ edit'[d] \in EditRecords /\ Meant(d)'
         /\ edit'[d].pc = "rows" /\ edit'[d].rows = {} /\ edit'[d].norms = {}
         /\ edit'[d].snap = Snapshot
<1>0. Snapshot \in Snapshots BY DEF Types, Tables, Snapshot, Snapshots
<1>1. CASE UpdateBegin(d)
  <2>1. PICK p \in Ids, u \in Updates :
          /\ Active(people, p)
          /\ SetEdit(d, [Unsent EXCEPT !.pc = "rows", !.kind = "update", !.person = p,
               !.name = u.name, !.aliases = u.aliases, !.snap = Snapshot])
    BY <1>1 DEF UpdateBegin
  <2> DEFINE r == [Unsent EXCEPT !.pc = "rows", !.kind = "update", !.person = p,
                    !.name = u.name, !.aliases = u.aliases, !.snap = Snapshot]
  <2>2. u.name \in Spellings \union {None} /\ u.aliases \in (SUBSET Spellings) \union {NotSet}
    BY DEF Updates, AliasSets
  <2>3. /\ r \in EditRecords /\ r.pc = "rows" /\ r.rows = {} /\ r.norms = {}
        /\ r.snap = Snapshot /\ r.kind = "update" /\ r.person = p /\ r.source = None
    BY <1>0, <2>2, UnsentIsRecord DEF EditRecords, Unsent
  <2> HIDE DEF r
  <2>4. edit'[d] = r /\ EditsKept(d) /\ EditTable' BY <2>1, SetEditSets DEF r
  <2>5. edit'[d].snap.people = people BY <2>3, <2>4 DEF Snapshot
  <2>6. Meant(d)'
    <3>1. \A q \in RowsOf(d)' : q = p BY <2>3, <2>4 DEF RowsOf
    <3>2. Exists(people, p) BY <2>1 DEF Active
    <3>3. \A q \in RowsOf(d)' : Exists(edit'[d].snap.people, q) BY <2>5, <3>1, <3>2 DEF Exists
    <3> QED BY <1>0, <2>3, <2>4, <3>3, NoneIsNoId DEF Meant, Exists
  <2> QED BY <1>1, <2>3, <2>4, <2>6 DEF UpdateBegin, EditOnly, DatabaseKept
<1>2. CASE MergeBegin(d)
  <2>0. PICK p \in Ids : \E q \in Ids \ {p} : \E s \in Resolutions(p, q) :
          /\ Exists(people, p) /\ Exists(people, q)
          /\ SetEdit(d, [Unsent EXCEPT !.pc = "rows", !.kind = "merge", !.person = p,
               !.source = q, !.name = s, !.snap = Snapshot])
    BY <1>2 DEF MergeBegin
  <2>a. PICK q \in Ids \ {p} : \E s \in Resolutions(p, q) :
          /\ Exists(people, p) /\ Exists(people, q)
          /\ SetEdit(d, [Unsent EXCEPT !.pc = "rows", !.kind = "merge", !.person = p,
               !.source = q, !.name = s, !.snap = Snapshot])
    BY <2>0
  <2>1. PICK s \in Resolutions(p, q) :
          /\ Exists(people, p) /\ Exists(people, q)
          /\ SetEdit(d, [Unsent EXCEPT !.pc = "rows", !.kind = "merge", !.person = p,
               !.source = q, !.name = s, !.snap = Snapshot])
    BY <2>a
  <2> DEFINE r == [Unsent EXCEPT !.pc = "rows", !.kind = "merge", !.person = p,
                    !.source = q, !.name = s, !.snap = Snapshot]
  <2>2. s \in Spellings BY <2>1, NormOfName DEF Resolutions, Types, Tables
  <2>3. /\ r \in EditRecords /\ r.pc = "rows" /\ r.rows = {} /\ r.norms = {}
        /\ r.snap = Snapshot /\ r.kind = "merge" /\ r.person = p /\ r.source = q
        /\ r.name = s /\ r.aliases = NotSet
    BY <1>0, <2>2, UnsentIsRecord DEF EditRecords, Unsent
  <2> HIDE DEF r
  <2>4. edit'[d] = r /\ EditsKept(d) /\ EditTable' BY <2>1, SetEditSets DEF r
  <2>5. edit'[d].snap.people = people BY <2>3, <2>4 DEF Snapshot
  <2>6. Meant(d)'
    <3>1. \A x \in RowsOf(d)' : x = p \/ x = q BY <2>3, <2>4 DEF RowsOf
    <3>2. \A x \in RowsOf(d)' : Exists(edit'[d].snap.people, x)
      BY <2>1, <2>5, <3>1 DEF Exists
    <3>3. /\ edit'[d].kind = "merge" /\ edit'[d].person \in Ids /\ edit'[d].source \in Ids
          /\ edit'[d].source # edit'[d].person /\ edit'[d].name \in Spellings
          /\ edit'[d].aliases = NotSet /\ edit'[d].snap \in Snapshots
      BY <1>0, <2>1, <2>2, <2>3, <2>4
    <3> QED BY <3>2, <3>3 DEF Meant
  <2> QED BY <1>2, <2>3, <2>4, <2>6 DEF MergeBegin, EditOnly, DatabaseKept
<1> QED BY <1>1, <1>2
(* The rows and the names that an edit locks, each in their order.         *)
LEMMA RequestType ==
  ASSUME Types, NEW d \in Edits, Working(d)
  PROVE  /\ RowsOf(d) \subseteq Ids /\ edit[d].person \in RowsOf(d)
         /\ RowsOf(d) = {edit[d].person} \/ edit[d].kind = "merge"
         /\ NewName(d) \in Spellings /\ Norm[NewName(d)] \in NewNorms(d)
         /\ NewNorms(d) \subseteq Norms /\ OwnAliases(d) \subseteq Norms
         /\ \A p \in RowsOf(d) : Norm[edit[d].snap.people[p].name] \in NewNorms(d)
         /\ edit[d].aliases = NotSet => OwnAliases(d) \subseteq NewNorms(d)
<1>1. edit[d] \in EditRecords /\ Meant(d) BY DEF Types
<1>2. RowsOf(d) \subseteq Ids /\ edit[d].person \in RowsOf(d)
  BY <1>1, NoneIsNoId DEF RowsOf, EditRecords, Meant
<1>3. edit[d].snap.people \in PeopleTables BY <1>1 DEF Meant, Snapshots
<1>4. \A p \in RowsOf(d) : /\ edit[d].snap.people[p].name \in Spellings
                           /\ Norm[edit[d].snap.people[p].name] \in Norms
  BY <1>1, <1>2, <1>3, NormOfName DEF Meant
<1>5. NewName(d) \in Spellings BY <1>1, <1>2, <1>4 DEF NewName, EditRecords
<1>6. DisplayNames(d) \subseteq Norms BY <1>4, <1>5, NoneIsNoId DEF DisplayNames
<1>7. OwnAliases(d) \subseteq Norms BY DEF OwnAliases
<1>8. edit[d].aliases # NotSet => {Norm[a] : a \in edit[d].aliases} \subseteq Norms
  BY <1>1, NoneIsNoId DEF EditRecords
<1>9. NewNorms(d) \subseteq Norms BY <1>6, <1>7, <1>8 DEF NewNorms
<1>10. RowsOf(d) = {edit[d].person} \/ edit[d].kind = "merge"
  BY <1>1 DEF RowsOf, Meant, EditRecords
<1>11. /\ Norm[NewName(d)] \in NewNorms(d)
       /\ \A p \in RowsOf(d) : Norm[edit[d].snap.people[p].name] \in NewNorms(d)
  BY DEF NewNorms, DisplayNames
<1>12. edit[d].aliases = NotSet => OwnAliases(d) \subseteq NewNorms(d) BY DEF NewNorms
<1> QED BY <1>2, <1>5, <1>7, <1>9, <1>10, <1>11, <1>12

EditLocks(d) ==
  /\ edit[d].pc \in {"idle", "done"} => edit[d].rows = {} /\ edit[d].norms = {}
  /\ edit[d].pc = "rows" =>
       /\ edit[d].rows \subseteq RowsOf(d) /\ edit[d].rows # RowsOf(d) /\ edit[d].norms = {}
       /\ \A p \in edit[d].rows, q \in RowsOf(d) \ edit[d].rows : p < q
  /\ edit[d].pc \in {"names", "write"} =>
       edit[d].rows = RowsOf(d)
  /\ edit[d].pc = "names" =>
       /\ edit[d].norms \subseteq NewNorms(d) /\ edit[d].norms # NewNorms(d)
       /\ \A m \in edit[d].norms, n \in NewNorms(d) \ edit[d].norms : m < n
  /\ edit[d].pc = "write" => edit[d].norms = NewNorms(d) /\ ~Conflict(d)

SameRequest(d) ==
  /\ edit'[d].kind = edit[d].kind /\ edit'[d].person = edit[d].person
  /\ edit'[d].source = edit[d].source /\ edit'[d].name = edit[d].name
  /\ edit'[d].aliases = edit[d].aliases /\ edit'[d].snap = edit[d].snap

LEMMA SameRequestSameNames ==
  ASSUME NEW d, SameRequest(d)
  PROVE  /\ RowsOf(d)' = RowsOf(d) /\ NewNorms(d)' = NewNorms(d)
         /\ OwnAliases(d)' = OwnAliases(d) /\ NewName(d)' = NewName(d)
         /\ (Conflict(d)' <=> Conflict(d)) /\ (WritesAliases(d)' <=> WritesAliases(d))
<1>1. RowsOf(d)' = RowsOf(d) BY DEF SameRequest, RowsOf
<1>2. OwnAliases(d)' = OwnAliases(d) /\ NewName(d)' = NewName(d)
  BY <1>1 DEF SameRequest, OwnAliases, NewName
<1>3. DisplayNames(d)' = DisplayNames(d) BY <1>1, <1>2 DEF SameRequest, DisplayNames
<1>4. NewNorms(d)' = NewNorms(d) BY <1>2, <1>3 DEF SameRequest, NewNorms
<1>5. Conflict(d)' <=> Conflict(d)
  BY <1>1, <1>4 DEF SameRequest, Conflict, AliasConflict, NameConflict
<1>6. WritesAliases(d)' <=> WritesAliases(d) BY DEF SameRequest, WritesAliases
<1> QED BY <1>1, <1>2, <1>4, <1>5, <1>6

Ended(d) == edit'[d].pc = "done" /\ edit'[d].rows = {} /\ edit'[d].norms = {}

LEMMA LockRowShape ==
  ASSUME Types, NEW d \in Edits, EditLocks(d), LockRow(d)
  PROVE  /\ DatabaseKept /\ UNCHANGED enrich /\ EditsKept(d) /\ EditTable'
         /\ edit[d].pc = "rows" /\ edit'[d] \in EditRecords
         /\ \/ Ended(d)
            \/ /\ SameRequest(d) /\ edit'[d].norms = edit[d].norms
               /\ \E p \in RowsOf(d) \ edit[d].rows :
                    /\ \A q \in RowsOf(d) \ edit[d].rows : p <= q
                    /\ RowLockers(p) = {} /\ RowSharers(p) = {}
                    /\ people[p] = edit[d].snap.people[p]
                    /\ edit'[d].rows = edit[d].rows \union {p}
                    /\ \/ edit'[d].pc = "rows" /\ edit'[d].rows # RowsOf(d)
                       \/ edit'[d].pc = "names" /\ edit'[d].rows = RowsOf(d) /\ BothActive(d)
<1> DEFINE p == NextRow(d)
           q == edit[d]
           locked == q.rows \union {p}
<1>1. q.pc = "rows" /\ q \in EditRecords /\ Working(d) BY DEF LockRow, Types, Working
<1>2. RowsOf(d) \subseteq Ids /\ RowsOf(d) \ q.rows # {}
  BY <1>1, RequestType DEF EditLocks
<1>3. p \in RowsOf(d) \ q.rows /\ p \in Ids /\ \A x \in RowsOf(d) \ q.rows : p <= x
  <2>1. RowsOf(d) \ q.rows \subseteq Nat BY <1>2, NoneIsNoId
  <2> QED BY <1>2, <2>1, LeastOf DEF NextRow
<1>4. /\ RowLockers(p) = {} /\ RowSharers(p) = {} /\ people[p] = q.snap.people[p]
      /\ EditOnly
      /\ IF locked # RowsOf(d) THEN SetEdit(d, [q EXCEPT !.rows = locked])
         ELSE IF AlreadyMerged(d) THEN Answered(d, "ok")
         ELSE IF BothActive(d) THEN SetEdit(d, [q EXCEPT !.rows = locked, !.pc = "names"])
         ELSE Answered(d, "conflict")
  BY DEF LockRow
<1>5. DatabaseKept /\ UNCHANGED enrich BY <1>4 DEF EditOnly, DatabaseKept
<1>6. locked \in SUBSET Ids BY <1>1, <1>3 DEF EditRecords
<1>7. CASE locked # RowsOf(d)
  <2> DEFINE r == [q EXCEPT !.rows = locked]
  <2>1. SetEdit(d, r) BY <1>4, <1>7
  <2>2. /\ r \in EditRecords /\ r.pc = "rows" /\ r.rows = locked /\ r.norms = q.norms
        /\ r.kind = q.kind /\ r.person = q.person /\ r.source = q.source /\ r.name = q.name
        /\ r.aliases = q.aliases /\ r.snap = q.snap
    <3> HIDE DEF q, locked
    <3> QED BY <1>1, <1>6 DEF EditRecords
  <2> HIDE DEF r
  <2>3. edit'[d] = r /\ EditsKept(d) /\ EditTable' BY <2>1, SetEditSets
  <2> QED BY <1>1, <1>3, <1>4, <1>5, <1>7, <2>2, <2>3 DEF SameRequest
<1>8. CASE locked = RowsOf(d) /\ ~AlreadyMerged(d) /\ BothActive(d)
  <2> DEFINE r == [q EXCEPT !.rows = locked, !.pc = "names"]
  <2>1. SetEdit(d, r) BY <1>4, <1>8
  <2>2. /\ r \in EditRecords /\ r.pc = "names" /\ r.rows = locked /\ r.norms = q.norms
        /\ r.kind = q.kind /\ r.person = q.person /\ r.source = q.source /\ r.name = q.name
        /\ r.aliases = q.aliases /\ r.snap = q.snap
    <3> HIDE DEF q, locked
    <3> QED BY <1>1, <1>6 DEF EditRecords
  <2> HIDE DEF r
  <2>3. edit'[d] = r /\ EditsKept(d) /\ EditTable' BY <2>1, SetEditSets
  <2> QED BY <1>1, <1>3, <1>4, <1>5, <1>8, <2>2, <2>3 DEF SameRequest
<1>9. CASE locked = RowsOf(d) /\ (AlreadyMerged(d) \/ ~BothActive(d))
  <2>1. PICK reply \in {"ok", "conflict", "failed"} : Answered(d, reply) BY <1>4, <1>9
  <2> QED BY <1>1, <1>5, <2>1, AnsweredShape DEF Ended
<1> QED BY <1>7, <1>8, <1>9

LEMMA LockNormShape ==
  ASSUME Types, NEW d \in Edits, EditLocks(d), LockNorm(d)
  PROVE  /\ DatabaseKept /\ UNCHANGED enrich /\ EditsKept(d) /\ EditTable'
         /\ edit[d].pc = "names" /\ edit'[d] \in EditRecords
         /\ \/ Ended(d)
            \/ /\ SameRequest(d) /\ edit'[d].rows = edit[d].rows
               /\ \E n \in NewNorms(d) \ edit[d].norms :
                    /\ \A m \in NewNorms(d) \ edit[d].norms : n <= m
                    /\ NameHolders(n) = {}
                    /\ edit'[d].norms = edit[d].norms \union {n}
                    /\ \/ edit'[d].pc = "names" /\ edit'[d].norms # NewNorms(d)
                       \/ edit'[d].pc = "write" /\ edit'[d].norms = NewNorms(d) /\ ~Conflict(d)
<1> DEFINE q == edit[d]
           n == Min(NewNorms(d) \ q.norms)
           held == q.norms \union {n}
<1>1. q.pc = "names" /\ q \in EditRecords /\ Working(d) BY DEF LockNorm, Types, Working
<1>2. NewNorms(d) \subseteq Norms /\ NewNorms(d) \ q.norms # {}
  BY <1>1, RequestType DEF EditLocks
<1>3. n \in NewNorms(d) \ q.norms /\ n \in Norms /\ \A x \in NewNorms(d) \ q.norms : n <= x
  <2>1. NewNorms(d) \ q.norms \subseteq Nat BY <1>2, NoneIsNoId
  <2> QED BY <1>2, <2>1, LeastOf
<1>4. /\ NameHolders(n) = {} /\ EditOnly
      /\ IF held # NewNorms(d) THEN SetEdit(d, [q EXCEPT !.norms = held])
         ELSE IF Conflict(d) THEN Answered(d, "conflict")
         ELSE SetEdit(d, [q EXCEPT !.norms = held, !.pc = "write"])
  BY DEF LockNorm
<1>5. DatabaseKept /\ UNCHANGED enrich BY <1>4 DEF EditOnly, DatabaseKept
<1> HIDE DEF n
<1>6. held \in SUBSET Norms BY <1>1, <1>3 DEF EditRecords
<1>7. CASE held # NewNorms(d)
  <2> DEFINE r == [q EXCEPT !.norms = held]
  <2>1. SetEdit(d, r) BY <1>4, <1>7
  <2>2. /\ r \in EditRecords /\ r.pc = "names" /\ r.norms = held /\ r.rows = q.rows
        /\ r.kind = q.kind /\ r.person = q.person /\ r.source = q.source /\ r.name = q.name
        /\ r.aliases = q.aliases /\ r.snap = q.snap
    <3> HIDE DEF q, held
    <3> QED BY <1>1, <1>6 DEF EditRecords
  <2> HIDE DEF r
  <2>3. edit'[d] = r /\ EditsKept(d) /\ EditTable' BY <2>1, SetEditSets
  <2> QED BY <1>1, <1>3, <1>4, <1>5, <1>7, <2>2, <2>3 DEF SameRequest
<1>8. CASE held = NewNorms(d) /\ ~Conflict(d)
  <2> DEFINE r == [q EXCEPT !.norms = held, !.pc = "write"]
  <2>1. SetEdit(d, r) BY <1>4, <1>8
  <2>2. /\ r \in EditRecords /\ r.pc = "write" /\ r.norms = held /\ r.rows = q.rows
        /\ r.kind = q.kind /\ r.person = q.person /\ r.source = q.source /\ r.name = q.name
        /\ r.aliases = q.aliases /\ r.snap = q.snap
    <3> HIDE DEF q, held
    <3> QED BY <1>1, <1>6 DEF EditRecords
  <2> HIDE DEF r
  <2>3. edit'[d] = r /\ EditsKept(d) /\ EditTable' BY <2>1, SetEditSets
  <2> QED BY <1>1, <1>3, <1>4, <1>5, <1>8, <2>2, <2>3 DEF SameRequest
<1>9. CASE held = NewNorms(d) /\ Conflict(d)
  <2>1. Answered(d, "conflict") BY <1>4, <1>9
  <2> QED BY <1>1, <1>5, <2>1, AnsweredShape DEF Ended
<1> QED BY <1>7, <1>8, <1>9
LEMMA EditCommitShape ==
  ASSUME Types, NEW d \in Edits, EditCommit(d)
  PROVE  /\ UNCHANGED <<meant, enrich>> /\ EditsKept(d) /\ EditTable'
         /\ edit[d].pc = "write" /\ Working(d) /\ edit'[d] \in EditRecords /\ Ended(d)
         /\ ~Changed(d) /\ Deleting(d) = {}
         /\ people' \in PeopleTables
         /\ \A p \in Ids :
              \/ p \notin RowsOf(d) /\ people'[p] = people[p]
              \/ /\ p = edit[d].person /\ people'[p].name = NewName(d)
                 /\ people'[p].merged = people[p].merged
                 /\ people'[p].version = people[p].version + 1
              \/ /\ p = edit[d].source /\ p # edit[d].person
                 /\ people'[p].name = people[p].name
                 /\ people'[p].merged = edit[d].person
                 /\ people'[p].version = people[p].version + 1
         /\ aliases' = IF WritesAliases(d) THEN AliasesAfter(d) ELSE aliases
         /\ aliases' \in AliasTables
         /\ links' = LinksAfter(d) /\ links' \in LinkTables
<1> DEFINE a == edit[d].person b == edit[d].source
<1>1. /\ edit[d].pc = "write" /\ ~Changed(d) /\ Deleting(d) = {}
      /\ people' = PeopleAfter(d)
      /\ aliases' = IF WritesAliases(d) THEN AliasesAfter(d) ELSE aliases
      /\ links' = LinksAfter(d) /\ Answered(d, "ok") /\ UNCHANGED <<meant, enrich>>
  BY DEF EditCommit
<1>2. Working(d) BY <1>1 DEF Working
<1>3. a \in Ids /\ b # a /\ b \in Ids \union {None} /\ NewName(d) \in Spellings
  BY <1>2, RequestType DEF Types, Meant, EditRecords
<1>4. people \in PeopleTables /\ aliases \in AliasTables /\ links \in LinkTables
  BY DEF Types, Tables
<1>5. ASSUME NEW p \in Ids
      PROVE  /\ people'[p] \in PersonRows
             /\ \/ p \notin RowsOf(d) /\ people'[p] = people[p]
                \/ /\ p = a /\ people'[p].name = NewName(d)
                   /\ people'[p].merged = people[p].merged
                   /\ people'[p].version = people[p].version + 1
                \/ /\ p = b /\ p # a
                   /\ people'[p].name = people[p].name
                   /\ people'[p].merged = a
                   /\ people'[p].version = people[p].version + 1
  <2> DEFINE r == people[p] nm == NewName(d)
  <2>1. r \in PersonRows BY <1>4 DEF PeopleTables
  <2>2. people'[p] = IF p = a THEN [r EXCEPT !.name = nm, !.version = @ + 1]
                     ELSE IF p = b THEN [r EXCEPT !.merged = a, !.version = @ + 1] ELSE r
    BY <1>1 DEF PeopleAfter
  <2>3. CASE p = a
    <3>1. people'[p] = [r EXCEPT !.name = nm, !.version = @ + 1] BY <2>2, <2>3
    <3> DEFINE v == r.version + 1
    <3>2. r.version \in Nat BY <2>1 DEF PersonRows
    <3>3. people'[p] = [r EXCEPT !.name = nm, !.version = v] /\ v \in Nat /\ nm \in Spellings
      BY <1>3, <3>1, <3>2
    <3>4. /\ people'[p] \in PersonRows /\ people'[p].name = nm /\ people'[p].version = v
          /\ people'[p].merged = r.merged
      <4> HIDE DEF r, nm, v
      <4> QED BY <2>1, <3>3 DEF PersonRows
    <3> QED BY <2>3, <3>4
  <2>4. CASE p # a /\ p = b
    <3>1. people'[p] = [r EXCEPT !.merged = a, !.version = @ + 1] BY <2>2, <2>4
    <3> DEFINE v == r.version + 1
    <3>2. r.version \in Nat BY <2>1 DEF PersonRows
    <3>3. people'[p] = [r EXCEPT !.merged = a, !.version = v] /\ v \in Nat BY <3>1, <3>2
    <3>4. /\ people'[p] \in PersonRows /\ people'[p].name = r.name /\ people'[p].version = v
          /\ people'[p].merged = a
      <4> HIDE DEF r, v
      <4> QED BY <1>3, <2>1, <3>3 DEF PersonRows
    <3> QED BY <2>4, <3>4
  <2>5. CASE p # a /\ p # b
    <3>1. people'[p] = r BY <2>2, <2>5
    <3> QED BY <2>1, <2>5, <3>1 DEF RowsOf
  <2> QED BY <2>3, <2>4, <2>5
<1>6. people' \in PeopleTables
  <2>1. people' = [p \in Ids |-> people'[p]] BY <1>1 DEF PeopleAfter
  <2> QED BY <1>5, <2>1 DEF PeopleTables
<1>7. aliases' \in AliasTables
  <2>1. AliasesAfter(d) \in AliasTables BY <1>3, <1>4 DEF AliasesAfter, AliasTables
  <2> QED BY <1>1, <1>4, <2>1
<1>8. links' \in LinkTables
  <2>1. ASSUME NEW n \in Notes PROVE Moved(d, n) \subseteq Links
    <3>1. edit[d].snap.links \in LinkTables BY <1>2 DEF Types, Meant, Snapshots
    <3>2. RowsSeen(d, n) \subseteq Links BY <3>1 DEF RowsSeen, LinkTables
    <3>3. \A l \in Links : [l EXCEPT !.person = a] \in Links BY <1>3 DEF Links
    <3> QED BY <3>2, <3>3 DEF Moved
  <2>2. \A n \in Notes : links[n] \subseteq Links BY <1>4 DEF LinkTables
  <2>3. \A n \in Notes : (links[n] \ RowsSeen(d, n)) \union Moved(d, n) \in SUBSET Links
    BY <2>1, <2>2
  <2> QED BY <1>1, <2>3 DEF LinksAfter, LinkTables
<1>9. EditsKept(d) /\ EditTable' /\ edit'[d] \in EditRecords /\ Ended(d)
  BY <1>1, AnsweredShape DEF Ended
<1> QED BY <1>1, <1>2, <1>5, <1>6, <1>7, <1>8, <1>9

LEMMA RollbackShape ==
  ASSUME Types, NEW d \in Edits, EditRollback(d)
  PROVE  /\ DatabaseKept /\ UNCHANGED enrich /\ EditsKept(d) /\ EditTable'
         /\ Working(d) /\ edit'[d] \in EditRecords /\ Ended(d)
BY AnsweredShape DEF EditRollback, EditOnly, DatabaseKept, Ended, Working

-----------------------------------------------------------------------------
(* Every step keeps the types.                                             *)
LEMMA EnrichTyped ==
  ASSUME Types, NEW e \in Enrichments, Tables', UNCHANGED edit, OthersKept(e),
         EnrichTable', enrich'[e] \in EnrichRecords,
         enrich'[e].pc \in {"name", "link"} => enrich'[e].next \in DOMAIN Mentions[e],
         enrich'[e].pc = "link" => enrich'[e].found \in Ids
  PROVE  Types'
<1>1. enrich' \in [Enrichments -> EnrichRecords]
  <2>1. \A f \in Enrichments : enrich'[f] \in EnrichRecords BY DEF Types, OthersKept
  <2> QED BY <2>1 DEF EnrichTable
<1>2. ASSUME NEW f \in Enrichments PROVE AtName(f)'
  <2>1. Mentions[f] \in Seq(Spellings) BY PeopleAssumption
  <2>2. CASE f # e BY <2>2 DEF Types, AtName, OthersKept, Mentioned
  <2>3. CASE f = e
    <3>1. enrich'[e].next \in DOMAIN Mentions[e] =>
            Mentions[e][enrich'[e].next] \in Spellings
      BY <2>1, <2>3
    <3> QED BY <2>3, <3>1, NoneIsNoId DEF AtName, Mentioned
  <2> QED BY <2>2, <2>3
<1>3. \A d \in Edits : Meant(d)' BY DEF Types, Meant, Working, RowsOf, Exists
<1> QED BY <1>1, <1>2, <1>3 DEF Types

LEMMA EditTyped ==
  ASSUME Types, NEW d \in Edits, Tables', UNCHANGED enrich, EditsKept(d), EditTable',
         edit'[d] \in EditRecords, Meant(d)'
  PROVE  Types'
<1>1. edit' \in [Edits -> EditRecords]
  <2>1. \A c \in Edits : edit'[c] \in EditRecords BY DEF Types, EditsKept
  <2> QED BY <2>1 DEF EditTable
<1>2. \A e \in Enrichments : AtName(e)' BY DEF Types, AtName, Mentioned
<1>3. ASSUME NEW c \in Edits PROVE Meant(c)'
  <2>1. CASE c # d
    BY <2>1 DEF Types, EditsKept, Meant, Working, RowsOf, Exists
  <2> QED BY <2>1
<1> QED BY <1>1, <1>2, <1>3 DEF Types
-----------------------------------------------------------------------------
(* One transaction holds a name, one edit a row that no one shares.        *)
Holders == \A n \in Norms : \A x, y \in NameHolders(n) : x = y
Lockers == \A p \in Ids : /\ \A c, d \in RowLockers(p) : c = d
                          /\ RowLockers(p) # {} => RowSharers(p) = {}
HoldsName(x, n) == \/ x \in Enrichments /\ n \in enrich[x].norms
                   \/ x \in Edits /\ n \in edit[x].norms
Locks == Holders /\ Lockers /\ \A d \in Edits : EditLocks(d)

LEMMA EnrichLocks ==
  ASSUME Locks, NEW e \in Enrichments, UNCHANGED edit, OthersKept(e),
         \A n \in enrich'[e].norms : n \in enrich[e].norms \/ NameHolders(n) \subseteq {e},
         \A p \in enrich'[e].shares : p \in enrich[e].shares \/ RowLockers(p) = {}
  PROVE  Locks'
<1>1. ASSUME NEW n \in Norms, NEW x \in NameHolders(n)', NEW y \in NameHolders(n)'
      PROVE  x = y
  <2>1. \A z \in NameHolders(n)' : z \in NameHolders(n) \/ (z = e /\ n \in enrich'[e].norms)
    <3> SUFFICES ASSUME NEW z, HoldsName(z, n)'
                 PROVE  HoldsName(z, n) \/ (z = e /\ n \in enrich'[e].norms)
      BY DEF NameHolders, HoldsName
    <3> QED BY DEF HoldsName, OthersKept
  <2>2. n \in enrich'[e].norms => NameHolders(n) \subseteq {e} \/ e \in NameHolders(n)
    BY DEF NameHolders
  <2> QED BY <2>1, <2>2 DEF Locks, Holders
<1>2. ASSUME NEW p \in Ids
      PROVE  /\ \A c, d \in RowLockers(p)' : c = d
             /\ RowLockers(p)' # {} => RowSharers(p)' = {}
  <2>1. RowLockers(p)' = RowLockers(p) BY DEF RowLockers
  <2>2. \A z \in RowSharers(p)' : z \in RowSharers(p) \/ RowLockers(p) = {}
    BY DEF RowSharers, OthersKept
  <2> QED BY <2>1, <2>2 DEF Locks, Lockers
<1>3. ASSUME NEW d \in Edits PROVE EditLocks(d)'
  <2>1. SameRequest(d) BY DEF SameRequest
  <2> QED BY <2>1, SameRequestSameNames DEF Locks, EditLocks
<1> QED BY <1>1, <1>2, <1>3 DEF Locks, Holders, Lockers

LEMMA EditsLocks ==
  ASSUME Locks, NEW d \in Edits, UNCHANGED enrich, EditsKept(d), EditLocks(d)',
         \A n \in edit'[d].norms : n \in edit[d].norms \/ NameHolders(n) = {},
         \A p \in edit'[d].rows :
           p \in edit[d].rows \/ (RowLockers(p) = {} /\ RowSharers(p) = {})
  PROVE  Locks'
<1>1. ASSUME NEW n \in Norms, NEW x \in NameHolders(n)', NEW y \in NameHolders(n)'
      PROVE  x = y
  <2>1. \A z \in NameHolders(n)' : z \in NameHolders(n) \/ (z = d /\ n \in edit'[d].norms)
    <3> SUFFICES ASSUME NEW z, HoldsName(z, n)'
                 PROVE  HoldsName(z, n) \/ (z = d /\ n \in edit'[d].norms)
      BY DEF NameHolders, HoldsName
    <3> QED BY DEF HoldsName, EditsKept
  <2>2. n \in edit'[d].norms => NameHolders(n) = {} \/ d \in NameHolders(n)
    BY DEF NameHolders
  <2> QED BY <2>1, <2>2 DEF Locks, Holders
<1>2. ASSUME NEW p \in Ids
      PROVE  /\ \A c, b \in RowLockers(p)' : c = b
             /\ RowLockers(p)' # {} => RowSharers(p)' = {}
  <2>1. \A z \in RowLockers(p)' : z \in RowLockers(p) \/ (z = d /\ p \in edit'[d].rows)
    <3> SUFFICES ASSUME NEW z \in Edits, p \in edit'[z].rows
                 PROVE  p \in edit[z].rows \/ (z = d /\ p \in edit'[d].rows)
      BY DEF RowLockers
    <3> QED BY DEF EditsKept
  <2>2. p \in edit'[d].rows => d \in RowLockers(p) \/ (RowLockers(p) = {} /\ RowSharers(p) = {})
    BY DEF RowLockers
  <2>3. RowSharers(p)' = RowSharers(p) BY DEF RowSharers
  <2> QED BY <2>1, <2>2, <2>3 DEF Locks, Lockers
<1>3. ASSUME NEW c \in Edits PROVE EditLocks(c)'
  <2>1. CASE c = d BY <2>1
  <2>2. CASE c # d
    <3>1. edit'[c] = edit[c] /\ SameRequest(c) BY <2>2 DEF EditsKept, SameRequest
    <3> QED BY <3>1, SameRequestSameNames DEF Locks, EditLocks
  <2> QED BY <2>1, <2>2
<1> QED BY <1>1, <1>2, <1>3 DEF Locks, Holders, Lockers

Base == Types /\ Locks

LEMMA EndedLocks ==
  ASSUME NEW d, Ended(d)
  PROVE  EditLocks(d)' /\ Meant(d)' /\ ~Working(d)'
BY DEF Ended, EditLocks, Meant, Working

LEMMA LockRowLocks ==
  ASSUME Base, NEW d \in Edits, LockRow(d)
  PROVE  Base'
<1>1. EditLocks(d) /\ Types BY DEF Base, Locks
<1>2. Tables' BY <1>1, LockRowShape DEF Types, Tables, DatabaseKept
<1>3. CASE Ended(d)
  BY <1>1, <1>2, <1>3, EndedLocks, LockRowShape, EditTyped, EditsLocks DEF Base, Ended
<1>4. CASE ~Ended(d)
  <2>1. /\ edit[d].pc = "rows" /\ UNCHANGED enrich /\ EditsKept(d) /\ EditTable'
        /\ edit'[d] \in EditRecords
        /\ SameRequest(d) /\ edit'[d].norms = edit[d].norms
    BY <1>1, <1>4, LockRowShape
  <2>2. PICK p \in RowsOf(d) \ edit[d].rows :
          /\ \A q \in RowsOf(d) \ edit[d].rows : p <= q
          /\ RowLockers(p) = {} /\ RowSharers(p) = {}
          /\ people[p] = edit[d].snap.people[p]
          /\ edit'[d].rows = edit[d].rows \union {p}
          /\ \/ edit'[d].pc = "rows" /\ edit'[d].rows # RowsOf(d)
             \/ edit'[d].pc = "names" /\ edit'[d].rows = RowsOf(d) /\ BothActive(d)
    BY <1>1, <1>4, LockRowShape
  <2>3. Working(d) /\ RowsOf(d) \subseteq Ids /\ Ids \subseteq Nat
    BY <1>1, <2>1, RequestType, NoneIsNoId DEF Working
  <2>4. Meant(d)'
    BY <1>1, <2>1, <2>3, SameRequestSameNames DEF Types, Meant, SameRequest, Exists
  <2>5. EditLocks(d)'
    <3>1. edit[d].rows \subseteq RowsOf(d) /\ edit[d].norms = {}
          /\ \A r \in edit[d].rows, q \in RowsOf(d) \ edit[d].rows : r < q
      BY <1>1, <2>1 DEF EditLocks
    <3>2. RowsOf(d)' = RowsOf(d) /\ NewNorms(d)' = NewNorms(d) /\ edit'[d].snap = edit[d].snap
      BY <2>1, SameRequestSameNames DEF SameRequest
    <3>3. CASE edit'[d].pc = "rows"
      <4>1. \A r \in edit'[d].rows, q \in RowsOf(d) \ edit'[d].rows : r < q
        <5> SUFFICES ASSUME NEW r \in edit'[d].rows, NEW q \in RowsOf(d) \ edit'[d].rows
                     PROVE  r < q
          OBVIOUS
        <5>1. q \in RowsOf(d) \ edit[d].rows /\ q # p BY <2>2
        <5>2. CASE r = p
          <6>1. p <= q /\ p \in Nat /\ q \in Nat BY <2>2, <2>3, <5>1
          <6> QED BY <5>1, <5>2, <6>1
        <5>3. CASE r # p
          <6>1. r \in edit[d].rows BY <2>2, <5>3
          <6> QED BY <3>1, <5>1, <6>1
        <5> QED BY <5>2, <5>3
      <4> QED BY <2>1, <2>2, <3>1, <3>2, <3>3, <4>1 DEF EditLocks
    <3>4. CASE edit'[d].pc = "names"
      <4>1. edit'[d].rows = RowsOf(d) BY <2>2, <3>4
      <4>2. NewNorms(d) # {} BY <1>1, <2>3, RequestType
      <4> QED BY <2>1, <3>1, <3>2, <3>4, <4>1, <4>2 DEF EditLocks
    <3> QED BY <2>2, <3>3, <3>4
  <2>6. Types' BY <1>1, <1>2, <2>1, <2>4, EditTyped
  <2>7. Locks' BY <2>1, <2>2, <2>5, EditsLocks DEF Base
  <2> QED BY <2>6, <2>7 DEF Base
<1> QED BY <1>3, <1>4
LEMMA LockNormLocks ==
  ASSUME Base, NEW d \in Edits, LockNorm(d)
  PROVE  Base'
<1>1. EditLocks(d) /\ Types BY DEF Base, Locks
<1>2. Tables' BY <1>1, LockNormShape DEF Types, Tables, DatabaseKept
<1>3. CASE Ended(d)
  BY <1>1, <1>2, <1>3, EndedLocks, LockNormShape, EditTyped, EditsLocks DEF Base, Ended
<1>4. CASE ~Ended(d)
  <2>1. /\ edit[d].pc = "names" /\ UNCHANGED enrich /\ EditsKept(d) /\ EditTable'
        /\ edit'[d] \in EditRecords
        /\ SameRequest(d) /\ edit'[d].rows = edit[d].rows
    BY <1>1, <1>4, LockNormShape
  <2>2. PICK n \in NewNorms(d) \ edit[d].norms :
          /\ \A m \in NewNorms(d) \ edit[d].norms : n <= m
          /\ NameHolders(n) = {}
          /\ edit'[d].norms = edit[d].norms \union {n}
          /\ \/ edit'[d].pc = "names" /\ edit'[d].norms # NewNorms(d)
             \/ edit'[d].pc = "write" /\ edit'[d].norms = NewNorms(d) /\ ~Conflict(d)
    BY <1>1, <1>4, LockNormShape
  <2>3. Working(d) /\ NewNorms(d) \subseteq Norms /\ Norms \subseteq Nat
    BY <1>1, <2>1, RequestType, NoneIsNoId DEF Working
  <2>4. Meant(d)'
    BY <1>1, <2>1, <2>3, SameRequestSameNames DEF Types, Meant, SameRequest, Exists
  <2>5. EditLocks(d)'
    <3>1. /\ edit[d].norms \subseteq NewNorms(d) /\ edit[d].rows = RowsOf(d)
          /\ \A m \in edit[d].norms, x \in NewNorms(d) \ edit[d].norms : m < x
      BY <1>1, <2>1 DEF EditLocks
    <3>2. /\ RowsOf(d)' = RowsOf(d) /\ NewNorms(d)' = NewNorms(d)
          /\ (Conflict(d)' <=> Conflict(d))
      BY <2>1, SameRequestSameNames
    <3>3. CASE edit'[d].pc = "names"
      <4>1. \A m \in edit'[d].norms, x \in NewNorms(d) \ edit'[d].norms : m < x
        <5> SUFFICES ASSUME NEW m \in edit'[d].norms, NEW x \in NewNorms(d) \ edit'[d].norms
                     PROVE  m < x
          OBVIOUS
        <5>1. x \in NewNorms(d) \ edit[d].norms /\ x # n BY <2>2
        <5>2. CASE m = n
          <6>1. n <= x /\ n \in Nat /\ x \in Nat BY <2>2, <2>3, <5>1
          <6> QED BY <5>1, <5>2, <6>1
        <5>3. CASE m # n
          <6>1. m \in edit[d].norms BY <2>2, <5>3
          <6> QED BY <3>1, <5>1, <6>1
        <5> QED BY <5>2, <5>3
      <4> QED BY <2>1, <2>2, <3>1, <3>2, <3>3, <4>1 DEF EditLocks
    <3>4. CASE edit'[d].pc = "write"
      <4>1. edit'[d].norms = NewNorms(d) /\ ~Conflict(d) BY <2>2, <3>4
      <4> QED BY <2>1, <3>1, <3>2, <3>4, <4>1 DEF EditLocks
    <3> QED BY <2>2, <3>3, <3>4
  <2>6. Types' BY <1>1, <1>2, <2>1, <2>4, EditTyped
  <2>7. \A m \in edit'[d].norms : m \in edit[d].norms \/ NameHolders(m) = {} BY <2>2
  <2>8. Locks' BY <2>1, <2>5, <2>7, EditsLocks DEF Base
  <2> QED BY <2>6, <2>8 DEF Base
<1> QED BY <1>3, <1>4

LEMMA BeginLocks ==
  ASSUME Base, NEW d \in Edits, UpdateBegin(d) \/ MergeBegin(d)
  PROVE  Base'
<1>1. Types BY DEF Base
<1>2. /\ DatabaseKept /\ UNCHANGED enrich /\ EditsKept(d) /\ EditTable'
      /\ edit'[d] \in EditRecords /\ Meant(d)'
      /\ edit'[d].pc = "rows" /\ edit'[d].rows = {} /\ edit'[d].norms = {}
  BY <1>1, BeginShape
<1>3. Tables' BY <1>1, <1>2 DEF Types, Tables, DatabaseKept
<1>4. Types' BY <1>1, <1>2, <1>3, EditTyped
<1>5. EditLocks(d)'
  <2>1. edit'[d].person \in RowsOf(d)'
    BY <1>2, NoneIsNoId DEF RowsOf, Meant, Working
  <2> QED BY <1>2, <2>1 DEF EditLocks
<1>6. Locks' BY <1>2, <1>5, EditsLocks DEF Base
<1> QED BY <1>4, <1>6 DEF Base

LEMMA EditEndLocks ==
  ASSUME Base, NEW d \in Edits, EditCommit(d) \/ EditRollback(d)
  PROVE  Base'
<1>1. Types BY DEF Base
<1>2. /\ UNCHANGED enrich /\ EditsKept(d) /\ EditTable'
      /\ edit'[d] \in EditRecords /\ Ended(d)
  BY <1>1, EditCommitShape, RollbackShape
<1>3. Tables'
  BY <1>1, EditCommitShape, RollbackShape DEF Types, Tables, DatabaseKept
<1>4. Types' BY <1>1, <1>2, <1>3, EndedLocks, EditTyped
<1>5. Locks' BY <1>2, EndedLocks, EditsLocks DEF Base, Ended
<1> QED BY <1>4, <1>5 DEF Base

LEMMA CommitTables ==
  ASSUME Types, NEW e \in Enrichments, EnrichCommit(e)
  PROVE  Tables'
<1>1. people' \in PeopleTables
  <2>1. ASSUME NEW p \in Ids PROVE people'[p] \in PersonRows
    <3>1. people[p] \in PersonRows BY DEF Types, Tables, PeopleTables
    <3>2. \A s \in Spellings : [name |-> s, merged |-> None, version |-> 0] \in PersonRows
      BY DEF PersonRows
    <3>3. \/ people'[p] = people[p]
          \/ \E s \in Spellings :
               people'[p] = [name |-> s, merged |-> None, version |-> 0]
      <4>1. CASE people'[p] = people[p] BY <4>1
      <4>2. CASE people'[p] # people[p]
        <5>1. PICK m \in enrich[e].made :
                /\ m.person = p /\ m.name \in Spellings
                /\ people'[p] = [name |-> m.name, merged |-> None, version |-> 0]
          BY <4>2, CommitShape
        <5> QED BY <5>1
      <4> QED BY <4>1, <4>2
    <3> QED BY <3>1, <3>2, <3>3
  <2>2. people' = [p \in Ids |-> people'[p]] BY CommitShape
  <2> QED BY <2>1, <2>2 DEF PeopleTables
<1>2. aliases' \in AliasTables
  <2>1. ASSUME NEW n \in Norms PROVE aliases'[n] \in Ids \union {None}
    <3>1. aliases[n] \in Ids \union {None} BY DEF Types, Tables, AliasTables
    <3> QED BY <3>1, CommitShape
  <2>2. aliases' = [n \in Norms |-> aliases'[n]] BY CommitShape
  <2> QED BY <2>1, <2>2 DEF AliasTables
<1>3. enrich[e].rows \subseteq Ids BY DEF Types, EnrichRecords
<1>4. links' \in LinkTables /\ meant' \in [Notes -> SUBSET Ids]
  <2>1. {[person |-> p, save |-> 1] : p \in enrich[e].rows} \in SUBSET Links
    BY <1>3 DEF Links
  <2> QED BY <1>3, <2>1, CommitShape DEF Types, Tables, LinkTables
<1> QED BY <1>1, <1>2, <1>4 DEF Tables

LEMMA EnrichNextLocks ==
  ASSUME Base, NEW e \in Enrichments,
         \/ EnrichBegin(e) \/ ResolveByAlias(e) \/ ResolveByName(e)
         \/ CreatePerson(e) \/ LinkPerson(e) \/ EnrichCommit(e) \/ EnrichRollback(e)
  PROVE  Base'
<1>1. Types /\ Locks /\ AtName(e) BY DEF Base, Types
<1>2. CASE ResolveByAlias(e) \/ ResolveByName(e) \/ CreatePerson(e)
  <2>1. /\ DatabaseKept /\ UNCHANGED edit /\ OthersKept(e) /\ EnrichTable'
        /\ enrich'[e] \in EnrichRecords
        /\ NameHolders(NormAt(e)) \subseteq {e}
        /\ enrich[e].pc = "name" /\ enrich'[e].pc = "link"
        /\ enrich'[e].next = enrich[e].next /\ enrich'[e].found \in Ids
        /\ enrich'[e].norms = enrich[e].norms \union {NormAt(e)}
    BY <1>1, <1>2, ResolveShape
  <2>2. \A p \in enrich'[e].shares : p \in enrich[e].shares \/ RowLockers(p) = {}
    <3>1. \/ enrich'[e].shares = enrich[e].shares
          \/ \E p : RowLockers(p) = {} /\ enrich'[e].shares = enrich[e].shares \union {p}
      BY <1>1, <1>2, ResolveShape
    <3> QED BY <3>1
  <2>3. Tables' BY <1>1, <2>1 DEF Types, Tables, DatabaseKept
  <2>4. Types' BY <1>1, <2>1, <2>3, EnrichTyped DEF AtName
  <2>5. Locks' BY <1>1, <2>1, <2>2, EnrichLocks
  <2> QED BY <2>4, <2>5 DEF Base
<1>3. CASE LinkPerson(e)
  <2>1. /\ DatabaseKept /\ UNCHANGED edit /\ OthersKept(e) /\ EnrichTable'
        /\ enrich'[e] \in EnrichRecords
        /\ enrich'[e].pc \in {"name", "commit"}
        /\ enrich'[e].pc = "name" => enrich'[e].next \in DOMAIN Mentions[e]
        /\ RowLockers(enrich[e].found) = {}
        /\ enrich'[e].shares = enrich[e].shares \union {enrich[e].found}
        /\ enrich'[e].norms = enrich[e].norms
    BY <1>1, <1>3, LinkShape
  <2>2. Tables' BY <1>1, <2>1 DEF Types, Tables, DatabaseKept
  <2>3. Types' BY <1>1, <2>1, <2>2, EnrichTyped
  <2>4. Locks' BY <1>1, <2>1, EnrichLocks
  <2> QED BY <2>3, <2>4 DEF Base
<1>4. CASE EnrichBegin(e) \/ EnrichCommit(e) \/ EnrichRollback(e)
  <2>1. /\ UNCHANGED edit /\ OthersKept(e) /\ EnrichTable'
        /\ enrich'[e] \in EnrichRecords /\ Empty(enrich'[e])
        /\ enrich'[e].pc \in {"idle", "name", "commit", "done"}
        /\ enrich'[e].pc = "name" => enrich'[e].next \in DOMAIN Mentions[e]
    BY <1>1, <1>4, FreshShape
  <2>2. Tables'
    BY <1>1, <1>4, CommitTables DEF EnrichBegin, EnrichRollback, Types, Tables
  <2>3. Types' BY <1>1, <2>1, <2>2, EnrichTyped
  <2>4. Locks' BY <1>1, <2>1, EnrichLocks DEF Empty
  <2> QED BY <2>3, <2>4 DEF Base
<1> QED BY <1>2, <1>3, <1>4

LEMMA NextBase == Base /\ [Next]_vars => Base'
<1> SUFFICES ASSUME Base, [Next]_vars PROVE Base' OBVIOUS
<1>1. CASE UNCHANGED vars
  <2>1. \A d \in Edits : SameRequest(d) BY <1>1 DEF vars, SameRequest
  <2>2. Types'
    BY <1>1 DEF vars, Base, Types, Tables, AtName, Meant, Mentioned, Working, RowsOf, Exists
  <2>3. Holders' /\ Lockers'
    BY <1>1 DEF vars, Base, Locks, Holders, Lockers, NameHolders, RowLockers, RowSharers
  <2>4. \A d \in Edits : EditLocks(d)'
    BY <1>1, <2>1, SameRequestSameNames DEF vars, Base, Locks, EditLocks
  <2> QED BY <2>2, <2>3, <2>4 DEF Base, Locks
<1>2. CASE \E e \in Enrichments :
       \/ EnrichBegin(e) \/ ResolveByAlias(e) \/ ResolveByName(e)
       \/ CreatePerson(e) \/ LinkPerson(e) \/ EnrichCommit(e) \/ EnrichRollback(e)
  BY <1>2, EnrichNextLocks
<1>3. CASE \E d \in Edits :
       \/ UpdateBegin(d) \/ MergeBegin(d) \/ LockRow(d)
       \/ LockNorm(d) \/ EditCommit(d) \/ EditRollback(d)
  BY <1>3, BeginLocks, LockRowLocks, LockNormLocks, EditEndLocks
<1> QED BY <1>1, <1>2, <1>3 DEF Next

LEMMA InitBase == Init => Base
<1> SUFFICES ASSUME Init PROVE Base OBVIOUS
<1>1. /\ \A e \in Enrichments : enrich[e].norms = {} /\ enrich[e].shares = {}
      /\ \A d \in Edits : /\ edit[d].pc = "idle" /\ edit[d].rows = {}
                          /\ edit[d].norms = {}
  BY DEF Init, Fresh, Unsent
<1>2. Holders /\ Lockers BY <1>1 DEF Holders, Lockers, NameHolders, RowLockers
<1>3. \A d \in Edits : EditLocks(d) BY <1>1 DEF EditLocks
<1> QED BY <1>2, <1>3, InitTypes DEF Base, Locks

-----------------------------------------------------------------------------
(* An edit that waits has locked what comes before, so the one of a circle *)
(* that waits for the last name, or row, would wait for one that waits for *)
(* a later one.                                                            *)
Wanted(d) == Min(NewNorms(d) \ edit[d].norms)

LEMMA NoCircle ==
  ASSUME Base
  PROVE  EditsNeverDeadlock
<1> SUFFICES ASSUME NEW S, S \subseteq Edits, S # {},
                    \A d \in S : WaitsFor(d) \intersect S # {}
             PROVE  FALSE
  BY DEF EditsNeverDeadlock
<1>1. ASSUME NEW d \in S
      PROVE  /\ edit[d].pc \in {"rows", "names"} /\ Working(d) /\ EditLocks(d)
             /\ edit[d].pc = "rows" =>
                  NextRow(d) \in Nat /\ \E c \in S : NextRow(d) \in edit[c].rows
             /\ edit[d].pc = "names" =>
                  Wanted(d) \in Nat /\ \E c \in S : Wanted(d) \in edit[c].norms
  <2>1. PICK c \in S : c \in WaitsFor(d) OBVIOUS
  <2>2. edit[d].pc \in {"rows", "names"} BY <2>1 DEF WaitsFor
  <2>3. Working(d) /\ EditLocks(d) /\ Types BY <2>2 DEF Working, Base, Locks
  <2>4. CASE edit[d].pc = "rows"
    <3>1. c \in RowLockers(NextRow(d)) BY <2>1, <2>4 DEF WaitsFor
    <3>2. RowsOf(d) \ edit[d].rows # {} /\ RowsOf(d) \subseteq Nat
      BY <2>3, <2>4, RequestType, NoneIsNoId DEF EditLocks
    <3>3. NextRow(d) \in Nat BY <3>2, LeastOf DEF NextRow
    <3> QED BY <2>3, <2>4, <3>1, <3>3 DEF RowLockers
  <2>5. CASE edit[d].pc = "names"
    <3>1. c \in NameHolders(Wanted(d)) BY <2>1, <2>5 DEF WaitsFor, Wanted
    <3>2. NewNorms(d) \ edit[d].norms # {} /\ NewNorms(d) \subseteq Nat
      BY <2>3, <2>5, RequestType, NoneIsNoId DEF EditLocks
    <3>3. Wanted(d) \in Nat BY <3>2, LeastOf DEF Wanted
    <3>4. c \notin Enrichments BY PeopleAssumption
    <3> QED BY <2>3, <2>5, <3>1, <3>3, <3>4 DEF NameHolders
  <2> QED BY <2>2, <2>3, <2>4, <2>5
<1>2. ASSUME NEW T, T \subseteq S, T # {} PROVE IsFiniteSet(T)
  <2>1. IsFiniteSet(Edits) BY PeopleAssumption
  <2> QED BY <1>2, <2>1, FS_Subset
<1>3. CASE \E d \in S : edit[d].pc = "names"
  <2> DEFINE T == {d \in S : edit[d].pc = "names"}
             w == [d \in T |-> Wanted(d)]
  <2>1. PICK d \in T : \A c \in T : w[c] <= w[d]
    <3>1. T \subseteq S /\ T # {} /\ IsFiniteSet(T) BY <1>2, <1>3
    <3>2. \A c \in T : w[c] \in Nat BY <1>1
    <3> HIDE DEF T, w
    <3> QED BY <3>1, <3>2, GreatestOf
  <2>2. PICK c \in S : Wanted(d) \in edit[c].norms BY <1>1, <2>1
  <2>3. edit[c].pc = "names" BY <1>1, <2>2 DEF EditLocks
  <2>4. Wanted(c) \in NewNorms(c) \ edit[c].norms
    <3>1. EditLocks(c) /\ Working(c) /\ Types BY <1>1 DEF Base
    <3>2. NewNorms(c) \ edit[c].norms # {} /\ NewNorms(c) \subseteq Nat
      BY <2>3, <3>1, RequestType, NoneIsNoId DEF EditLocks
    <3> QED BY <3>2, LeastOf DEF Wanted
  <2>5. Wanted(d) < Wanted(c) BY <1>1, <2>2, <2>3, <2>4 DEF EditLocks
  <2>6. Wanted(c) <= Wanted(d) BY <2>1, <2>3
  <2> QED BY <1>1, <2>1, <2>3, <2>5, <2>6
<1>4. CASE ~\E d \in S : edit[d].pc = "names"
  <2> DEFINE w == [d \in S |-> NextRow(d)]
  <2>0. \A d \in S : edit[d].pc = "rows" BY <1>1, <1>4
  <2>1. PICK d \in S : \A c \in S : w[c] <= w[d]
    <3>1. \A c \in S : w[c] \in Nat BY <1>1, <2>0
    <3> HIDE DEF w
    <3> QED BY <1>2, <3>1, GreatestOf
  <2>2. PICK c \in S : NextRow(d) \in edit[c].rows BY <1>1, <2>0
  <2>4. NextRow(c) \in RowsOf(c) \ edit[c].rows
    <3>1. EditLocks(c) /\ Working(c) /\ Types BY <1>1 DEF Base
    <3>2. RowsOf(c) \ edit[c].rows # {} /\ RowsOf(c) \subseteq Nat
      BY <2>0, <3>1, RequestType, NoneIsNoId DEF EditLocks
    <3> QED BY <3>2, LeastOf DEF NextRow
  <2>5. NextRow(d) < NextRow(c) BY <1>1, <2>0, <2>2, <2>4 DEF EditLocks
  <2>6. NextRow(c) <= NextRow(d) BY <2>1
  <2> QED BY <1>1, <2>0, <2>5, <2>6
<1> QED BY <1>3, <1>4

(* Updates and merges alone never wait for each other in a circle.         *)
THEOREM NoDeadlock == Spec => []EditsNeverDeadlock
BY InitBase, NextBase, NoCircle, PTL DEF Spec
-----------------------------------------------------------------------------
(* A row changes once for an edit that is done.                            *)
Done == {d \in Edits : edit[d].pc = "done"}
Counted == \A p \in Ids : people[p].version <= Cardinality(Done)

LEMMA DoneType == IsFiniteSet(Done) /\ Cardinality(Done) \in Nat
                  /\ Cardinality(Done) <= Cardinality(Edits) /\ Cardinality(Edits) \in Nat
BY PeopleAssumption, FS_Subset, FS_CardinalityType DEF Done

LEMMA DoneGrows ==
  ASSUME NEW d \in Edits, edit[d].pc # "done", EditsKept(d)
  PROVE  /\ IsFiniteSet(Done') /\ Cardinality(Done') \in Nat
         /\ Cardinality(Done) <= Cardinality(Done')
         /\ edit'[d].pc = "done" => Cardinality(Done') = Cardinality(Done) + 1
<1>1. Done' = IF edit'[d].pc = "done" THEN Done \union {d} ELSE Done
  BY DEF Done, EditsKept
<1>2. d \notin Done BY DEF Done
<1>3. Cardinality(Done \union {d}) = Cardinality(Done) + 1 /\ IsFiniteSet(Done \union {d})
  BY <1>2, DoneType, FS_AddElement
<1> QED BY <1>1, <1>3, DoneType

LEMMA NextCounted == Base /\ Counted /\ [Next]_vars => Counted'
<1> SUFFICES ASSUME Base, Counted, [Next]_vars PROVE Counted' OBVIOUS
<1>0. /\ Types /\ \A d \in Edits : EditLocks(d)
      /\ \A p \in Ids : people[p].version \in Nat
  BY DEF Base, Locks, Types, Tables, PeopleTables, PersonRows
<1>1. CASE UNCHANGED vars BY <1>1 DEF vars, Counted, Done
<1>2. CASE \E e \in Enrichments :
       \/ EnrichBegin(e) \/ ResolveByAlias(e) \/ ResolveByName(e)
       \/ CreatePerson(e) \/ LinkPerson(e) \/ EnrichCommit(e) \/ EnrichRollback(e)
  <2>1. PICK e \in Enrichments :
       \/ EnrichBegin(e) \/ ResolveByAlias(e) \/ ResolveByName(e)
       \/ CreatePerson(e) \/ LinkPerson(e) \/ EnrichCommit(e) \/ EnrichRollback(e)
    BY <1>2
  <2>2. Done' = Done
    BY <2>1 DEF Done, EnrichBegin, ResolveByAlias, ResolveByName, CreatePerson, LinkPerson,
                EnrichCommit, EnrichRollback
  <2>3. ASSUME NEW p \in Ids
        PROVE  people'[p].version = people[p].version \/ people'[p].version = 0
    <3>1. CASE EnrichCommit(e)
      <4>1. CASE people'[p] = people[p] BY <4>1
      <4>2. CASE people'[p] # people[p]
        <5>1. PICK m \in enrich[e].made :
                people'[p] = [name |-> m.name, merged |-> None, version |-> 0]
          BY <1>0, <3>1, <4>2, CommitShape
        <5> QED BY <5>1
      <4> QED BY <4>1, <4>2
    <3>2. CASE ~EnrichCommit(e)
      BY <2>1, <3>2 DEF EnrichBegin, ResolveByAlias, ResolveByName, CreatePerson, LinkPerson,
                        EnrichRollback
    <3> QED BY <3>1, <3>2
  <2> QED BY <1>0, <2>2, <2>3, DoneType DEF Counted
<1>3. CASE \E d \in Edits :
       \/ UpdateBegin(d) \/ MergeBegin(d) \/ LockRow(d)
       \/ LockNorm(d) \/ EditCommit(d) \/ EditRollback(d)
  <2>1. PICK d \in Edits :
       \/ UpdateBegin(d) \/ MergeBegin(d) \/ LockRow(d)
       \/ LockNorm(d) \/ EditCommit(d) \/ EditRollback(d)
    BY <1>3
  <2>2. EditsKept(d) /\ edit[d].pc # "done"
    BY <1>0, <2>1, BeginShape, LockRowShape, LockNormShape, EditCommitShape, RollbackShape
       DEF Working
  <2>3. /\ Cardinality(Done') \in Nat /\ Cardinality(Done) \in Nat
        /\ Cardinality(Done) <= Cardinality(Done')
    BY <2>2, DoneGrows, DoneType
  <2>4. CASE EditCommit(d)
    <3>1. Cardinality(Done') = Cardinality(Done) + 1
      BY <1>0, <2>2, <2>4, DoneGrows, EditCommitShape DEF Ended
    <3>2. ASSUME NEW p \in Ids
          PROVE  people'[p].version \in {people[p].version, people[p].version + 1}
      BY <1>0, <2>4, EditCommitShape
    <3> QED BY <1>0, <2>3, <3>1, <3>2 DEF Counted
  <2>5. CASE ~EditCommit(d)
    <3>1. people' = people
      BY <2>1, <2>5 DEF UpdateBegin, MergeBegin, LockRow, LockNorm, EditRollback, EditOnly
    <3> QED BY <1>0, <2>3, <3>1 DEF Counted
  <2> QED BY <2>4, <2>5
<1> QED BY <1>1, <1>2, <1>3 DEF Next

LEMMA AtMostOne ==
  ASSUME NEW S, \A x, y \in S : x = y
  PROVE  Cardinality(S) <= 1
<1>1. CASE S = {} BY <1>1, FS_EmptySet
<1>2. CASE S # {}
  <2>1. PICK x \in S : TRUE BY <1>2
  <2>2. S = {x} BY <2>1
  <2>3. Cardinality({x}) = 1 BY FS_Singleton
  <2> QED BY <2>2, <2>3
<1> QED BY <1>1, <1>2

(* Every row has its type; a name is locked by one transaction, a row for  *)
(* update by one edit and then shared by none.                             *)
THEOREM TypeCorrect == Spec => []TypeOK
<1>1. Init => Counted
  <2> SUFFICES ASSUME Init, NEW p \in Ids PROVE people[p].version <= Cardinality(Done)
    BY DEF Counted
  <2>1. people[p].version = 0 BY DEF Init, NoRow
  <2> QED BY <2>1, DoneType
<1>2. Base /\ Counted => TypeOK
  <2> SUFFICES ASSUME Base, Counted PROVE TypeOK OBVIOUS
  <2>1. Tables /\ Holders /\ Lockers BY DEF Base, Types, Locks
  <2>2. people \in [Ids -> [name : Spellings \union {None}, merged : Ids \union {None},
                            version : 0..Cardinality(Edits)]]
    <3>1. ASSUME NEW p \in Ids
          PROVE  people[p] \in [name : Spellings \union {None}, merged : Ids \union {None},
                                version : 0..Cardinality(Edits)]
      <4>1. people[p] \in PersonRows BY <2>1 DEF Tables, PeopleTables
      <4>2. people[p].version \in 0..Cardinality(Edits)
        <5>1. people[p].version \in Nat BY <4>1 DEF PersonRows
        <5>2. people[p].version <= Cardinality(Done) BY DEF Counted
        <5> QED BY <5>1, <5>2, DoneType
      <4> QED BY <4>1, <4>2 DEF PersonRows
    <3> QED BY <2>1, <3>1 DEF Tables, PeopleTables
  <2>3. links \in [Notes -> SUBSET [person : Ids, save : 0..1]]
    BY <2>1 DEF Tables, LinkTables, Links
  <2>4. \A n \in Norms : Cardinality(NameHolders(n)) <= 1 BY <2>1, AtMostOne DEF Holders
  <2>5. \A p \in Ids : /\ Cardinality(RowLockers(p)) <= 1
                       /\ RowLockers(p) # {} => RowSharers(p) = {}
    BY <2>1, AtMostOne DEF Lockers
  <2> QED BY <2>1, <2>2, <2>3, <2>4, <2>5 DEF TypeOK, Tables, AliasTables
<1> QED BY InitBase, NextBase, NextCounted, <1>1, <1>2, PTL DEF Spec
-----------------------------------------------------------------------------
(* Names.  What an enrichment gives and makes, it may: it holds the names, *)
(* shares the rows, and the ids are no one's.                              *)
Names(tab, al) ==
  /\ \A p, q \in Ids : Active(tab, p) /\ Active(tab, q)
       /\ Norm[tab[p].name] = Norm[tab[q].name] => p = q
  /\ \A n \in Norms : al[n] # None => Active(tab, al[n])
  /\ \A p \in Ids : Active(tab, p) => al[Norm[tab[p].name]] \in {p, None}

Bears(p, n) == Active(people, p) /\ Norm[people[p].name] = n

Gives(e) ==
  /\ \A g \in enrich[e].given :
       /\ g.norm \in enrich[e].norms /\ aliases[g.norm] = None
       /\ \/ \E m \in enrich[e].made : m.person = g.person /\ Norm[m.name] = g.norm
          \/ g.person \in enrich[e].shares /\ Bears(g.person, g.norm)
  /\ \A g, h \in enrich[e].given : g.norm = h.norm => g = h
Makes(e) ==
  /\ \A m \in enrich[e].made :
       /\ ~Exists(people, m.person)
       /\ [norm |-> Norm[m.name], person |-> m.person] \in enrich[e].given
       /\ \A p \in Ids : ~Bears(p, Norm[m.name])
  /\ \A m, k \in enrich[e].made : m.person = k.person => m = k
MakesApart == \A e, f \in Enrichments :
  e # f => \A m \in enrich[e].made, k \in enrich[f].made : m.person # k.person

(* What changes behind the snapshot of an edit shows: a row by its version, *)
(* a name that someone got by its alias.  The aliases of a row that is as  *)
(* it was are those of the snapshot, but for the row's own name.           *)
Unchanged(d, p) == people[p] = edit[d].snap.people[p]
Stays(d) == LET tab == edit[d].snap.people IN
  \A p \in Ids : Exists(tab, p) =>
    Exists(people, p) /\ tab[p].version <= people[p].version
Shows(d) == LET tab == edit[d].snap.people IN
  \A p \in Ids : Active(people, p) =>
    \/ Active(tab, p) /\ Norm[tab[p].name] = Norm[people[p].name]
    \/ aliases[Norm[people[p].name]] = p
Keeps(d) == LET al == edit[d].snap.aliases IN
  \A p \in Ids : Unchanged(d, p) => \A n \in Norms :
    /\ al[n] = p => aliases[n] = p
    /\ aliases[n] = p => al[n] = p \/ n = Norm[people[p].name]
Stands(d) ==
  /\ \A p \in edit[d].rows : Unchanged(d, p)
  /\ edit[d].pc \in {"names", "write"} => \A p \in RowsOf(d) : Active(people, p)
Sees(d) == Working(d) =>
  /\ Names(edit[d].snap.people, edit[d].snap.aliases)
  /\ Stays(d) /\ Shows(d) /\ Keeps(d) /\ Stands(d)

Naming ==
  /\ Names(people, aliases)
  /\ \A e \in Enrichments : Gives(e) /\ Makes(e)
  /\ MakesApart
  /\ \A d \in Edits : Sees(d)

LEMMA InitNaming == Init => Naming
<1> SUFFICES ASSUME Init PROVE Naming OBVIOUS
<1>1. /\ \A e \in Enrichments : enrich[e].made = {} /\ enrich[e].given = {}
      /\ \A d \in Edits : ~Working(d)
  BY DEF Init, Fresh, Unsent, Working
<1>2. Types BY InitTypes
<1>3. \A p \in Ids : Active(people, p) => p \in DOMAIN Known /\ people[p].name = Known[p]
  BY DEF Init, Active, Exists, NoRow
<1>4. \A p \in DOMAIN Known : p \in Ids => Active(people, p)
  <2>1. \A p \in DOMAIN Known : Known[p] \in Spellings
    <3>1. Known \in Seq(Spellings) BY PeopleAssumption
    <3> QED BY <3>1
  <2> QED BY <2>1, NoneIsNoId DEF Init, Active, Exists
<1>5. \A i, j \in DOMAIN Known : Norm[Known[i]] = Norm[Known[j]] => i = j
  BY PeopleAssumption
<1>6. PICK missing \in SUBSET DOMAIN Known : aliases = [n \in Norms |->
       IF \E p \in DOMAIN Known \ missing : Norm[Known[p]] = n
       THEN CHOOSE p \in DOMAIN Known : Norm[Known[p]] = n ELSE None]
  BY DEF Init
<1>7. ASSUME NEW n \in Norms, aliases[n] # None
      PROVE  aliases[n] \in DOMAIN Known /\ Norm[Known[aliases[n]]] = n
  <2>1. PICK p \in DOMAIN Known \ missing : Norm[Known[p]] = n BY <1>6, <1>7
  <2>2. aliases[n] = CHOOSE q \in DOMAIN Known : Norm[Known[q]] = n BY <1>6, <2>1
  <2> QED BY <2>1, <2>2
<1>8. Names(people, aliases)
  <2>1. \A n \in Norms : aliases[n] # None => Active(people, aliases[n])
    BY <1>2, <1>4, <1>7 DEF Types, Tables, AliasTables
  <2>2. ASSUME NEW p \in Ids, Active(people, p)
        PROVE  aliases[Norm[people[p].name]] \in {p, None}
    <3>1. Norm[people[p].name] \in Norms
      BY <1>2, <2>2, NormOfName DEF Types, Tables, Active
    <3> QED BY <1>3, <1>5, <1>7, <2>2, <3>1
  <2> QED BY <1>3, <1>5, <2>1, <2>2 DEF Names
<1> QED BY <1>1, <1>8 DEF Naming, Gives, Makes, MakesApart, Sees

(* A step that leaves people and aliases as they are.                      *)
Reads == people' = people /\ aliases' = aliases

LEMMA NamesKept ==
  ASSUME Naming, Reads
  PROVE  Names(people, aliases)'
BY DEF Naming, Names, Reads, Active, Exists

LEMMA EditSeesAsBefore ==
  ASSUME Naming, Reads, NEW d \in Edits, edit'[d] = edit[d]
  PROVE  Sees(d)'
<1>1. Working(d)' <=> Working(d) BY DEF Working
<1>2. SUFFICES ASSUME Working(d) PROVE Sees(d)' BY <1>1 DEF Sees
<1>3. Sees(d) BY DEF Naming
<1>4. Names(edit[d].snap.people, edit[d].snap.aliases)'
  <2>1. Names(edit'[d].snap.people, edit'[d].snap.aliases) BY <1>2, <1>3 DEF Sees
  <2> QED BY <2>1 DEF Names, Active, Exists
<1>5. Stays(d)' BY <1>2, <1>3 DEF Sees, Stays, Exists, Reads
<1>6. Shows(d)' BY <1>2, <1>3 DEF Sees, Shows, Active, Exists, Reads
<1>7. Keeps(d)' BY <1>2, <1>3 DEF Sees, Keeps, Unchanged, Reads
<1>8. Stands(d)' BY <1>2, <1>3 DEF Sees, Stands, Unchanged, RowsOf, Active, Exists, Reads
<1> QED BY <1>4, <1>5, <1>6, <1>7, <1>8 DEF Sees

LEMMA EnrichGivesAsBefore ==
  ASSUME Naming, Reads, NEW e \in Enrichments, enrich'[e] = enrich[e]
  PROVE  Gives(e)' /\ Makes(e)'
BY DEF Naming, Reads, Gives, Makes, Bears, Active, Exists

LEMMA ResolveNaming ==
  ASSUME Base, Naming, NEW e \in Enrichments,
         ResolveByAlias(e) \/ ResolveByName(e) \/ CreatePerson(e)
  PROVE  Gives(e)' /\ Makes(e)' /\ MakesApart'
<1> DEFINE n == NormAt(e)
<1>1. Types /\ Gives(e) /\ Makes(e) /\ MakesApart BY DEF Base, Naming
<1>2. /\ Reads /\ OthersKept(e) /\ enrich'[e].norms = enrich[e].norms \union {n}
      /\ n \in Norms /\ Mentioned(e) \in Spellings
  BY <1>1, ResolveShape DEF Reads, DatabaseKept, Types, AtName, NormAt
<1>3. AliasOwner(e, n) = None =>
        aliases[n] = None /\ \A g \in enrich[e].given : g.norm # n
  BY <1>1, <1>2, AliasOwnerType DEF OwnAlias
<1>4. CASE /\ enrich'[e].shares = enrich[e].shares
           /\ enrich'[e].made = enrich[e].made /\ enrich'[e].given = enrich[e].given
  <2>1. Gives(e)' BY <1>1, <1>2, <1>4 DEF Gives, Bears, Active, Exists, Reads
  <2>2. Makes(e)' BY <1>1, <1>2, <1>4 DEF Makes, Bears, Active, Exists, Reads
  <2>3. MakesApart' BY <1>1, <1>2, <1>4 DEF MakesApart, OthersKept
  <2> QED BY <2>1, <2>2, <2>3
<1>5. ASSUME AliasOwner(e, n) = None,
             NEW p \in ByName(n),
             enrich'[e].shares = enrich[e].shares \union {p},
             enrich'[e].made = enrich[e].made,
             enrich'[e].given = enrich[e].given \union {[norm |-> n, person |-> p]}
      PROVE  Gives(e)' /\ Makes(e)' /\ MakesApart'
  <2> DEFINE new == [norm |-> n, person |-> p]
  <2>0. new.norm = n /\ new.person = p OBVIOUS
  <2>1. Bears(p, n) BY DEF Bears, ByName
  <2>2. \A q, m : Bears(q, m)' <=> Bears(q, m) BY <1>2 DEF Bears, Active, Exists, Reads
  <2>a. enrich'[e].given = enrich[e].given \union {new} BY <1>5
  <2> HIDE DEF n, new
  <2>3. Gives(e)'
    <3>1. ASSUME NEW g \in enrich'[e].given
          PROVE  /\ g.norm \in enrich'[e].norms /\ aliases'[g.norm] = None
                 /\ \/ \E m \in enrich'[e].made : m.person = g.person /\ Norm[m.name] = g.norm
                    \/ g.person \in enrich'[e].shares /\ Bears(g.person, g.norm)'
      <4>1. CASE g = new BY <1>2, <1>3, <1>5, <2>0, <2>1, <2>2, <4>1 DEF Reads
      <4>2. CASE g # new
        <5>1. g \in enrich[e].given BY <2>a, <4>2
        <5> QED BY <1>1, <1>2, <1>5, <2>2, <5>1 DEF Gives, Reads
      <4> QED BY <4>1, <4>2
    <3>2. \A g, h \in enrich'[e].given : g.norm = h.norm => g = h
      BY <1>1, <1>3, <1>5, <2>0, <2>a DEF Gives
    <3> QED BY <3>1, <3>2 DEF Gives
  <2>4. Makes(e)' BY <1>1, <1>2, <1>5, <2>2 DEF Makes, Exists, Reads
  <2>5. MakesApart' BY <1>1, <1>2, <1>5 DEF MakesApart, OthersKept
  <2> QED BY <2>3, <2>4, <2>5
<1>6. ASSUME AliasOwner(e, n) = None, ByName(n) = {},
             NEW p \in Unused,
             enrich'[e].shares = enrich[e].shares,
             enrich'[e].made = enrich[e].made
               \union {[person |-> p, name |-> Mentioned(e)]},
             enrich'[e].given = enrich[e].given \union {[norm |-> n, person |-> p]}
      PROVE  Gives(e)' /\ Makes(e)' /\ MakesApart'
  <2> DEFINE new == [norm |-> n, person |-> p]
             one == [person |-> p, name |-> Mentioned(e)]
  <2>0. /\ new.norm = n /\ new.person = p /\ one.person = p /\ Norm[one.name] = n
        /\ [norm |-> Norm[one.name], person |-> one.person] = new
    BY DEF NormAt
  <2>1. /\ ~Exists(people, p)
        /\ \A f \in Enrichments : \A m \in enrich[f].made : m.person # p
    BY DEF Unused
  <2>2. \A q, m : Bears(q, m)' <=> Bears(q, m) BY <1>2 DEF Bears, Active, Exists, Reads
  <2>3. \A q \in Ids : ~Bears(q, n) BY <1>6 DEF Bears, ByName
  <2>a. /\ enrich'[e].made = enrich[e].made \union {one}
        /\ enrich'[e].given = enrich[e].given \union {new}
    BY <1>6
  <2> HIDE DEF n, new, one
  <2>4. Gives(e)'
    <3>1. ASSUME NEW g \in enrich'[e].given
          PROVE  /\ g.norm \in enrich'[e].norms /\ aliases'[g.norm] = None
                 /\ \/ \E m \in enrich'[e].made : m.person = g.person /\ Norm[m.name] = g.norm
                    \/ g.person \in enrich'[e].shares /\ Bears(g.person, g.norm)'
      <4>1. CASE g = new BY <1>2, <1>3, <1>6, <2>0, <2>a, <4>1 DEF Reads
      <4>2. CASE g # new
        <5>1. g \in enrich[e].given BY <2>a, <4>2
        <5> QED BY <1>1, <1>2, <1>6, <2>2, <2>a, <5>1 DEF Gives, Reads
      <4> QED BY <4>1, <4>2
    <3>2. \A g, h \in enrich'[e].given : g.norm = h.norm => g = h
      BY <1>1, <1>3, <1>6, <2>0, <2>a DEF Gives
    <3> QED BY <3>1, <3>2 DEF Gives
  <2>5. Makes(e)'
    <3>1. ASSUME NEW m \in enrich'[e].made
          PROVE  /\ ~Exists(people', m.person)
                 /\ [norm |-> Norm[m.name], person |-> m.person] \in enrich'[e].given
                 /\ \A q \in Ids : ~Bears(q, Norm[m.name])'
      <4>1. CASE m = one BY <1>2, <2>0, <2>1, <2>2, <2>3, <2>a, <4>1 DEF Exists, Reads
      <4>2. CASE m # one
        <5>1. m \in enrich[e].made BY <2>a, <4>2
        <5> QED BY <1>1, <1>2, <2>2, <2>a, <5>1 DEF Makes, Exists, Reads
      <4> QED BY <4>1, <4>2
    <3>2. \A m, k \in enrich'[e].made : m.person = k.person => m = k
      BY <1>1, <2>0, <2>1, <2>a DEF Makes
    <3> QED BY <3>1, <3>2 DEF Makes, Exists
  <2>6. MakesApart'
    <3> SUFFICES ASSUME NEW f \in Enrichments, NEW g \in Enrichments, f # g,
                        NEW m \in enrich'[f].made, NEW k \in enrich'[g].made
                 PROVE  m.person # k.person
      BY DEF MakesApart
    <3>1. \A h \in Enrichments : \A x \in enrich'[h].made :
            x \in enrich[h].made \/ (h = e /\ x.person = p)
      BY <1>2, <2>0, <2>a DEF OthersKept
    <3> QED BY <1>1, <2>1, <3>1 DEF MakesApart
  <2> QED BY <2>4, <2>5, <2>6
<1> QED BY <1>1, <1>4, <1>5, <1>6, ResolveShape

LEMMA EnrichReadsNaming ==
  ASSUME Base, Naming, NEW e \in Enrichments,
         \/ EnrichBegin(e) \/ ResolveByAlias(e) \/ ResolveByName(e)
         \/ CreatePerson(e) \/ LinkPerson(e) \/ EnrichRollback(e)
  PROVE  Naming'
<1>1. Types /\ Gives(e) /\ Makes(e) /\ MakesApart BY DEF Base, Naming
<1>2. Reads /\ UNCHANGED edit
  BY DEF EnrichBegin, ResolveByAlias, ResolveByName, CreatePerson, LinkPerson,
         EnrichRollback, Reads
<1>3. OthersKept(e) BY <1>1, FreshShape, ResolveShape, LinkShape
<1>4. Gives(e)' /\ Makes(e)' /\ MakesApart'
  <2>1. CASE EnrichBegin(e) \/ EnrichRollback(e)
    <3>1. enrich'[e].made = {} /\ enrich'[e].given = {} BY <1>1, <2>1, FreshShape DEF Empty
    <3>2. MakesApart' BY <1>1, <1>3, <3>1 DEF MakesApart, OthersKept
    <3>3. Gives(e)' /\ Makes(e)' BY <3>1 DEF Gives, Makes
    <3> QED BY <3>2, <3>3
  <2>2. CASE ResolveByAlias(e) \/ ResolveByName(e) \/ CreatePerson(e)
    BY <2>2, ResolveNaming
  <2>3. CASE LinkPerson(e)
    <3>1. /\ enrich'[e].norms = enrich[e].norms /\ enrich'[e].made = enrich[e].made
          /\ enrich'[e].given = enrich[e].given
          /\ enrich'[e].shares = enrich[e].shares \union {enrich[e].found}
      BY <1>1, <2>3, LinkShape
    <3>2. Gives(e)' BY <1>1, <1>2, <3>1 DEF Gives, Bears, Active, Exists, Reads
    <3>3. Makes(e)' BY <1>1, <1>2, <3>1 DEF Makes, Bears, Active, Exists, Reads
    <3>4. MakesApart' BY <1>1, <1>3, <3>1 DEF MakesApart, OthersKept
    <3> QED BY <3>2, <3>3, <3>4
  <2> QED BY <2>1, <2>2, <2>3
<1>5. \A f \in Enrichments : Gives(f)' /\ Makes(f)'
  BY <1>2, <1>3, <1>4, EnrichGivesAsBefore DEF OthersKept
<1>6. \A d \in Edits : Sees(d)' BY <1>2, EditSeesAsBefore
<1> QED BY <1>2, <1>4, <1>5, <1>6, NamesKept DEF Naming
(* What the commit of an enrichment makes of the tables.                   *)
Made(e, p) == \E m \in enrich[e].made : m.person = p

LEMMA CommitFacts ==
  ASSUME Base, Naming, NEW e \in Enrichments, EnrichCommit(e)
  PROVE  /\ \A p \in Ids : ~Made(e, p) => people'[p] = people[p]
         /\ \A p \in Ids : Made(e, p) =>
              /\ ~Exists(people, p) /\ Active(people', p)
              /\ Norm[people'[p].name] \in enrich[e].norms
              /\ aliases'[Norm[people'[p].name]] = p
              /\ \A q \in Ids : ~Bears(q, Norm[people'[p].name])
         /\ \A n \in Norms : aliases[n] # None => aliases'[n] = aliases[n]
         /\ \A n \in Norms : aliases'[n] # aliases[n] =>
              /\ aliases[n] = None /\ n \in enrich[e].norms
              /\ \/ Made(e, aliases'[n]) /\ Norm[people'[aliases'[n]].name] = n
                 \/ Bears(aliases'[n], n)
<1>1. Types /\ Gives(e) /\ Makes(e) BY DEF Base, Naming
<1>2. enrich[e] \in EnrichRecords BY <1>1 DEF Types
<1>a. \A p \in Ids :
        \/ /\ people'[p] = people[p] /\ \A m \in enrich[e].made : m.person # p
        \/ \E m \in enrich[e].made :
             /\ m.person = p
             /\ people'[p] = [name |-> m.name, merged |-> None, version |-> 0]
  BY <1>1, CommitShape
<1>3. ASSUME NEW p \in Ids, ~Made(e, p) PROVE people'[p] = people[p]
  BY <1>3, <1>a DEF Made
<1>4. ASSUME NEW m \in enrich[e].made
      PROVE  /\ m.person \in Ids /\ m.name \in Spellings /\ Norm[m.name] \in Norms
             /\ people'[m.person] = [name |-> m.name, merged |-> None, version |-> 0]
             /\ Norm[m.name] \in enrich[e].norms
             /\ aliases[Norm[m.name]] = None /\ aliases'[Norm[m.name]] = m.person
  <2>1. m.person \in Ids /\ m.name \in Spellings /\ Norm[m.name] \in Norms
    BY <1>2, NoneIsNoId DEF EnrichRecords
  <2>2. people'[m.person] = [name |-> m.name, merged |-> None, version |-> 0]
    <3>1. PICK k \in enrich[e].made :
            /\ k.person = m.person
            /\ people'[m.person] = [name |-> k.name, merged |-> None, version |-> 0]
      BY <1>a, <2>1
    <3>2. k = m BY <1>1, <3>1 DEF Makes
    <3> QED BY <3>1, <3>2
  <2> DEFINE g == [norm |-> Norm[m.name], person |-> m.person]
  <2>3. g \in enrich[e].given /\ g.norm = Norm[m.name] /\ g.person = m.person
    BY <1>1 DEF Makes
  <2> HIDE DEF g
  <2>4. Norm[m.name] \in enrich[e].norms /\ aliases[Norm[m.name]] = None
    BY <1>1, <2>3 DEF Gives
  <2>5. aliases'[Norm[m.name]] = m.person
    <3>1. PICK h \in enrich[e].given :
            h.norm = Norm[m.name] /\ aliases'[Norm[m.name]] = h.person
      BY <1>1, <2>1, <2>3, <2>4, CommitShape
    <3>2. h = g BY <1>1, <2>3, <3>1 DEF Gives
    <3> QED BY <2>3, <3>1, <3>2
  <2> QED BY <2>1, <2>2, <2>4, <2>5
<1>5. ASSUME NEW p \in Ids, Made(e, p)
      PROVE  /\ ~Exists(people, p) /\ Active(people', p)
             /\ Norm[people'[p].name] \in enrich[e].norms
             /\ aliases'[Norm[people'[p].name]] = p
             /\ \A q \in Ids : ~Bears(q, Norm[people'[p].name])
  <2>1. PICK m \in enrich[e].made : m.person = p BY <1>5 DEF Made
  <2>2. people'[p].name = m.name /\ people'[p].merged = None
    <3>1. people'[p] = [name |-> m.name, merged |-> None, version |-> 0] BY <1>4, <2>1
    <3> QED BY <3>1
  <2>3. Active(people', p) BY <1>4, <2>1, <2>2, NoneIsNoId DEF Active, Exists
  <2> QED BY <1>1, <1>4, <2>1, <2>2, <2>3 DEF Makes
<1>6. \A n \in Norms : aliases[n] # None => aliases'[n] = aliases[n] BY <1>1, CommitShape
<1>7. ASSUME NEW n \in Norms, aliases'[n] # aliases[n]
      PROVE  /\ aliases[n] = None /\ n \in enrich[e].norms
             /\ \/ Made(e, aliases'[n]) /\ Norm[people'[aliases'[n]].name] = n
                \/ Bears(aliases'[n], n)
  <2>1. PICK g \in enrich[e].given :
          g.norm = n /\ g.person \in Ids /\ aliases'[n] = g.person
    BY <1>1, <1>7, CommitShape
  <2>2. aliases[n] = None /\ n \in enrich[e].norms BY <1>1, <2>1 DEF Gives
  <2>3. CASE \E m \in enrich[e].made : m.person = g.person /\ Norm[m.name] = g.norm
    <3>1. PICK m \in enrich[e].made : m.person = g.person /\ Norm[m.name] = g.norm BY <2>3
    <3>2. people'[m.person].name = m.name
      <4>1. people'[m.person] = [name |-> m.name, merged |-> None, version |-> 0] BY <1>4
      <4> QED BY <4>1
    <3> QED BY <2>1, <2>2, <3>1, <3>2 DEF Made
  <2>4. CASE Bears(g.person, g.norm) BY <2>1, <2>2, <2>4
  <2> QED BY <1>1, <2>1, <2>3, <2>4 DEF Gives
<1> QED BY <1>3, <1>5, <1>6, <1>7

LEMMA CommitNames ==
  ASSUME Base, Naming, NEW e \in Enrichments, EnrichCommit(e)
  PROVE  Names(people, aliases)'
<1>1. Tables /\ Tables' /\ Names(people, aliases)
  BY CommitTables DEF Base, Naming, Types
<1>2. ASSUME NEW p \in Ids, Active(people', p)
      PROVE  /\ Norm[people'[p].name] \in Norms
             /\ Made(e, p) \/ (Active(people, p) /\ people'[p] = people[p])
  BY <1>1, <1>2, CommitFacts, NormOfName DEF Tables, Active, Exists
<1>3. ASSUME NEW p \in Ids, NEW q \in Ids, Active(people', p), Active(people', q),
             Norm[people'[p].name] = Norm[people'[q].name]
      PROVE  p = q
  <2>1. CASE Made(e, p) /\ Made(e, q) BY <1>3, <2>1, CommitFacts
  <2>2. CASE ~Made(e, p) /\ ~Made(e, q) BY <1>1, <1>2, <1>3, <2>2 DEF Names
  <2>3. CASE Made(e, p) /\ ~Made(e, q) BY <1>2, <1>3, <2>3, CommitFacts DEF Bears
  <2>4. CASE ~Made(e, p) /\ Made(e, q) BY <1>2, <1>3, <2>4, CommitFacts DEF Bears
  <2> QED BY <2>1, <2>2, <2>3, <2>4
<1>4. ASSUME NEW n \in Norms, aliases'[n] # None
      PROVE  Active(people', aliases'[n])
  <2>1. aliases'[n] \in Ids BY <1>1, <1>4 DEF Tables, AliasTables
  <2>2. CASE Made(e, aliases'[n]) BY <2>1, <2>2, CommitFacts
  <2>3. CASE ~Made(e, aliases'[n])
    <3>1. Active(people, aliases'[n])
      BY <1>1, <1>4, <2>3, CommitFacts DEF Names, Bears
    <3> QED BY <2>1, <2>3, <3>1, CommitFacts DEF Active, Exists
  <2> QED BY <2>2, <2>3
<1>5. ASSUME NEW p \in Ids, Active(people', p)
      PROVE  aliases'[Norm[people'[p].name]] \in {p, None}
  <2> DEFINE n == Norm[people'[p].name]
  <2>1. CASE Made(e, p) BY <2>1, CommitFacts
  <2>2. CASE ~Made(e, p)
    <3>1. Bears(p, n) /\ aliases[n] \in {p, None} /\ n \in Norms
      BY <1>1, <1>2, <1>5, <2>2 DEF Names, Bears
    <3>2. CASE aliases'[n] = aliases[n] BY <3>1, <3>2
    <3>3. CASE aliases'[n] # aliases[n]
      <4>1. aliases'[n] \in Ids \union {None} BY <1>1, <3>1 DEF Tables, AliasTables
      <4>2. CASE Made(e, aliases'[n]) /\ Norm[people'[aliases'[n]].name] = n
        BY <3>1, <3>3, <4>1, <4>2, CommitFacts
      <4>3. CASE Bears(aliases'[n], n)
        BY <1>1, <3>1, <3>3, <4>1, <4>3 DEF Names, Bears
      <4> QED BY <3>1, <3>3, <4>2, <4>3, CommitFacts
    <3> QED BY <3>2, <3>3
  <2> QED BY <2>1, <2>2
<1> QED BY <1>3, <1>4, <1>5 DEF Names, Active, Exists
LEMMA CommitOthers ==
  ASSUME Base, Naming, NEW e \in Enrichments, EnrichCommit(e),
         NEW f \in Enrichments, f # e
  PROVE  Gives(f)' /\ Makes(f)'
<1>1. /\ Types /\ Gives(f) /\ Makes(f) /\ MakesApart /\ Holders
      /\ enrich[f] \in EnrichRecords /\ Tables'
  BY CommitTables DEF Base, Naming, Types, Locks
<1>2. enrich'[f] = enrich[f] BY <1>1, FreshShape DEF OthersKept
<1>3. \A n \in enrich[f].norms : n \in Norms /\ n \notin enrich[e].norms
  <2> SUFFICES ASSUME NEW n \in enrich[f].norms, n \in enrich[e].norms PROVE FALSE
    BY <1>1 DEF EnrichRecords
  <2>1. n \in Norms /\ e \in NameHolders(n) /\ f \in NameHolders(n)
    BY <1>1 DEF EnrichRecords, NameHolders
  <2> QED BY <1>1, <2>1 DEF Holders
<1>5. ASSUME NEW p \in Ids, Exists(people, p) PROVE people'[p] = people[p]
  BY <1>5, CommitFacts
<1>6. Gives(f)'
  <2>1. ASSUME NEW g \in enrich[f].given
        PROVE  /\ aliases'[g.norm] = None
               /\ Bears(g.person, g.norm) => Bears(g.person, g.norm)'
    <3>1. g.norm \in enrich[f].norms /\ aliases[g.norm] = None /\ g.person \in Ids
      BY <1>1 DEF Gives, EnrichRecords
    <3>2. aliases'[g.norm] = None BY <1>3, <3>1, CommitFacts
    <3> QED BY <1>5, <3>1, <3>2 DEF Bears, Active, Exists
  <2> QED BY <1>1, <1>2, <2>1 DEF Gives
<1>7. Makes(f)'
  <2>1. ASSUME NEW m \in enrich[f].made
        PROVE  /\ ~Exists(people', m.person)
               /\ \A p \in Ids : ~Bears(p, Norm[m.name])'
    <3>1. /\ m.person \in Ids /\ ~Exists(people, m.person)
          /\ [norm |-> Norm[m.name], person |-> m.person] \in enrich[f].given
          /\ \A p \in Ids : ~Bears(p, Norm[m.name])
      BY <1>1 DEF Makes, EnrichRecords
    <3>2. Norm[m.name] \in enrich[f].norms BY <1>1, <3>1 DEF Gives
    <3>3. ~Made(e, m.person) BY <1>1 DEF MakesApart, Made
    <3>4. ~Exists(people', m.person) BY <3>1, <3>3, CommitFacts DEF Exists
    <3>5. ASSUME NEW p \in Ids, Bears(p, Norm[m.name])' PROVE FALSE
      <4>1. CASE Made(e, p) BY <1>3, <3>2, <3>5, <4>1, CommitFacts DEF Bears
      <4>2. CASE ~Made(e, p)
        BY <3>1, <3>5, <4>2, CommitFacts DEF Bears, Active, Exists
      <4> QED BY <4>1, <4>2
    <3> QED BY <3>4, <3>5
  <2> QED BY <1>1, <1>2, <2>1 DEF Makes
<1> QED BY <1>6, <1>7

LEMMA CommitSeen ==
  ASSUME Base, Naming, NEW e \in Enrichments, EnrichCommit(e), NEW d \in Edits
  PROVE  Sees(d)'
<1>1. Types /\ Sees(d) /\ EditLocks(d) /\ Tables /\ Tables'
  BY CommitTables DEF Base, Naming, Types, Locks
<1>2. edit' = edit BY DEF EnrichCommit
<1>3. Working(d)' <=> Working(d) BY <1>2 DEF Working
<1>4. SUFFICES ASSUME Working(d) PROVE Sees(d)' BY <1>3 DEF Sees
<1> DEFINE tab == edit[d].snap.people al == edit[d].snap.aliases
<1>5. Names(tab, al) /\ Stays(d) /\ Shows(d) /\ Keeps(d) /\ Stands(d)
  BY <1>1, <1>4 DEF Sees
<1>6. \A p \in Ids : Exists(people, p) => ~Made(e, p) /\ people'[p] = people[p]
  BY CommitFacts
<1>7. Stays(d)' BY <1>2, <1>5, <1>6 DEF Stays, Exists
<1>8. Shows(d)'
  <2> SUFFICES ASSUME NEW p \in Ids, Active(people', p)
               PROVE  \/ Active(tab, p) /\ Norm[tab[p].name] = Norm[people'[p].name]
                      \/ aliases'[Norm[people'[p].name]] = p
    BY <1>2 DEF Shows, Active, Exists
  <2>1. CASE Made(e, p) BY <2>1, CommitFacts
  <2>2. CASE ~Made(e, p)
    <3>1. people'[p] = people[p] /\ Active(people, p) BY <2>2, CommitFacts DEF Active, Exists
    <3>2. Norm[people[p].name] \in Norms BY <1>1, <3>1, NormOfName DEF Tables, Active
    <3>3. p # None BY NoneIsNoId
    <3> QED BY <1>5, <3>1, <3>2, <3>3, CommitFacts DEF Shows
  <2> QED BY <2>1, <2>2
<1>9. Keeps(d)'
  <2> SUFFICES ASSUME NEW p \in Ids, people'[p] = tab[p], NEW n \in Norms
               PROVE  /\ al[n] = p => aliases'[n] = p
                      /\ aliases'[n] = p => al[n] = p \/ n = Norm[people'[p].name]
    BY <1>2 DEF Keeps, Unchanged
  <2>1. ~Made(e, p)
    <3> SUFFICES ASSUME Made(e, p) PROVE FALSE OBVIOUS
    <3>1. ~Exists(people, p) /\ Active(people', p) BY CommitFacts
    <3>2. Exists(tab, p) BY <3>1 DEF Active, Exists
    <3> QED BY <1>5, <3>1, <3>2 DEF Stays
  <2>2. people'[p] = people[p] /\ Unchanged(d, p) BY <2>1, CommitFacts DEF Unchanged
  <2>3. /\ al[n] = p => aliases[n] = p
        /\ aliases[n] = p => al[n] = p \/ n = Norm[people[p].name]
    BY <1>5, <2>2 DEF Keeps
  <2>4. p # None BY NoneIsNoId
  <2>5. al[n] = p => aliases'[n] = p BY <2>3, <2>4, CommitFacts
  <2>6. ASSUME aliases'[n] = p PROVE al[n] = p \/ n = Norm[people'[p].name]
    <3>1. CASE aliases'[n] = aliases[n] BY <2>2, <2>3, <2>6, <3>1
    <3>2. CASE aliases'[n] # aliases[n]
      <4>1. Bears(p, n) BY <2>1, <2>6, <3>2, CommitFacts
      <4> QED BY <2>2, <4>1 DEF Bears
    <3> QED BY <3>1, <3>2
  <2> QED BY <2>5, <2>6
<1>10. Stands(d)'
  <2>1. RowsOf(d)' = RowsOf(d) BY <1>2 DEF RowsOf
  <2>2. \A p \in RowsOf(d) : p \in Ids /\ Exists(tab, p)
    BY <1>1, <1>4, RequestType DEF Types, Meant
  <2>3. edit[d].rows \subseteq RowsOf(d) BY <1>1, <1>4 DEF EditLocks, Working
  <2>4. \A p \in RowsOf(d) : people'[p] = people[p] BY <1>5, <1>6, <2>2 DEF Stays
  <2> QED BY <1>2, <1>5, <2>1, <2>3, <2>4 DEF Stands, Unchanged, Active, Exists
<1>11. Names(edit[d].snap.people, edit[d].snap.aliases)'
  <2>1. Names(edit'[d].snap.people, edit'[d].snap.aliases) BY <1>2, <1>5
  <2> QED BY <2>1 DEF Names, Active, Exists
<1> QED BY <1>7, <1>8, <1>9, <1>10, <1>11 DEF Sees

LEMMA EnrichNaming ==
  ASSUME Base, Naming, NEW e \in Enrichments,
         \/ EnrichBegin(e) \/ ResolveByAlias(e) \/ ResolveByName(e)
         \/ CreatePerson(e) \/ LinkPerson(e) \/ EnrichCommit(e) \/ EnrichRollback(e)
  PROVE  Naming'
<1>1. CASE EnrichCommit(e)
  <2>1. /\ OthersKept(e) /\ enrich'[e].made = {} /\ enrich'[e].given = {}
    BY <1>1, FreshShape DEF Base, Empty
  <2>2. Gives(e)' /\ Makes(e)' BY <2>1 DEF Gives, Makes
  <2>3. \A f \in Enrichments : Gives(f)' /\ Makes(f)' BY <1>1, <2>2, CommitOthers
  <2>4. MakesApart' BY <2>1 DEF Naming, MakesApart, OthersKept
  <2>5. \A d \in Edits : Sees(d)' BY <1>1, CommitSeen
  <2> QED BY <1>1, <2>3, <2>4, <2>5, CommitNames DEF Naming
<1> QED BY <1>1, EnrichReadsNaming
LEMMA BeginSees ==
  ASSUME Base, Naming, NEW d \in Edits, UpdateBegin(d) \/ MergeBegin(d)
  PROVE  Sees(d)' /\ Reads /\ UNCHANGED enrich /\ EditsKept(d)
<1>1. /\ Reads /\ UNCHANGED enrich /\ EditsKept(d)
      /\ edit'[d].pc = "rows" /\ edit'[d].rows = {} /\ edit'[d].snap = Snapshot
  BY BeginShape DEF Base, Reads, DatabaseKept
<1>2. edit'[d].snap.people = people /\ edit'[d].snap.aliases = aliases BY <1>1 DEF Snapshot
<1>3. Names(edit[d].snap.people, edit[d].snap.aliases)'
  <2>1. Names(edit'[d].snap.people, edit'[d].snap.aliases) BY <1>2 DEF Naming
  <2> QED BY <2>1 DEF Names, Active, Exists
<1>4. Stays(d)'
  <2>1. \A p \in Ids : people[p].version \in Nat
    BY DEF Base, Types, Tables, PeopleTables, PersonRows
  <2>2. \A p \in Ids : people[p].version <= people[p].version BY <2>1
  <2> QED BY <1>1, <1>2, <2>2 DEF Stays, Exists, Reads
<1>5. Shows(d)' BY <1>1, <1>2 DEF Shows, Active, Exists, Reads
<1>6. Keeps(d)' BY <1>1, <1>2 DEF Keeps, Reads
<1>7. Stands(d)' BY <1>1 DEF Stands
<1> QED BY <1>1, <1>3, <1>4, <1>5, <1>6, <1>7 DEF Sees

LEMMA LockSees ==
  ASSUME Base, Naming, NEW d \in Edits, LockRow(d) \/ LockNorm(d)
  PROVE  Sees(d)' /\ Reads /\ UNCHANGED enrich /\ EditsKept(d)
<1>1. Types /\ EditLocks(d) /\ Sees(d) BY DEF Base, Locks, Naming
<1>2. Reads /\ UNCHANGED enrich /\ EditsKept(d)
  BY <1>1, LockRowShape, LockNormShape DEF Reads, DatabaseKept
<1>3. CASE Ended(d) BY <1>2, <1>3, EndedLocks DEF Sees
<1>4. CASE ~Ended(d)
  <2>1. SameRequest(d) /\ Working(d)
    BY <1>1, <1>4, LockRowShape, LockNormShape DEF Working
  <2>2. RowsOf(d)' = RowsOf(d) /\ edit'[d].snap = edit[d].snap
    BY <2>1, SameRequestSameNames DEF SameRequest
  <2>3. /\ Names(edit[d].snap.people, edit[d].snap.aliases)
        /\ Stays(d) /\ Shows(d) /\ Keeps(d) /\ Stands(d)
    BY <1>1, <2>1 DEF Sees
  <2>4. Names(edit'[d].snap.people, edit'[d].snap.aliases) BY <2>2, <2>3
  <2>5. Stays(d)' /\ Shows(d)' BY <1>2, <2>2, <2>3 DEF Stays, Shows, Active, Exists, Reads
  <2>6. Keeps(d)' BY <1>2, <2>2, <2>3 DEF Keeps, Unchanged, Reads
  <2>7. Stands(d)'
    <3>1. CASE LockRow(d)
      <4>1. /\ \A p \in edit'[d].rows : p \in edit[d].rows \/ Unchanged(d, p)
            /\ edit'[d].pc \in {"names", "write"} => BothActive(d)
        BY <1>1, <1>4, <3>1, LockRowShape DEF Unchanged
      <4> QED BY <1>2, <2>2, <2>3, <4>1
              DEF Stands, Unchanged, BothActive, Active, Exists, Reads
    <3>2. CASE LockNorm(d)
      <4>1. edit[d].pc = "names" /\ edit'[d].rows = edit[d].rows
        BY <1>1, <1>4, <3>2, LockNormShape
      <4> QED BY <1>2, <2>2, <2>3, <4>1 DEF Stands, Unchanged, Active, Exists, Reads
    <3> QED BY <3>1, <3>2
  <2>8. Names(edit[d].snap.people, edit[d].snap.aliases)' BY <2>4 DEF Names, Active, Exists
  <2> QED BY <1>2, <2>5, <2>6, <2>7, <2>8 DEF Sees
<1> QED BY <1>3, <1>4

(* No one else has a name that an edit is about to give: who had it when   *)
(* the edit began is a conflict, and who got it since has an alias for it. *)
LEMMA NoOneElse ==
  ASSUME Base, Naming, NEW d \in Edits, edit[d].pc = "write", ~Changed(d)
  PROVE  /\ \A p \in RowsOf(d) : Active(people, p) /\ Unchanged(d, p)
         /\ WritesAliases(d) => \A n \in NewNorms(d) :
              /\ aliases[n] \in RowsOf(d) \union {None}
              /\ \A p \in Ids \ RowsOf(d) : ~Bears(p, n)
         /\ \A n \in Norms : aliases[n] \in RowsOf(d) => n \in NewNorms(d) \union OwnAliases(d)
         /\ \A n \in OwnAliases(d) : aliases[n] \in RowsOf(d)
<1> DEFINE tab == edit[d].snap.people al == edit[d].snap.aliases R == RowsOf(d)
<1>1. Types /\ EditLocks(d) /\ Sees(d) /\ Working(d)
  BY DEF Base, Locks, Naming, Working
<1>2. Names(tab, al) /\ Shows(d) /\ Keeps(d) /\ Stands(d) BY <1>1 DEF Sees
<1>3. /\ edit[d].rows = R /\ R \subseteq Ids /\ ~Conflict(d)
      /\ NewNorms(d) \subseteq Norms /\ OwnAliases(d) \subseteq Norms
      /\ al \in AliasTables
  BY <1>1, RequestType DEF EditLocks, Types, Meant, Snapshots
<1>4. \A p \in R : Active(people, p) /\ Unchanged(d, p) BY <1>2, <1>3 DEF Stands
<1>5. \A n \in NewNorms(d) : al[n] \in R \union {None}
  <2> SUFFICES ASSUME NEW n \in NewNorms(d), al[n] \notin R, al[n] # None PROVE FALSE
    OBVIOUS
  <2>1. Active(tab, al[n]) BY <1>2, <1>3 DEF Names
  <2> QED BY <1>3, <2>1 DEF Conflict, AliasConflict
<1>6. ASSUME WritesAliases(d), NEW n \in NewNorms(d)
      PROVE  /\ aliases[n] \in R \union {None}
             /\ \A p \in Ids \ R : ~Bears(p, n)
  <2>1. aliases[n] = None \/ aliases[n] = al[n] BY <1>6 DEF Changed
  <2>2. aliases[n] \in R \union {None} BY <1>5, <2>1
  <2>3. ASSUME NEW p \in Ids \ R, Bears(p, n) PROVE FALSE
    <3>1. Active(people, p) /\ Norm[people[p].name] = n BY <2>3 DEF Bears
    <3>2. CASE Active(tab, p) /\ Norm[tab[p].name] = n
      BY <1>3, <2>3, <3>2 DEF Conflict, NameConflict
    <3>3. CASE aliases[n] = p BY <2>2, <2>3, <3>3, NoneIsNoId
    <3> QED BY <1>2, <3>1, <3>2, <3>3 DEF Shows
  <2> QED BY <2>2, <2>3
<1>7. ASSUME NEW n \in Norms, aliases[n] \in R
      PROVE  n \in NewNorms(d) \union OwnAliases(d)
  <2> DEFINE p == aliases[n]
  <2>1. p \in Ids /\ Unchanged(d, p) BY <1>3, <1>4, <1>7
  <2>2. CASE al[n] = p BY <1>7, <2>2 DEF OwnAliases
  <2>3. CASE n = Norm[people[p].name]
    <3>1. n = Norm[tab[p].name] BY <2>1, <2>3 DEF Unchanged
    <3> QED BY <1>1, <1>7, <3>1, RequestType
  <2> QED BY <1>2, <2>1, <2>2, <2>3 DEF Keeps
<1>8. ASSUME NEW n \in OwnAliases(d) PROVE aliases[n] \in R
  <2>1. al[n] \in R /\ n \in Norms BY DEF OwnAliases
  <2> QED BY <1>2, <1>3, <1>4, <2>1 DEF Keeps
<1> QED BY <1>4, <1>6, <1>7, <1>8

(* What the commit of an edit makes of the tables.                         *)
LEMMA EditFacts ==
  ASSUME Base, Naming, NEW d \in Edits, EditCommit(d)
  PROVE  /\ RowsOf(d) \subseteq Ids /\ edit[d].person \in RowsOf(d)
         /\ edit[d].rows = RowsOf(d) /\ edit[d].norms = NewNorms(d)
         /\ NewNorms(d) \subseteq Norms
         /\ \A p \in Ids \ RowsOf(d) : people'[p] = people[p]
         /\ \A p \in RowsOf(d) :
              /\ Active(people, p) /\ Exists(people', p)
              /\ people'[p].version = people[p].version + 1
              /\ Active(people', p) => p = edit[d].person
         /\ Active(people', edit[d].person)
         /\ WritesAliases(d) =>
              /\ Norm[people'[edit[d].person].name] \in NewNorms(d)
              /\ \A n \in NewNorms(d) :
                   /\ aliases'[n] = edit[d].person
                   /\ aliases[n] \in RowsOf(d) \union {None}
                   /\ \A p \in Ids \ RowsOf(d) : ~Bears(p, n)
              /\ \A n \in Norms \ NewNorms(d) :
                   \/ aliases'[n] = aliases[n] /\ aliases[n] \notin RowsOf(d)
                   \/ aliases'[n] = None /\ aliases[n] \in RowsOf(d)
         /\ ~WritesAliases(d) =>
              /\ aliases' = aliases /\ RowsOf(d) = {edit[d].person}
              /\ people'[edit[d].person].name = people[edit[d].person].name
<1> DEFINE a == edit[d].person b == edit[d].source
<1>1. Types /\ EditLocks(d) BY DEF Base, Locks
<1>2. /\ edit[d].pc = "write" /\ ~Changed(d) /\ Working(d) /\ people' \in PeopleTables
      /\ aliases' = IF WritesAliases(d) THEN AliasesAfter(d) ELSE aliases
  BY <1>1, EditCommitShape
<1>3. \A p \in Ids :
        \/ p \notin RowsOf(d) /\ people'[p] = people[p]
        \/ /\ p = a /\ people'[p].name = NewName(d)
           /\ people'[p].merged = people[p].merged
           /\ people'[p].version = people[p].version + 1
        \/ /\ p = b /\ p # a
           /\ people'[p].name = people[p].name
           /\ people'[p].merged = a
           /\ people'[p].version = people[p].version + 1
  BY <1>1, EditCommitShape
<1>4. /\ RowsOf(d) \subseteq Ids /\ a \in RowsOf(d) /\ NewName(d) \in Spellings
      /\ Norm[NewName(d)] \in NewNorms(d) /\ NewNorms(d) \subseteq Norms
      /\ RowsOf(d) = {a} \/ edit[d].kind = "merge"
  BY <1>1, <1>2, RequestType
<1>5. edit[d].rows = RowsOf(d) /\ edit[d].norms = NewNorms(d) BY <1>1, <1>2 DEF EditLocks
<1>6. \A p \in RowsOf(d) : Active(people, p) /\ Unchanged(d, p) BY <1>2, NoOneElse
<1>7. people'[a].name = NewName(d) /\ people'[a].merged = None
      /\ people'[a].version = people[a].version + 1
  BY <1>3, <1>4, <1>6 DEF Active
<1>8. Active(people', a) BY <1>4, <1>7, NoneIsNoId DEF Active, Exists
<1>9. ASSUME NEW p \in RowsOf(d), p # a
      PROVE  /\ Exists(people', p) /\ ~Active(people', p)
             /\ people'[p].version = people[p].version + 1
  <2>1. /\ people'[p].name = people[p].name /\ people'[p].merged = a
        /\ people'[p].version = people[p].version + 1
    BY <1>3, <1>4, <1>9
  <2> QED BY <1>4, <1>6, <2>1, NoneIsNoId DEF Active, Exists
<1>10. ASSUME WritesAliases(d)
       PROVE  \A n \in Norms : aliases'[n] =
                IF n \in NewNorms(d) THEN a ELSE IF n \in OwnAliases(d) THEN None ELSE aliases[n]
  BY <1>2, <1>10 DEF AliasesAfter
<1>11. ASSUME WritesAliases(d), NEW n \in Norms \ NewNorms(d)
       PROVE  \/ aliases'[n] = aliases[n] /\ aliases[n] \notin RowsOf(d)
              \/ aliases'[n] = None /\ aliases[n] \in RowsOf(d)
  BY <1>2, <1>10, <1>11, NoOneElse
<1>12. ASSUME ~WritesAliases(d)
       PROVE  /\ aliases' = aliases /\ RowsOf(d) = {a}
              /\ people'[a].name = people[a].name
  <2>1. edit[d].kind # "merge" /\ edit[d].name = None BY <1>12 DEF WritesAliases
  <2>2. NewName(d) = edit[d].snap.people[a].name BY <2>1 DEF NewName
  <2>3. people[a] = edit[d].snap.people[a] BY <1>4, <1>6 DEF Unchanged
  <2> QED BY <1>2, <1>4, <1>7, <1>12, <2>1, <2>2, <2>3
<1>13. ASSUME WritesAliases(d), NEW n \in NewNorms(d)
       PROVE  /\ aliases'[n] = a /\ aliases[n] \in RowsOf(d) \union {None}
              /\ \A p \in Ids \ RowsOf(d) : ~Bears(p, n)
  BY <1>2, <1>4, <1>10, <1>13, NoOneElse
<1>14. \A p \in Ids \ RowsOf(d) : people'[p] = people[p]
  BY <1>3, <1>4, NoneIsNoId DEF RowsOf
<1>15. \A p \in RowsOf(d) :
              /\ Active(people, p) /\ Exists(people', p)
              /\ people'[p].version = people[p].version + 1
              /\ Active(people', p) => p = a
  BY <1>6, <1>7, <1>8, <1>9 DEF Active
<1>16. Norm[people'[a].name] \in NewNorms(d) BY <1>4, <1>7
<1> HIDE DEF a
<1> QED BY <1>4, <1>5, <1>8, <1>11, <1>12, <1>13, <1>14, <1>15, <1>16 DEF a
LEMMA EditNames ==
  ASSUME Base, Naming, NEW d \in Edits, EditCommit(d)
  PROVE  Names(people, aliases)'
<1> DEFINE a == edit[d].person
<1>1. Tables /\ Tables' /\ Names(people, aliases) /\ a \in Ids
  BY EditEndLocks, EditFacts DEF Base, Naming, Types
<1>2. ASSUME NEW p \in Ids, Active(people', p)
      PROVE  /\ Norm[people'[p].name] \in Norms
             /\ \/ p = a /\ Active(people, a)
                \/ p \notin RowsOf(d) /\ people'[p] = people[p] /\ Active(people, p)
  BY <1>1, <1>2, EditFacts, NormOfName DEF Tables, Active, Exists
<1>3. ASSUME NEW q \in Ids, q \notin RowsOf(d), Active(people, q),
             Norm[people'[a].name] = Norm[people[q].name]
      PROVE  FALSE
  <2>1. CASE WritesAliases(d) BY <1>3, <2>1, EditFacts DEF Bears
  <2>2. CASE ~WritesAliases(d)
    <3>1. Active(people, a) /\ Norm[people[a].name] = Norm[people[q].name] /\ q # a
      BY <1>3, <2>2, EditFacts
    <3> QED BY <1>1, <1>3, <3>1 DEF Names
  <2> QED BY <2>1, <2>2
<1>4. ASSUME NEW p \in Ids, NEW q \in Ids, Active(people', p), Active(people', q),
             Norm[people'[p].name] = Norm[people'[q].name]
      PROVE  p = q
  <2>1. CASE p = a /\ q # a BY <1>2, <1>3, <1>4, <2>1
  <2>2. CASE p # a /\ q = a BY <1>2, <1>3, <1>4, <2>2
  <2>3. CASE p # a /\ q # a BY <1>1, <1>2, <1>4, <2>3 DEF Names
  <2> QED BY <2>1, <2>2, <2>3
<1>5. ASSUME NEW n \in Norms, aliases'[n] # None
      PROVE  Active(people', aliases'[n])
  <2>1. aliases'[n] \in Ids BY <1>1, <1>5 DEF Tables, AliasTables
  <2>2. aliases'[n] = a \/ (aliases'[n] = aliases[n] /\ aliases[n] \notin RowsOf(d))
    BY <1>5, EditFacts
  <2>3. CASE aliases'[n] = a BY <2>3, EditFacts
  <2>4. CASE aliases'[n] = aliases[n] /\ aliases[n] \notin RowsOf(d)
    <3>1. Active(people, aliases[n]) BY <1>1, <1>5, <2>4 DEF Names
    <3> QED BY <2>1, <2>4, <3>1, EditFacts DEF Active, Exists
  <2> QED BY <2>2, <2>3, <2>4
<1>6. ASSUME NEW p \in Ids, Active(people', p)
      PROVE  aliases'[Norm[people'[p].name]] \in {p, None}
  <2>1. CASE p = a
    <3>1. CASE WritesAliases(d) BY <2>1, <3>1, EditFacts
    <3>2. CASE ~WritesAliases(d) BY <1>1, <1>2, <1>6, <2>1, <3>2, EditFacts DEF Names
    <3> QED BY <3>1, <3>2
  <2>2. CASE p # a
    <3>1. /\ people'[p] = people[p] /\ aliases[Norm[people[p].name]] \in {p, None}
          /\ p \notin RowsOf(d) /\ Norm[people[p].name] \in Norms
          /\ Bears(p, Norm[people[p].name])
      BY <1>1, <1>2, <1>6, <2>2 DEF Names, Bears
    <3> QED BY <3>1, EditFacts
  <2> QED BY <2>1, <2>2
<1> QED BY <1>4, <1>5, <1>6 DEF Names, Active, Exists

LEMMA EditLetsEnrich ==
  ASSUME Base, Naming, NEW d \in Edits, EditCommit(d), NEW e \in Enrichments
  PROVE  Gives(e)' /\ Makes(e)'
<1>1. /\ Types /\ Gives(e) /\ Makes(e) /\ Holders /\ Lockers /\ enrich[e] \in EnrichRecords
      /\ enrich' = enrich
  BY DEF Base, Naming, Types, Locks, EditCommit
<1>2. \A n \in enrich[e].norms : n \in Norms /\ n \notin NewNorms(d)
  <2> SUFFICES ASSUME NEW n \in enrich[e].norms, n \in NewNorms(d) PROVE FALSE
    BY <1>1 DEF EnrichRecords
  <2>1. n \in Norms /\ e \in NameHolders(n) /\ d \in NameHolders(n)
    BY <1>1, EditFacts DEF EnrichRecords, NameHolders
  <2>2. e # d BY PeopleAssumption
  <2> QED BY <1>1, <2>1, <2>2 DEF Holders
<1>3. \A p \in enrich[e].shares : p \in Ids \ RowsOf(d)
  <2> SUFFICES ASSUME NEW p \in enrich[e].shares, p \in RowsOf(d) PROVE FALSE
    BY <1>1 DEF EnrichRecords
  <2>1. p \in Ids /\ d \in RowLockers(p) /\ e \in RowSharers(p)
    BY EditFacts DEF RowLockers, RowSharers
  <2> QED BY <1>1, <2>1 DEF Lockers
<1>4. \A n \in enrich[e].norms : aliases[n] = None => aliases'[n] = None
  BY <1>2, EditFacts
<1>5. Gives(e)'
  <2>1. ASSUME NEW g \in enrich[e].given
        PROVE  /\ aliases'[g.norm] = None
               /\ g.person \in enrich[e].shares /\ Bears(g.person, g.norm)
                    => Bears(g.person, g.norm)'
    <3>1. g.norm \in enrich[e].norms /\ aliases[g.norm] = None BY <1>1 DEF Gives
    <3>2. g.person \in enrich[e].shares => people'[g.person] = people[g.person]
      BY <1>3, EditFacts
    <3> QED BY <1>4, <3>1, <3>2 DEF Bears, Active, Exists
  <2> QED BY <1>1, <2>1 DEF Gives
<1>6. Makes(e)'
  <2>1. ASSUME NEW m \in enrich[e].made
        PROVE  /\ ~Exists(people', m.person)
               /\ \A p \in Ids : ~Bears(p, Norm[m.name])'
    <3>1. /\ m.person \in Ids /\ ~Exists(people, m.person)
          /\ [norm |-> Norm[m.name], person |-> m.person] \in enrich[e].given
          /\ \A p \in Ids : ~Bears(p, Norm[m.name])
      BY <1>1 DEF Makes, EnrichRecords
    <3>2. Norm[m.name] \in enrich[e].norms BY <1>1, <3>1 DEF Gives
    <3>3. m.person \notin RowsOf(d) BY <3>1, EditFacts DEF Active
    <3>4. ~Exists(people', m.person) BY <3>1, <3>3, EditFacts DEF Exists
    <3>5. ASSUME NEW p \in Ids, Bears(p, Norm[m.name])' PROVE FALSE
      <4>1. Active(people', p) /\ Norm[people'[p].name] = Norm[m.name]
        BY <3>5 DEF Bears, Active, Exists
      <4>2. CASE p \in RowsOf(d)
        <5>1. p = edit[d].person BY <4>1, <4>2, EditFacts
        <5>2. CASE WritesAliases(d) BY <1>2, <3>2, <4>1, <5>1, <5>2, EditFacts
        <5>3. CASE ~WritesAliases(d)
          <6>1. Active(people, p) /\ people'[p].name = people[p].name
            BY <4>2, <5>1, <5>3, EditFacts
          <6> QED BY <3>1, <4>1, <6>1 DEF Bears
        <5> QED BY <5>2, <5>3
      <4>3. CASE p \notin RowsOf(d)
        <5>1. people'[p] = people[p] BY <4>3, EditFacts
        <5> QED BY <3>1, <4>1, <5>1 DEF Bears, Active, Exists
      <4> QED BY <4>2, <4>3
    <3> QED BY <3>4, <3>5
  <2> QED BY <1>1, <2>1 DEF Makes
<1> QED BY <1>5, <1>6

LEMMA EditSeen ==
  ASSUME Base, Naming, NEW c \in Edits, EditCommit(c), NEW d \in Edits, d # c
  PROVE  Sees(d)'
<1>1. Types /\ Sees(d) /\ EditLocks(d) /\ Lockers /\ Tables /\ Tables'
  BY EditEndLocks DEF Base, Naming, Types, Locks
<1>2. edit'[d] = edit[d] BY <1>1, EditCommitShape DEF EditsKept
<1>3. Working(d)' <=> Working(d) BY <1>2 DEF Working
<1>4. SUFFICES ASSUME Working(d) PROVE Sees(d)' BY <1>3 DEF Sees
<1> DEFINE tab == edit[d].snap.people al == edit[d].snap.aliases a == edit[c].person
<1>5. Names(tab, al) /\ Stays(d) /\ Shows(d) /\ Keeps(d) /\ Stands(d)
  BY <1>1, <1>4 DEF Sees
<1>6. /\ \A p \in Ids : people[p].version \in Nat /\ tab[p].version \in Nat
      /\ a \in Ids
  BY <1>1, <1>4, EditFacts DEF Types, Meant, Snapshots, Tables, PeopleTables, PersonRows
<1>7. Stays(d)'
  <2> SUFFICES ASSUME NEW p \in Ids, Exists(tab, p)
               PROVE  Exists(people', p) /\ tab[p].version <= people'[p].version
    BY <1>2 DEF Stays, Exists
  <2>1. Exists(people, p) /\ tab[p].version <= people[p].version BY <1>5 DEF Stays
  <2>2. CASE p \in RowsOf(c)
    <3>1. Exists(people', p) /\ people'[p].version = people[p].version + 1
      BY <2>2, EditFacts
    <3> QED BY <1>6, <2>1, <3>1
  <2>3. CASE p \notin RowsOf(c)
    <3>1. people'[p] = people[p] BY <2>3, EditFacts
    <3> QED BY <2>1, <3>1 DEF Exists
  <2> QED BY <2>2, <2>3
<1>8. Shows(d)'
  <2> SUFFICES ASSUME NEW p \in Ids, Active(people', p)
               PROVE  \/ Active(tab, p) /\ Norm[tab[p].name] = Norm[people'[p].name]
                      \/ aliases'[Norm[people'[p].name]] = p
    BY <1>2 DEF Shows, Active, Exists
  <2>1. CASE p \in RowsOf(c) /\ WritesAliases(c) BY <2>1, EditFacts
  <2>2. CASE p \in RowsOf(c) /\ ~WritesAliases(c)
    <3>1. /\ Active(people, p) /\ people'[p].name = people[p].name /\ aliases' = aliases
      BY <2>2, EditFacts
    <3> QED BY <1>5, <3>1 DEF Shows
  <2>3. CASE p \notin RowsOf(c)
    <3>1. people'[p] = people[p] /\ Active(people, p) BY <2>3, EditFacts DEF Active, Exists
    <3>2. Norm[people[p].name] \in Norms /\ Bears(p, Norm[people[p].name])
      BY <1>1, <3>1, NormOfName DEF Tables, Active, Bears
    <3>3. aliases[Norm[people[p].name]] = p => aliases'[Norm[people[p].name]] = p
      BY <2>3, <3>2, EditFacts
    <3> QED BY <1>5, <3>1, <3>3 DEF Shows
  <2> QED BY <2>1, <2>2, <2>3
<1>9. Keeps(d)'
  <2> SUFFICES ASSUME NEW p \in Ids, people'[p] = tab[p], NEW n \in Norms
               PROVE  /\ al[n] = p => aliases'[n] = p
                      /\ aliases'[n] = p => al[n] = p \/ n = Norm[people'[p].name]
    BY <1>2 DEF Keeps, Unchanged
  <2>1. p \notin RowsOf(c)
    <3> SUFFICES ASSUME p \in RowsOf(c) PROVE FALSE OBVIOUS
    <3>1. Exists(people', p) /\ people'[p].version = people[p].version + 1 BY EditFacts
    <3>2. Exists(tab, p) BY <3>1 DEF Exists
    <3>3. tab[p].version <= people[p].version BY <1>5, <3>2 DEF Stays
    <3> QED BY <1>6, <3>1, <3>3
  <2>2. people'[p] = people[p] /\ Unchanged(d, p) BY <2>1, EditFacts DEF Unchanged
  <2>3. /\ al[n] = p => aliases[n] = p
        /\ aliases[n] = p => al[n] = p \/ n = Norm[people[p].name]
    BY <1>5, <2>2 DEF Keeps
  <2>4. aliases[n] = p <=> aliases'[n] = p
    <3>1. p # None /\ p # a BY <2>1, NoneIsNoId, EditFacts
    <3> QED BY <2>1, <3>1, EditFacts
  <2> QED BY <2>2, <2>3, <2>4
<1>10. Stands(d)'
  <2>1. RowsOf(d)' = RowsOf(d) BY <1>2 DEF RowsOf
  <2>2. RowsOf(d) \subseteq Ids /\ edit[d].rows \subseteq Ids
    BY <1>1, <1>4, RequestType DEF EditLocks, Working
  <2>3. \A p \in edit[d].rows : people'[p] = people[p]
    <3> SUFFICES ASSUME NEW p \in edit[d].rows PROVE p \notin RowsOf(c)
      BY <2>2, EditFacts
    <3>1. p \in RowsOf(c) => d \in RowLockers(p) /\ c \in RowLockers(p)
      BY EditFacts DEF RowLockers
    <3> QED BY <1>1, <2>2, <3>1 DEF Lockers
  <2>4. edit[d].pc \in {"names", "write"} => edit[d].rows = RowsOf(d)
    BY <1>1 DEF EditLocks
  <2> QED BY <1>2, <1>5, <2>1, <2>3, <2>4 DEF Stands, Unchanged, Active, Exists
<1>11. Names(edit[d].snap.people, edit[d].snap.aliases)'
  <2>1. Names(edit'[d].snap.people, edit'[d].snap.aliases) BY <1>2, <1>5
  <2> QED BY <2>1 DEF Names, Active, Exists
<1> QED BY <1>7, <1>8, <1>9, <1>10, <1>11 DEF Sees

LEMMA EditNaming ==
  ASSUME Base, Naming, NEW d \in Edits,
         \/ UpdateBegin(d) \/ MergeBegin(d) \/ LockRow(d)
         \/ LockNorm(d) \/ EditCommit(d) \/ EditRollback(d)
  PROVE  Naming'
<1>1. CASE EditCommit(d)
  <2>1. Types /\ UNCHANGED enrich /\ Ended(d) BY <1>1, EditCommitShape DEF Base
  <2>2. \A c \in Edits : Sees(c)'
    BY <1>1, <2>1, EditSeen, EndedLocks DEF Sees
  <2>3. MakesApart' BY <2>1 DEF Naming, MakesApart
  <2> QED BY <1>1, <2>2, <2>3, EditNames, EditLetsEnrich DEF Naming
<1>2. CASE UpdateBegin(d) \/ MergeBegin(d) \/ LockRow(d) \/ LockNorm(d) \/ EditRollback(d)
  <2>1. Sees(d)' /\ Reads /\ UNCHANGED enrich /\ EditsKept(d)
    <3>1. CASE UpdateBegin(d) \/ MergeBegin(d) BY <3>1, BeginSees
    <3>2. CASE LockRow(d) \/ LockNorm(d) BY <3>2, LockSees
    <3>3. CASE EditRollback(d)
      BY <3>3, RollbackShape, EndedLocks DEF Base, Reads, DatabaseKept, Sees
    <3> QED BY <1>2, <3>1, <3>2, <3>3
  <2>2. \A c \in Edits : Sees(c)' BY <2>1, EditSeesAsBefore DEF EditsKept
  <2>3. \A e \in Enrichments : Gives(e)' /\ Makes(e)' BY <2>1, EnrichGivesAsBefore
  <2>4. MakesApart' BY <2>1 DEF Naming, MakesApart
  <2> QED BY <2>1, <2>2, <2>3, <2>4, NamesKept DEF Naming
<1> QED BY <1>1, <1>2

LEMMA NextNaming == Base /\ Naming /\ [Next]_vars => Naming'
<1> SUFFICES ASSUME Base, Naming, [Next]_vars PROVE Naming' OBVIOUS
<1>1. CASE UNCHANGED vars
  <2>1. Reads /\ UNCHANGED <<enrich, edit>> BY <1>1 DEF vars, Reads
  <2>2. MakesApart' BY <2>1 DEF Naming, MakesApart
  <2> QED BY <2>1, <2>2, NamesKept, EditSeesAsBefore, EnrichGivesAsBefore DEF Naming
<1>2. CASE \E e \in Enrichments :
       \/ EnrichBegin(e) \/ ResolveByAlias(e) \/ ResolveByName(e)
       \/ CreatePerson(e) \/ LinkPerson(e) \/ EnrichCommit(e) \/ EnrichRollback(e)
  BY <1>2, EnrichNaming
<1>3. CASE \E d \in Edits :
       \/ UpdateBegin(d) \/ MergeBegin(d) \/ LockRow(d)
       \/ LockNorm(d) \/ EditCommit(d) \/ EditRollback(d)
  BY <1>3, EditNaming
<1> QED BY <1>1, <1>2, <1>3 DEF Next

(* No two active people share a name, and an alias or a name of an active  *)
(* person is no one else's, whatever enrichments and edits run together.   *)
THEOREM NamesAreOnes == Spec => []NamesIdentifyOnePerson
<1>1. Naming => NamesIdentifyOnePerson
  BY DEF Naming, Names, NamesIdentifyOnePerson
<1> QED BY InitBase, NextBase, InitNaming, NextNaming, <1>1, PTL DEF Spec
-----------------------------------------------------------------------------
(* The tombstones in the order in which they were merged: each leads to a  *)
(* person that was active then, so the chain goes to later ones and is no  *)
(* longer than there are tombstones.                                       *)
Tombs(tab) == {p \in Ids : tab[p].merged # None}
FewMerged(tab) == Cardinality(Tombs(tab)) <= MaxHops
InOrder(tab, idx) == \A p \in Tombs(tab) :
  /\ Exists(tab, p) /\ Exists(tab, tab[p].merged)
  /\ idx[p] < Cardinality(Tombs(tab))
  /\ tab[p].merged \in Tombs(tab) => idx[p] < idx[tab[p].merged]
Ordered(tab) == \E idx \in [Ids -> Nat] : InOrder(tab, idx)

LEMMA TombsType ==
  ASSUME NEW tab
  PROVE  IsFiniteSet(Tombs(tab)) /\ Cardinality(Tombs(tab)) \in Nat
<1>1. IsFiniteSet(Ids) BY FS_Interval, PeopleAssumption DEF Ids
<1>2. IsFiniteSet(Tombs(tab)) BY <1>1, FS_Subset DEF Tombs
<1> QED BY <1>2, FS_CardinalityType

LEMMA MergedType ==
  ASSUME NEW tab \in PeopleTables, NEW p \in Ids
  PROVE  /\ tab[p].merged \in Ids \union {None}
         /\ p \in Tombs(tab) => tab[p].merged \in Ids
         /\ Step(tab, p) \in Ids
         /\ p \notin Tombs(tab) => Step(tab, p) = p
         /\ p \in Tombs(tab) => Step(tab, p) = tab[p].merged
BY DEF PeopleTables, PersonRows, Tombs, Step

(* A chain among the people, one step after another.                    *)
LEMMA ChainSteps ==
  ASSUME NEW tab \in PeopleTables, NEW p \in Ids, NEW f, Chain(tab, p, f, MaxHops)
  PROVE  /\ f[0] = p
         /\ \A k \in 0..MaxHops : f[k] \in Ids
         /\ \A k \in 0..MaxHops : k # 0 => k - 1 \in 0..MaxHops /\ f[k] = Step(tab, f[k - 1])
<1>1. MaxHops \in Nat BY PeopleAssumption
<1>2. \A k \in 0..MaxHops : f[k] = IF k = 0 THEN p ELSE Step(tab, f[k - 1])
  BY DEF Chain
<1>3. f[0] = p BY <1>1, <1>2
<1>4. \A k \in 0..MaxHops : k # 0 => k - 1 \in 0..MaxHops /\ f[k] = Step(tab, f[k - 1])
  BY <1>1, <1>2
<1> DEFINE T == {k \in 0..MaxHops : f[k] \notin Ids}
<1>5. ASSUME T # {} PROVE FALSE
  <2>1. T \subseteq Nat BY <1>1
  <2>2. PICK k \in T : \A j \in T : k <= j BY <1>5, <2>1, LeastNat
  <2>3. k # 0 /\ k \in Nat BY <1>1, <1>3, <2>2
  <2>4. k - 1 \notin T BY <1>1, <2>2, <2>3
  <2>5. f[k - 1] \in Ids BY <1>4, <2>2, <2>3, <2>4
  <2> QED BY <1>4, <2>2, <2>3, <2>5, MergedType
<1> QED BY <1>3, <1>4, <1>5

(* What holds at the start of a chain and after every step.                *)
LEMMA ChainInvariant ==
  ASSUME NEW T, T \subseteq 0..MaxHops, 0 \notin T,
         \A k \in T : k # 0 => k - 1 \in T
  PROVE  T = {}
<1> SUFFICES ASSUME T # {} PROVE FALSE OBVIOUS
<1>1. T \subseteq Nat /\ MaxHops \in Nat BY PeopleAssumption
<1>2. PICK k \in T : \A j \in T : k <= j BY <1>1, LeastNat
<1>3. k # 0 /\ k - 1 \in T /\ k \in Nat BY <1>1, <1>2
<1>4. k <= k - 1 BY <1>2, <1>3
<1> QED BY <1>3, <1>4

LEMMA ChainsRise ==
  ASSUME NEW tab \in PeopleTables, NEW idx \in [Ids -> Nat], InOrder(tab, idx),
         NEW p \in Ids, NEW f, Chain(tab, p, f, MaxHops)
  PROVE  /\ \A k \in 0..MaxHops : f[k] \in Tombs(tab) => k <= idx[f[k]]
         /\ Exists(tab, p) => \A k \in 0..MaxHops : Exists(tab, f[k])
<1>1. /\ f[0] = p /\ \A k \in 0..MaxHops : f[k] \in Ids
      /\ \A k \in 0..MaxHops : k # 0 => k - 1 \in 0..MaxHops /\ f[k] = Step(tab, f[k - 1])
  BY ChainSteps
<1> DEFINE T == {k \in 0..MaxHops : f[k] \in Tombs(tab) /\ ~(k <= idx[f[k]])}
<1>2. T = {}
  <2>1. 0 \notin T BY <1>1
  <2>2. ASSUME NEW k \in T, k # 0 PROVE k - 1 \in T
    <3>1. /\ k - 1 \in 0..MaxHops /\ f[k] = Step(tab, f[k - 1])
          /\ f[k] \in Tombs(tab) /\ ~(k <= idx[f[k]]) /\ f[k] \in Ids /\ f[k - 1] \in Ids
      BY <1>1, <2>2
    <3>2. idx[f[k]] \in Nat /\ idx[f[k - 1]] \in Nat /\ k \in Nat
      BY <3>1, PeopleAssumption
    <3>3. f[k - 1] \in Tombs(tab) /\ idx[f[k - 1]] < idx[f[k]]
      <4>1. CASE f[k - 1] \notin Tombs(tab)
        <5>1. f[k] = f[k - 1] BY <3>1, <4>1, MergedType
        <5> QED BY <3>1, <4>1, <5>1
      <4>2. CASE f[k - 1] \in Tombs(tab)
        <5>1. f[k] = tab[f[k - 1]].merged BY <3>1, <4>2, MergedType
        <5> QED BY <3>1, <4>2, <5>1 DEF InOrder
      <4> QED BY <4>1, <4>2
    <3>4. ~(k - 1 <= idx[f[k - 1]]) BY <3>1, <3>2, <3>3
    <3> QED BY <3>1, <3>3, <3>4
  <2> HIDE DEF T
  <2>3. T \subseteq 0..MaxHops BY DEF T
  <2> QED BY <2>1, <2>2, <2>3, ChainInvariant
<1> DEFINE E == {k \in 0..MaxHops : ~Exists(tab, f[k])}
<1>3. ASSUME Exists(tab, p) PROVE E = {}
  <2>1. 0 \notin E BY <1>1, <1>3
  <2>2. ASSUME NEW k \in E, k # 0 PROVE k - 1 \in E
    <3>1. /\ k - 1 \in 0..MaxHops /\ f[k] = Step(tab, f[k - 1]) /\ ~Exists(tab, f[k])
          /\ f[k - 1] \in Ids
      BY <1>1, <2>2
    <3>2. f[k] = f[k - 1] \/ (f[k - 1] \in Tombs(tab) /\ f[k] = tab[f[k - 1]].merged)
      BY <3>1, MergedType
    <3> QED BY <3>1, <3>2 DEF InOrder
  <2> HIDE DEF E
  <2>3. E \subseteq 0..MaxHops BY DEF E
  <2> QED BY <2>1, <2>2, <2>3, ChainInvariant
<1> QED BY <1>2, <1>3

(* While few are merged every chain ends at a person that is no tombstone. *)
LEMMA Settled ==
  ASSUME NEW tab \in PeopleTables, Ordered(tab), FewMerged(tab), NEW p \in Ids
  PROVE  /\ Canonical(tab, p) \in Ids \ Tombs(tab)
         /\ Exists(tab, p) => Active(tab, Canonical(tab, p))
<1>1. PICK idx \in [Ids -> Nat] : InOrder(tab, idx) BY DEF Ordered
<1>2. PICK f : Chain(tab, p, f, MaxHops) /\ Canonical(tab, p) = f[MaxHops]
  BY CanonicalIsChain
<1>3. MaxHops \in 0..MaxHops /\ MaxHops \in Nat BY PeopleAssumption
<1>4. f[MaxHops] \in Ids BY <1>2, <1>3, ChainSteps
<1>5. f[MaxHops] \notin Tombs(tab)
  <2> SUFFICES ASSUME f[MaxHops] \in Tombs(tab) PROVE FALSE OBVIOUS
  <2>1. MaxHops <= idx[f[MaxHops]] BY <1>1, <1>2, <1>3, ChainsRise
  <2>2. idx[f[MaxHops]] < Cardinality(Tombs(tab)) /\ idx[f[MaxHops]] \in Nat
    BY <1>1, <1>4 DEF InOrder
  <2> QED BY <1>3, <2>1, <2>2, TombsType DEF FewMerged
<1>6. Exists(tab, p) => Exists(tab, f[MaxHops]) BY <1>1, <1>2, <1>3, ChainsRise
<1> QED BY <1>2, <1>4, <1>5, <1>6 DEF Active, Tombs

LEMMA CanonicalOfActive ==
  ASSUME NEW tab \in PeopleTables, NEW p \in Ids, p \notin Tombs(tab)
  PROVE  Canonical(tab, p) = p
<1>1. PICK f : Chain(tab, p, f, MaxHops) /\ Canonical(tab, p) = f[MaxHops]
  BY CanonicalIsChain
<1>2. /\ f[0] = p /\ \A k \in 0..MaxHops : f[k] \in Ids
      /\ \A k \in 0..MaxHops : k # 0 => k - 1 \in 0..MaxHops /\ f[k] = Step(tab, f[k - 1])
  BY <1>1, ChainSteps
<1> DEFINE T == {k \in 0..MaxHops : f[k] # p}
<1>3. T \subseteq 0..MaxHops /\ 0 \notin T BY <1>2
<1>4. \A k \in T : k # 0 => k - 1 \in T BY <1>2, MergedType
<1>5. T = {}
  <2> HIDE DEF T
  <2> QED BY <1>3, <1>4, ChainInvariant
<1>6. MaxHops \in 0..MaxHops BY PeopleAssumption
<1> QED BY <1>1, <1>5, <1>6

(* A tombstone leads where the person leads that it was merged into.       *)
LEMMA CanonicalOfMerged ==
  ASSUME NEW tab \in PeopleTables, Ordered(tab), FewMerged(tab), NEW p \in Tombs(tab)
  PROVE  Canonical(tab, p) = Canonical(tab, tab[p].merged)
<1> DEFINE q == tab[p].merged
<1>1. p \in Ids /\ q \in Ids BY MergedType DEF Tombs
<1>2. PICK f : Chain(tab, p, f, MaxHops) /\ Canonical(tab, p) = f[MaxHops]
  BY CanonicalIsChain
<1>3. PICK g : Chain(tab, q, g, MaxHops) /\ Canonical(tab, q) = g[MaxHops]
  BY CanonicalIsChain
<1>4. /\ f[0] = p /\ \A k \in 0..MaxHops : f[k] \in Ids
      /\ \A k \in 0..MaxHops : k # 0 => k - 1 \in 0..MaxHops /\ f[k] = Step(tab, f[k - 1])
  BY <1>1, <1>2, ChainSteps
<1>5. /\ g[0] = q /\ \A k \in 0..MaxHops : g[k] \in Ids
      /\ \A k \in 0..MaxHops : k # 0 => k - 1 \in 0..MaxHops /\ g[k] = Step(tab, g[k - 1])
  BY <1>1, <1>3, ChainSteps
<1>6. MaxHops \in Nat /\ MaxHops # 0
  <2>1. p \in Tombs(tab) /\ IsFiniteSet(Tombs(tab)) BY TombsType
  <2>2. Cardinality(Tombs(tab)) # 0 BY <2>1, FS_EmptySet
  <2> QED BY <2>2, TombsType, PeopleAssumption DEF FewMerged
<1> DEFINE T == {k \in 0..MaxHops : k # 0 /\ f[k] # g[k - 1]}
<1>7. T = {}
  <2>1. \A k \in T : k # 0 => k - 1 \in T
    <3> SUFFICES ASSUME NEW k \in T PROVE k - 1 \in T OBVIOUS
    <3>1. /\ k \in 0..MaxHops /\ k # 0 /\ f[k] # g[k - 1] /\ k - 1 \in 0..MaxHops
          /\ f[k] = Step(tab, f[k - 1])
      BY <1>4
    <3>2. CASE k = 1
      <4>1. k - 1 = 0 BY <3>2
      <4>2. f[k] = Step(tab, p) /\ g[k - 1] = q BY <1>4, <1>5, <3>1, <4>1
      <4> QED BY <1>1, <3>1, <4>2, MergedType
    <3>3. CASE k # 1
      <4>1. k - 1 # 0 BY <1>6, <3>1, <3>3
      <4>2. g[k - 1] = Step(tab, g[(k - 1) - 1]) BY <1>5, <3>1, <4>1
      <4>3. f[k - 1] # g[(k - 1) - 1] BY <3>1, <4>2
      <4> QED BY <3>1, <4>1, <4>3
    <3> QED BY <3>2, <3>3
  <2>2. T \subseteq 0..MaxHops /\ 0 \notin T OBVIOUS
  <2> HIDE DEF T
  <2> QED BY <2>1, <2>2, ChainInvariant
<1>8. MaxHops \in 0..MaxHops BY <1>6
<1>9. f[MaxHops] = g[MaxHops - 1] BY <1>6, <1>7, <1>8
<1>10. f[MaxHops] \in Ids \ Tombs(tab) BY <1>1, <1>2, Settled
<1>11. g[MaxHops] = Step(tab, g[MaxHops - 1]) BY <1>5, <1>6, <1>8
<1>12. g[MaxHops] = f[MaxHops] BY <1>9, <1>10, <1>11, MergedType
<1> QED BY <1>2, <1>3, <1>12
(* What does not touch the tombstones leaves every chain as it is.         *)
LEMMA SameChains ==
  ASSUME NEW tab \in PeopleTables, NEW new \in PeopleTables,
         \A p \in Ids : new[p].merged = tab[p].merged
  PROVE  /\ Tombs(new) = Tombs(tab)
         /\ \A p \in Ids : Canonical(new, p) = Canonical(tab, p)
<1>1. Tombs(new) = Tombs(tab) BY DEF Tombs
<1>2. ASSUME NEW p \in Ids PROVE Canonical(new, p) = Canonical(tab, p)
  <2>1. PICK f : Chain(tab, p, f, MaxHops) /\ Canonical(tab, p) = f[MaxHops]
    BY CanonicalIsChain
  <2>2. PICK g : Chain(new, p, g, MaxHops) /\ Canonical(new, p) = g[MaxHops]
    BY CanonicalIsChain
  <2>3. /\ f[0] = p /\ \A k \in 0..MaxHops : f[k] \in Ids
        /\ \A k \in 0..MaxHops : k # 0 => k - 1 \in 0..MaxHops /\ f[k] = Step(tab, f[k - 1])
    BY <2>1, ChainSteps
  <2>4. /\ g[0] = p
        /\ \A k \in 0..MaxHops : k # 0 => k - 1 \in 0..MaxHops /\ g[k] = Step(new, g[k - 1])
    BY <2>2, ChainSteps
  <2> DEFINE T == {k \in 0..MaxHops : f[k] # g[k]}
  <2>5. T \subseteq 0..MaxHops /\ 0 \notin T BY <2>3, <2>4
  <2>6. ASSUME NEW k \in T, k # 0 PROVE k - 1 \in T
    <3>1. Step(new, f[k - 1]) = Step(tab, f[k - 1]) BY <2>3, <2>6 DEF Step
    <3> QED BY <2>3, <2>4, <2>6, <3>1
  <2>7. T = {}
    <3> HIDE DEF T
    <3> QED BY <2>5, <2>6, ChainInvariant
  <2>8. MaxHops \in 0..MaxHops BY PeopleAssumption
  <2> QED BY <2>1, <2>2, <2>7, <2>8
<1> QED BY <1>1, <1>2

LEMMA SameOrder ==
  ASSUME NEW tab \in PeopleTables, NEW new \in PeopleTables, Ordered(tab),
         \A p \in Ids : new[p].merged = tab[p].merged,
         \A p \in Ids : Exists(tab, p) => Exists(new, p)
  PROVE  Ordered(new)
<1>1. Tombs(new) = Tombs(tab) BY SameChains
<1>2. PICK idx \in [Ids -> Nat] : InOrder(tab, idx) BY DEF Ordered
<1>3. \A p \in Tombs(tab) : p \in Ids /\ tab[p].merged \in Ids /\ new[p].merged = tab[p].merged
  BY MergedType DEF Tombs
<1>4. InOrder(new, idx) BY <1>1, <1>2, <1>3 DEF InOrder
<1> QED BY <1>4 DEF Ordered

(* A merge makes one tombstone more, the last of all.                      *)
Merges(tab, new, a, b) ==
  /\ a \in Ids /\ b \in Ids /\ a # b /\ Active(tab, a) /\ Active(tab, b)
  /\ new[b].merged = a /\ \A p \in Ids \ {b} : new[p].merged = tab[p].merged
  /\ \A p \in Ids : Exists(tab, p) => Exists(new, p)

LEMMA MergeOrder ==
  ASSUME NEW tab \in PeopleTables, NEW new \in PeopleTables, Ordered(tab),
         NEW a, NEW b, Merges(tab, new, a, b)
  PROVE  /\ Ordered(new) /\ Tombs(new) = Tombs(tab) \union {b}
         /\ FewMerged(new) => FewMerged(tab)
<1>1. Tombs(new) = Tombs(tab) \union {b} /\ b \notin Tombs(tab) /\ a \notin Tombs(new)
  BY NoneIsNoId DEF Merges, Tombs, Active
<1>2. Cardinality(Tombs(new)) = Cardinality(Tombs(tab)) + 1
  BY <1>1, TombsType, FS_AddElement
<1>3. PICK idx \in [Ids -> Nat] : InOrder(tab, idx) BY DEF Ordered
<1> DEFINE c == Cardinality(Tombs(tab))
           last == [idx EXCEPT ![b] = c]
<1>4. c \in Nat /\ last \in [Ids -> Nat] /\ b \in Ids BY TombsType DEF Merges
<1>5. last[b] = c /\ \A p \in Ids \ {b} : last[p] = idx[p] BY <1>4
<1> HIDE DEF last, c
<1>6. ASSUME NEW p \in Tombs(new)
      PROVE  /\ Exists(new, p) /\ Exists(new, new[p].merged)
             /\ last[p] < Cardinality(Tombs(new))
             /\ new[p].merged \in Tombs(new) => last[p] < last[new[p].merged]
  <2>1. p \in Ids BY DEF Tombs
  <2>2. CASE p = b
    <3>1. new[p].merged = a /\ Exists(new, a) /\ Exists(new, b)
      BY <2>2 DEF Merges, Active
    <3> QED BY <1>1, <1>2, <1>4, <1>5, <2>2, <3>1 DEF c
  <2>3. CASE p # b
    <3>1. /\ p \in Tombs(tab) /\ new[p].merged = tab[p].merged /\ tab[p].merged \in Ids
      BY <1>1, <2>1, <2>3, MergedType DEF Merges
    <3>2. /\ Exists(tab, p) /\ Exists(tab, tab[p].merged) /\ idx[p] < c
          /\ tab[p].merged \in Tombs(tab) => idx[p] < idx[tab[p].merged]
      BY <1>3, <3>1 DEF InOrder, c
    <3>3. Exists(new, p) /\ Exists(new, new[p].merged) BY <2>1, <3>1, <3>2 DEF Merges
    <3>4. last[p] = idx[p] /\ idx[p] \in Nat BY <1>5, <2>1, <2>3
    <3>5. last[p] < Cardinality(Tombs(new)) BY <1>2, <1>4, <3>2, <3>4 DEF c
    <3>6. ASSUME new[p].merged \in Tombs(new) PROVE last[p] < last[new[p].merged]
      <4>1. CASE new[p].merged = b BY <1>5, <3>2, <3>4, <4>1
      <4>2. CASE new[p].merged # b
        <5>1. tab[p].merged \in Tombs(tab) /\ last[tab[p].merged] = idx[tab[p].merged]
          BY <1>1, <1>5, <3>1, <3>6, <4>2
        <5> QED BY <3>1, <3>2, <3>4, <5>1
      <4> QED BY <4>1, <4>2
    <3> QED BY <3>3, <3>5, <3>6
  <2> QED BY <2>2, <2>3
<1>7. Ordered(new) BY <1>4, <1>6 DEF Ordered, InOrder
<1>8. FewMerged(new) => FewMerged(tab)
  BY <1>2, TombsType, PeopleAssumption DEF FewMerged
<1> QED BY <1>1, <1>7, <1>8

LEMMA MergeChains ==
  ASSUME NEW tab \in PeopleTables, NEW new \in PeopleTables, Ordered(tab),
         NEW a, NEW b, Merges(tab, new, a, b), FewMerged(new), NEW p \in Ids
  PROVE  Canonical(new, p) = IF Canonical(tab, p) = b THEN a ELSE Canonical(tab, p)
<1>1. Ordered(new) /\ Tombs(new) = Tombs(tab) \union {b} BY MergeOrder
<1>2. PICK f : Chain(tab, p, f, MaxHops) /\ Canonical(tab, p) = f[MaxHops]
  BY CanonicalIsChain
<1>3. PICK g : Chain(new, p, g, MaxHops) /\ Canonical(new, p) = g[MaxHops]
  BY CanonicalIsChain
<1>4. /\ f[0] = p /\ \A k \in 0..MaxHops : f[k] \in Ids
      /\ \A k \in 0..MaxHops : k # 0 => k - 1 \in 0..MaxHops /\ f[k] = Step(tab, f[k - 1])
  BY <1>2, ChainSteps
<1>5. /\ g[0] = p
      /\ \A k \in 0..MaxHops : k # 0 => k - 1 \in 0..MaxHops /\ g[k] = Step(new, g[k - 1])
  BY <1>3, ChainSteps
<1>6. /\ Step(tab, b) = b /\ Step(new, b) = a /\ Step(new, a) = a
      /\ \A q \in Ids \ {b} : Step(new, q) = Step(tab, q)
  BY NoneIsNoId DEF Merges, Active, Step
<1> DEFINE T == {k \in 0..MaxHops : ~(g[k] = f[k] \/ (f[k] = b /\ g[k] = a))}
<1>7. T = {}
  <2>1. T \subseteq 0..MaxHops /\ 0 \notin T BY <1>4, <1>5
  <2>2. ASSUME NEW k \in T, k # 0 PROVE k - 1 \in T
    <3> SUFFICES ASSUME k - 1 \notin T PROVE FALSE OBVIOUS
    <3>1. /\ k - 1 \in 0..MaxHops /\ f[k] = Step(tab, f[k - 1])
          /\ g[k] = Step(new, g[k - 1]) /\ f[k - 1] \in Ids
      BY <1>4, <1>5, <2>2
    <3>2. CASE g[k - 1] = f[k - 1] BY <1>6, <2>2, <3>1, <3>2
    <3>3. CASE f[k - 1] = b /\ g[k - 1] = a BY <1>6, <2>2, <3>1, <3>3
    <3> QED BY <3>1, <3>2, <3>3
  <2> HIDE DEF T
  <2> QED BY <2>1, <2>2, ChainInvariant
<1>8. MaxHops \in 0..MaxHops BY PeopleAssumption
<1>9. g[MaxHops] = f[MaxHops] \/ (f[MaxHops] = b /\ g[MaxHops] = a) BY <1>7, <1>8
<1>10. g[MaxHops] # b BY <1>1, <1>3, Settled
<1> QED BY <1>2, <1>3, <1>9, <1>10
(* The steps and the tombstones: an enrichment touches none, a merge makes *)
(* one, an update none.                                                    *)
ChainsKept == /\ people' \in PeopleTables
              /\ \A p \in Ids : people'[p].merged = people[p].merged
              /\ \A p \in Ids : Exists(people, p) => Exists(people', p)

LEMMA EnrichKeepsChains ==
  ASSUME Base, Naming, Ordered(people), NEW e \in Enrichments,
         \/ EnrichBegin(e) \/ ResolveByAlias(e) \/ ResolveByName(e)
         \/ CreatePerson(e) \/ LinkPerson(e) \/ EnrichCommit(e) \/ EnrichRollback(e)
  PROVE  ChainsKept
<1>1. people \in PeopleTables BY DEF Base, Types, Tables
<1>2. people' \in PeopleTables BY EnrichNextLocks DEF Base, Types, Tables
<1>3. CASE EnrichCommit(e)
  <2>1. ASSUME NEW p \in Ids
        PROVE  /\ people'[p].merged = people[p].merged
               /\ Exists(people, p) => Exists(people', p)
    <3>1. CASE Made(e, p)
      <4>1. ~Exists(people, p) /\ people'[p].merged = None
        BY <1>3, <3>1, CommitFacts DEF Active
      <4>2. p \notin Tombs(people) BY <4>1 DEF Ordered, InOrder
      <4> QED BY <4>1, <4>2 DEF Tombs
    <3>2. CASE ~Made(e, p) BY <1>3, <3>2, CommitFacts DEF Exists
    <3> QED BY <3>1, <3>2
  <2> QED BY <1>2, <2>1 DEF ChainsKept
<1>4. CASE people' = people BY <1>1, <1>4 DEF ChainsKept
<1> QED BY <1>3, <1>4 DEF EnrichBegin, ResolveByAlias, ResolveByName, CreatePerson,
        LinkPerson, EnrichRollback

LEMMA EditChains ==
  ASSUME Base, Naming, NEW d \in Edits, EditCommit(d)
  PROVE  /\ people' \in PeopleTables
         /\ edit[d].kind = "merge" =>
              Merges(people, people', edit[d].person, edit[d].source)
         /\ edit[d].kind # "merge" => ChainsKept /\ edit[d].source = None
<1> DEFINE a == edit[d].person b == edit[d].source
<1>1. Types /\ Working(d) /\ people' \in PeopleTables BY EditCommitShape DEF Base
<1>2. edit[d] \in EditRecords /\ Meant(d) BY <1>1 DEF Types
<1>3. \A p \in Ids :
        \/ p \notin RowsOf(d) /\ people'[p] = people[p]
        \/ p = a /\ people'[p].merged = people[p].merged
        \/ p = b /\ p # a /\ people'[p].merged = a
  BY <1>1, EditCommitShape
<1>4. \A p \in Ids : Exists(people, p) => Exists(people', p)
  BY EditFacts DEF Exists
<1>5. CASE edit[d].kind = "merge"
  <2>1. a \in Ids /\ b \in Ids /\ a # b BY <1>1, <1>2, <1>5 DEF Meant
  <2>2. a \in RowsOf(d) /\ b \in RowsOf(d) BY <2>1, NoneIsNoId DEF RowsOf
  <2>3. Active(people, a) /\ Active(people, b) BY <2>2, EditFacts
  <2>4. people'[b].merged = a BY <1>3, <2>1, <2>2
  <2>5. \A p \in Ids \ {b} : people'[p].merged = people[p].merged BY <1>3
  <2> HIDE DEF a, b
  <2>6. Merges(people, people', a, b) BY <1>4, <2>1, <2>3, <2>4, <2>5 DEF Merges
  <2> QED BY <1>1, <1>5, <2>6 DEF a, b
<1>6. CASE edit[d].kind # "merge"
  <2>1. b = None BY <1>1, <1>2, <1>6 DEF Meant, EditRecords
  <2>2. \A p \in Ids : people'[p].merged = people[p].merged BY <1>3, <2>1, NoneIsNoId
  <2> QED BY <1>1, <1>4, <1>6, <2>1, <2>2 DEF ChainsKept
<1> QED BY <1>5, <1>6

(* A merge is answered with success when it commits, or when the source    *)
(* leads to the primary already.                                           *)
Stood(d) ==
  /\ edit[d].pc # "done" => edit[d].reply = "none"
  /\ edit[d].kind = "merge" /\ edit[d].reply = "ok" =>
       /\ edit[d].source \in Ids /\ edit[d].person \in Ids
       /\ people[edit[d].source].merged = edit[d].person

LEMMA AnswerStands ==
  ASSUME Base, NEW d \in Edits, Stood(d), people' = people,
         \/ UpdateBegin(d) \/ MergeBegin(d) \/ LockRow(d)
         \/ LockNorm(d) \/ EditRollback(d)
  PROVE  Stood(d)'
<1>1. Types /\ EditLocks(d) /\ edit[d] \in EditRecords BY DEF Base, Locks, Types
<1>2. ASSUME NEW r, SetEdit(d, r), r.reply = "none" PROVE Stood(d)'
  BY <1>1, <1>2, SetEditSets DEF Stood
<1>3. ASSUME NEW reply \in {"conflict", "failed"}, Answered(d, reply) PROVE Stood(d)'
  BY <1>1, <1>3, AnsweredShape DEF Stood
<1>4. CASE UpdateBegin(d)
  <2>1. PICK p \in Ids, u \in Updates :
          SetEdit(d, [Unsent EXCEPT !.pc = "rows", !.kind = "update", !.person = p,
               !.name = u.name, !.aliases = u.aliases, !.snap = Snapshot])
    BY <1>4 DEF UpdateBegin
  <2> QED BY <1>2, <2>1 DEF Unsent
<1>5. CASE MergeBegin(d)
  <2>0. PICK p \in Ids : \E q \in Ids \ {p} : \E s \in Resolutions(p, q) :
          SetEdit(d, [Unsent EXCEPT !.pc = "rows", !.kind = "merge", !.person = p,
               !.source = q, !.name = s, !.snap = Snapshot])
    BY <1>5 DEF MergeBegin
  <2>1. PICK q \in Ids \ {p} : \E s \in Resolutions(p, q) :
          SetEdit(d, [Unsent EXCEPT !.pc = "rows", !.kind = "merge", !.person = p,
               !.source = q, !.name = s, !.snap = Snapshot])
    BY <2>0
  <2>2. PICK s \in Resolutions(p, q) :
          SetEdit(d, [Unsent EXCEPT !.pc = "rows", !.kind = "merge", !.person = p,
               !.source = q, !.name = s, !.snap = Snapshot])
    BY <2>1
  <2> QED BY <1>2, <2>2 DEF Unsent
<1>6. CASE LockRow(d)
  <2> DEFINE locked == edit[d].rows \union {NextRow(d)}
  <2>1. /\ edit[d].pc = "rows"
        /\ \/ SetEdit(d, [edit[d] EXCEPT !.rows = locked])
           \/ SetEdit(d, [edit[d] EXCEPT !.rows = locked, !.pc = "names"])
           \/ AlreadyMerged(d) /\ Answered(d, "ok")
           \/ Answered(d, "conflict")
    BY <1>6 DEF LockRow
  <2>2. edit[d].reply = "none" /\ Working(d) BY <2>1 DEF Stood, Working
  <2> HIDE DEF locked
  <2>3. CASE \/ SetEdit(d, [edit[d] EXCEPT !.rows = locked])
             \/ SetEdit(d, [edit[d] EXCEPT !.rows = locked, !.pc = "names"])
    <3>1. /\ [edit[d] EXCEPT !.rows = locked].reply = "none"
          /\ [edit[d] EXCEPT !.rows = locked, !.pc = "names"].reply = "none"
      BY <1>1, <2>2 DEF EditRecords
    <3> QED BY <1>2, <2>3, <3>1
  <2>4. CASE AlreadyMerged(d) /\ Answered(d, "ok")
    <3>1. /\ edit[d].kind = "merge" /\ people[edit[d].source].merged = edit[d].person
          /\ edit[d].source \in Ids /\ edit[d].person \in Ids
      BY <1>1, <2>2, <2>4 DEF AlreadyMerged, Types, Meant
    <3>2. /\ edit'[d].pc = "done" /\ edit'[d].person = edit[d].person
          /\ edit'[d].source = edit[d].source
      BY <1>1, <2>4, <3>1, AnsweredShape
    <3> QED BY <3>1, <3>2 DEF Stood
  <2>5. CASE Answered(d, "conflict") BY <1>3, <2>5
  <2> QED BY <2>1, <2>3, <2>4, <2>5
<1>7. CASE LockNorm(d)
  <2> DEFINE held == edit[d].norms \union {Min(NewNorms(d) \ edit[d].norms)}
  <2>1. /\ edit[d].pc = "names"
        /\ \/ SetEdit(d, [edit[d] EXCEPT !.norms = held])
           \/ SetEdit(d, [edit[d] EXCEPT !.norms = held, !.pc = "write"])
           \/ Answered(d, "conflict")
    BY <1>7 DEF LockNorm
  <2>2. edit[d].reply = "none" BY <2>1 DEF Stood
  <2> HIDE DEF held
  <2>3. /\ [edit[d] EXCEPT !.norms = held].reply = "none"
        /\ [edit[d] EXCEPT !.norms = held, !.pc = "write"].reply = "none"
    BY <1>1, <2>2 DEF EditRecords
  <2> QED BY <1>2, <1>3, <2>1, <2>3
<1>8. CASE EditRollback(d) BY <1>3, <1>8 DEF EditRollback
<1> QED BY <1>4, <1>5, <1>6, <1>7, <1>8

LEMMA CommitStands ==
  ASSUME Base, Naming, NEW d \in Edits, EditCommit(d), NEW c \in Edits, Stood(c)
  PROVE  Stood(c)'
<1>1. Types /\ Answered(d, "ok") BY DEF Base, EditCommit
<1>2. CASE c = d
  <2>1. edit'[d].pc = "done" BY <1>1, AnsweredShape
  <2>2. CASE edit[d].kind = "merge"
    <3>1. edit'[d].person = edit[d].person /\ edit'[d].source = edit[d].source
      BY <1>1, <2>2, AnsweredShape
    <3> QED BY <1>2, <2>1, <2>2, <3>1, EditChains DEF Stood, Merges
  <2>3. CASE edit[d].kind # "merge"
    <3>1. edit'[d].kind = "none" BY <1>1, <2>3, AnsweredShape
    <3> QED BY <1>2, <2>1, <3>1 DEF Stood
  <2> QED BY <2>2, <2>3
<1>3. CASE c # d
  <2>1. edit'[c] = edit[c] BY <1>1, <1>3, AnsweredShape DEF EditsKept
  <2>2. ASSUME edit[c].kind = "merge", edit[c].reply = "ok"
        PROVE  people'[edit[c].source].merged = people[edit[c].source].merged
    <3>1. edit[c].source \in Ids /\ people[edit[c].source].merged # None
      BY <2>2, NoneIsNoId DEF Stood
    <3>2. edit[c].source \notin RowsOf(d) BY <3>1, EditFacts DEF Active
    <3> QED BY <3>1, <3>2, EditFacts
  <2> QED BY <2>1, <2>2 DEF Stood
<1> QED BY <1>2, <1>3
Lasting == Ordered(people) /\ \A d \in Edits : Stood(d)

LEMMA InitLasting == Init => Lasting
<1> SUFFICES ASSUME Init PROVE Lasting OBVIOUS
<1>1. Tombs(people) = {} BY DEF Init, Tombs, NoRow
<1>2. [p \in Ids |-> 0] \in [Ids -> Nat] OBVIOUS
<1>3. Ordered(people) BY <1>1, <1>2 DEF Ordered, InOrder
<1>4. \A d \in Edits : edit[d].reply = "none" /\ edit[d].kind = "none"
  BY DEF Init, Unsent
<1> QED BY <1>3, <1>4 DEF Lasting, Stood

LEMMA NextLasting == Base /\ Naming /\ Lasting /\ [Next]_vars => Lasting'
<1> SUFFICES ASSUME Base, Naming, Lasting, [Next]_vars PROVE Lasting' OBVIOUS
<1>1. people \in PeopleTables /\ Ordered(people) /\ \A d \in Edits : Stood(d)
  BY DEF Base, Types, Tables, Lasting
<1>2. ChainsKept => Ordered(people)'
  <2>1. ChainsKept => Ordered(people') BY <1>1, SameOrder DEF ChainsKept
  <2> QED BY <2>1 DEF Ordered, InOrder, Tombs, Exists
<1>3. CASE UNCHANGED vars
  <2>1. ChainsKept BY <1>1, <1>3 DEF ChainsKept, vars
  <2> QED BY <1>1, <1>2, <1>3, <2>1 DEF Lasting, Stood, vars
<1>4. ASSUME NEW e \in Enrichments,
             \/ EnrichBegin(e) \/ ResolveByAlias(e) \/ ResolveByName(e)
             \/ CreatePerson(e) \/ LinkPerson(e) \/ EnrichCommit(e) \/ EnrichRollback(e)
      PROVE  Lasting'
  <2>1. ChainsKept BY <1>1, <1>4, EnrichKeepsChains
  <2>2. edit' = edit
    BY <1>4 DEF EnrichBegin, ResolveByAlias, ResolveByName, CreatePerson, LinkPerson,
                EnrichCommit, EnrichRollback
  <2>3. \A d \in Edits : Stood(d)' BY <1>1, <2>1, <2>2 DEF Stood, ChainsKept
  <2> QED BY <1>2, <2>1, <2>3 DEF Lasting
<1>5. ASSUME NEW d \in Edits, EditCommit(d) PROVE Lasting'
  <2>1. Ordered(people)'
    <3>1. CASE edit[d].kind = "merge"
      <4>1. Ordered(people')
        BY <1>1, <1>5, <3>1, EditChains, MergeOrder
      <4> QED BY <4>1 DEF Ordered, InOrder, Tombs, Exists
    <3>2. CASE edit[d].kind # "merge" BY <1>2, <1>5, <3>2, EditChains
    <3> QED BY <3>1, <3>2
  <2> QED BY <1>1, <1>5, <2>1, CommitStands DEF Lasting
<1>6. ASSUME NEW d \in Edits,
             \/ UpdateBegin(d) \/ MergeBegin(d) \/ LockRow(d)
             \/ LockNorm(d) \/ EditRollback(d)
      PROVE  Lasting'
  <2>1. people' = people
    BY <1>6 DEF UpdateBegin, MergeBegin, LockRow, LockNorm, EditRollback, EditOnly
  <2>2. EditsKept(d)
    BY <1>6, BeginShape, LockRowShape, LockNormShape, RollbackShape DEF Base, Locks
  <2>3. Stood(d)' BY <1>1, <1>6, <2>1, AnswerStands
  <2>4. \A c \in Edits : Stood(c)' BY <1>1, <2>1, <2>2, <2>3 DEF Stood, EditsKept
  <2>5. ChainsKept BY <1>1, <2>1 DEF ChainsKept
  <2> QED BY <1>2, <2>4, <2>5 DEF Lasting
<1> QED BY <1>3, <1>4, <1>5, <1>6 DEF Next

LEMMA FewPeople ==
  ASSUME MaxPeople <= MaxHops
  PROVE  FewMerged(people)
<1>1. MaxPeople \in Nat /\ MaxHops \in Nat BY PeopleAssumption
<1>2. IsFiniteSet(Ids) /\ Cardinality(Ids) = MaxPeople BY <1>1, FS_Interval DEF Ids
<1>3. Cardinality(Tombs(people)) <= Cardinality(Ids) BY <1>2, FS_Subset DEF Tombs
<1> QED BY <1>1, <1>2, <1>3, TombsType DEF FewMerged

(* While no more people are merged away than the chain is followed for, a  *)
(* merge that was answered with success stays one.                         *)
THEOREM MergesLast == Spec => [](FewMerged(people) => MergedForGood)
<1>1. ASSUME Base, Lasting, FewMerged(people) PROVE MergedForGood
  <2>1. people \in PeopleTables /\ Ordered(people) BY <1>1 DEF Base, Types, Tables, Lasting
  <2>2. ASSUME NEW d \in Edits, edit[d].kind = "merge", edit[d].reply = "ok"
        PROVE  Canonical(people, edit[d].source) = Canonical(people, edit[d].person)
    <3>1. /\ edit[d].source \in Ids /\ edit[d].person \in Ids
          /\ people[edit[d].source].merged = edit[d].person
      BY <1>1, <2>2 DEF Lasting, Stood
    <3>2. edit[d].source \in Tombs(people) BY <3>1, NoneIsNoId DEF Tombs
    <3> QED BY <1>1, <2>1, <3>1, <3>2, CanonicalOfMerged
  <2> QED BY <1>1, <2>1, <2>2, Settled DEF MergedForGood
<1>2. Base /\ Lasting => (FewMerged(people) => MergedForGood) BY <1>1
<1> QED BY InitBase, NextBase, InitNaming, NextNaming, InitLasting, NextLasting, <1>2, PTL
        DEF Spec

-----------------------------------------------------------------------------
(* A note's rows and the people it was saved with lead to the same.        *)
Leads(tab, S) == {Canonical(tab, p) : p \in S}
PeopleOf(rows) == {l.person : l \in rows}
NoteKept(n) == Leads(people, PeopleOf(links[n])) = Leads(people, meant[n])
NotesKept == FewMerged(people) => \A n \in Notes : NoteKept(n)

LEMMA PeopleOfRows ==
  ASSUME NEW S, NEW k
  PROVE  PeopleOf({[person |-> p, save |-> k] : p \in S}) = S
<1> DEFINE rows == {[person |-> p, save |-> k] : p \in S}
<1>1. \A l \in rows : l.person \in S OBVIOUS
<1>2. ASSUME NEW p \in S PROVE \E l \in rows : l.person = p
  <2>1. [person |-> p, save |-> k] \in rows /\ [person |-> p, save |-> k].person = p OBVIOUS
  <2> QED BY <2>1
<1> HIDE DEF rows
<1>3. PeopleOf(rows) = S BY <1>1, <1>2 DEF PeopleOf
<1> QED BY <1>3 DEF rows

LEMMA NotesKeptMeans == FewMerged(people) => (NotesKept <=> NotesKeepTheirPeople)
<1>1. \A n : {Canonical(people, l.person) : l \in links[n]}
               = Leads(people, PeopleOf(links[n]))
  BY DEF Leads, PeopleOf
<1> QED BY <1>1 DEF NotesKept, NotesKeepTheirPeople, NoteKept, Leads

LEMMA LeadsType ==
  ASSUME Base, NEW n \in Notes
  PROVE  PeopleOf(links[n]) \subseteq Ids /\ meant[n] \subseteq Ids
<1>1. links[n] \subseteq Links /\ meant[n] \subseteq Ids
  BY DEF Base, Types, Tables, LinkTables
<1> QED BY <1>1 DEF PeopleOf, Links

LEMMA SameLeads ==
  ASSUME NEW tab, NEW new, NEW S, \A p \in S : Canonical(new, p) = Canonical(tab, p)
  PROVE  Leads(new, S) = Leads(tab, S)
BY DEF Leads

(* A merge moves the rows on the source to the person that it leads to now. *)
LEMMA MergeKeepsNote ==
  ASSUME Base, Naming, Lasting, NEW d \in Edits, EditCommit(d),
         edit[d].kind = "merge", FewMerged(people'), NEW n \in Notes, NoteKept(n)
  PROVE  Leads(people', PeopleOf(links'[n])) = Leads(people', meant'[n])
<1> DEFINE a == edit[d].person b == edit[d].source
           g(q) == IF q = b THEN a ELSE q
<1>1. /\ people \in PeopleTables /\ people' \in PeopleTables /\ Ordered(people)
      /\ Merges(people, people', a, b)
  BY EditChains DEF Base, Types, Tables, Lasting
<1>2. \A p \in Ids : Canonical(people', p) = g(Canonical(people, p))
  BY <1>1, MergeChains
<1>3. a \in Ids /\ b \in Ids /\ Canonical(people, a) = a /\ Canonical(people, b) = b
  <2>1. a \in Ids /\ b \in Ids /\ a \notin Tombs(people) /\ b \notin Tombs(people)
    BY <1>1 DEF Merges, Active, Tombs
  <2> QED BY <1>1, <2>1, CanonicalOfActive
<1>4. Canonical(people', a) = a /\ Canonical(people', b) = a BY <1>2, <1>3
<1>5. /\ PeopleOf(links[n]) \subseteq Ids /\ meant[n] \subseteq Ids /\ meant' = meant
  BY LeadsType DEF EditCommit
<1>6. /\ links'[n] = (links[n] \ RowsSeen(d, n)) \union Moved(d, n)
      /\ RowsSeen(d, n) \subseteq links[n]
  BY DEF EditCommit, LinksAfter, Changed
<1>7. PeopleOf(RowsSeen(d, n)) \subseteq {b} BY DEF PeopleOf, RowsSeen
<1>8. PeopleOf(Moved(d, n)) = IF RowsSeen(d, n) = {} THEN {} ELSE {a}
  <2>1. ASSUME NEW l \in RowsSeen(d, n) PROVE [l EXCEPT !.person = a].person = a
    <3>1. l \in Links
      <4>1. edit[d].snap.links \in LinkTables
        BY EditCommitShape DEF Base, Types, Meant, Snapshots
      <4> QED BY <4>1 DEF RowsSeen, LinkTables
    <3> QED BY <3>1 DEF Links
  <2> QED BY <2>1 DEF Moved, PeopleOf
<1>9. Leads(people', PeopleOf(links'[n])) = Leads(people', PeopleOf(links[n]))
  <2>1. ASSUME NEW p \in PeopleOf(links'[n])
        PROVE  \E q \in PeopleOf(links[n]) : Canonical(people', p) = Canonical(people', q)
    <3>1. CASE p \in PeopleOf(links[n]) BY <3>1
    <3>2. CASE p \notin PeopleOf(links[n])
      <4>1. p \in PeopleOf(Moved(d, n)) BY <1>6, <3>2 DEF PeopleOf
      <4>2. p = a /\ \E l : l \in RowsSeen(d, n) BY <1>8, <4>1
      <4>3. b \in PeopleOf(links[n]) BY <1>6, <4>2 DEF PeopleOf, RowsSeen
      <4> QED BY <1>4, <4>2, <4>3
    <3> QED BY <3>1, <3>2
  <2>2. ASSUME NEW q \in PeopleOf(links[n])
        PROVE  \E p \in PeopleOf(links'[n]) : Canonical(people', p) = Canonical(people', q)
    <3>1. PICK l \in links[n] : l.person = q BY DEF PeopleOf
    <3>2. CASE l \in RowsSeen(d, n)
      <4>1. q = b BY <3>1, <3>2 DEF RowsSeen
      <4>2. a \in PeopleOf(links'[n])
        <5>1. a \in PeopleOf(Moved(d, n)) BY <1>8, <3>2
        <5> QED BY <1>6, <5>1 DEF PeopleOf
      <4> QED BY <1>4, <4>1, <4>2
    <3>3. CASE l \notin RowsSeen(d, n)
      <4>1. q \in PeopleOf(links'[n]) BY <1>6, <3>1, <3>3 DEF PeopleOf
      <4> QED BY <4>1
    <3> QED BY <3>2, <3>3
  <2> QED BY <2>1, <2>2 DEF Leads
<1>10. \A S \in SUBSET Ids : Leads(people', S) = {g(q) : q \in Leads(people, S)}
  BY <1>2 DEF Leads
<1> QED BY <1>5, <1>9, <1>10 DEF NoteKept

LEMMA NextKept == Base /\ Naming /\ Lasting /\ NotesKept /\ [Next]_vars => NotesKept'
<1> SUFFICES ASSUME Base, Naming, Lasting, NotesKept, [Next]_vars, FewMerged(people'),
                    NEW n \in Notes
             PROVE  Leads(people', PeopleOf(links'[n])) = Leads(people', meant'[n])
  <2>1. FewMerged(people)' <=> FewMerged(people') BY DEF FewMerged, Tombs
  <2>2. \A m : NoteKept(m)' <=> Leads(people', PeopleOf(links'[m])) = Leads(people', meant'[m])
    BY DEF NoteKept, Leads, PeopleOf, Canonical
  <2> QED BY <2>1, <2>2 DEF NotesKept
<1>1. people \in PeopleTables /\ Ordered(people) BY DEF Base, Types, Tables, Lasting
<1>2. ASSUME ChainsKept, links'[n] = links[n], meant'[n] = meant[n]
      PROVE  Leads(people', PeopleOf(links'[n])) = Leads(people', meant'[n])
  <2>1. /\ Tombs(people') = Tombs(people)
        /\ \A p \in Ids : Canonical(people', p) = Canonical(people, p)
    BY <1>1, <1>2, SameChains DEF ChainsKept
  <2>2. NoteKept(n) BY <2>1 DEF NotesKept, FewMerged
  <2>3. PeopleOf(links[n]) \subseteq Ids /\ meant[n] \subseteq Ids BY LeadsType
  <2> QED BY <1>2, <2>1, <2>2, <2>3, SameLeads DEF NoteKept
<1>3. CASE UNCHANGED vars BY <1>1, <1>2, <1>3 DEF ChainsKept, vars
<1>4. ASSUME NEW e \in Enrichments, EnrichCommit(e)
      PROVE  Leads(people', PeopleOf(links'[n])) = Leads(people', meant'[n])
  <2>1. /\ links' = [links EXCEPT ![e] = {[person |-> p, save |-> 1] : p \in enrich[e].rows}]
        /\ meant' = [meant EXCEPT ![e] = enrich[e].rows]
        /\ links \in LinkTables /\ meant \in [Notes -> SUBSET Ids]
    BY <1>4, CommitShape DEF Base, Types, Tables
  <2>2. CASE n = e
    <3>1. /\ links'[n] = {[person |-> p, save |-> 1] : p \in enrich[e].rows}
          /\ meant'[n] = enrich[e].rows
      BY <2>1, <2>2 DEF LinkTables
    <3> DEFINE R == {[person |-> p, save |-> 1] : p \in enrich[e].rows}
    <3>2. PeopleOf(R) = enrich[e].rows BY PeopleOfRows
    <3> HIDE DEF R
    <3>3. PeopleOf(links'[n]) = meant'[n] BY <3>1, <3>2 DEF R
    <3> QED BY <3>3
  <2>3. CASE n # e
    <3>1. links'[n] = links[n] /\ meant'[n] = meant[n] BY <2>1, <2>3 DEF LinkTables
    <3> QED BY <1>1, <1>2, <1>4, <3>1, EnrichKeepsChains
  <2> QED BY <2>2, <2>3
<1>5. ASSUME NEW e \in Enrichments,
             \/ EnrichBegin(e) \/ ResolveByAlias(e) \/ ResolveByName(e)
             \/ CreatePerson(e) \/ LinkPerson(e) \/ EnrichRollback(e)
      PROVE  Leads(people', PeopleOf(links'[n])) = Leads(people', meant'[n])
  <2>1. ChainsKept BY <1>1, <1>5, EnrichKeepsChains
  <2>2. links' = links /\ meant' = meant
    BY <1>5 DEF EnrichBegin, ResolveByAlias, ResolveByName, CreatePerson, LinkPerson,
                EnrichRollback
  <2> QED BY <1>2, <2>1, <2>2
<1>6. ASSUME NEW d \in Edits, EditCommit(d)
      PROVE  Leads(people', PeopleOf(links'[n])) = Leads(people', meant'[n])
  <2>1. CASE edit[d].kind = "merge"
    <3>1. FewMerged(people) BY <1>1, <1>6, <2>1, EditChains, MergeOrder
    <3>2. NoteKept(n) BY <3>1 DEF NotesKept
    <3> QED BY <1>6, <2>1, <3>2, MergeKeepsNote
  <2>2. CASE edit[d].kind # "merge"
    <3>1. ChainsKept /\ edit[d].source = None BY <1>6, <2>2, EditChains
    <3>2. RowsSeen(d, n) = {}
      <4>1. edit[d].snap.links \in LinkTables
        BY <1>6, EditCommitShape DEF Base, Types, Meant, Snapshots
      <4> QED BY <3>1, <4>1, NoneIsNoId DEF RowsSeen, LinkTables, Links
    <3>3. links'[n] = links[n] /\ meant'[n] = meant[n]
      BY <1>6, <3>2 DEF EditCommit, LinksAfter, Moved
    <3> QED BY <1>2, <3>1, <3>3
  <2> QED BY <2>1, <2>2
<1>7. ASSUME NEW d \in Edits,
             \/ UpdateBegin(d) \/ MergeBegin(d) \/ LockRow(d)
             \/ LockNorm(d) \/ EditRollback(d)
      PROVE  Leads(people', PeopleOf(links'[n])) = Leads(people', meant'[n])
  <2>1. people' = people /\ links' = links /\ meant' = meant
    BY <1>7 DEF UpdateBegin, MergeBegin, LockRow, LockNorm, EditRollback, EditOnly
  <2> QED BY <1>1, <1>2, <2>1 DEF ChainsKept
<1> QED BY <1>3, <1>4, <1>5, <1>6, <1>7 DEF Next

LEMMA InitKept == Init => NotesKept
<1> SUFFICES ASSUME Init, NEW n \in Notes PROVE NoteKept(n) BY DEF NotesKept
<1>1. PeopleOf(links[n]) = meant[n]
  <2>1. CASE n \in OldNotes
    <3>1. /\ links[n] = {[person |-> p, save |-> 0] : p \in DOMAIN Known}
          /\ meant[n] = DOMAIN Known
      BY <2>1 DEF Init
    <3> DEFINE R == {[person |-> p, save |-> 0] : p \in DOMAIN Known}
    <3>2. PeopleOf(R) = DOMAIN Known BY PeopleOfRows
    <3> HIDE DEF R
    <3> QED BY <3>1, <3>2 DEF R
  <2>2. CASE n \notin OldNotes BY <2>2 DEF Init, PeopleOf
  <2> QED BY <2>1, <2>2
<1> QED BY <1>1 DEF NoteKept

(* While no more people are merged away than the chain is followed for, no *)
(* merge, and no update, loses or adds a person of a note.                 *)
THEOREM NotesLast == Spec => [](FewMerged(people) => NotesKeepTheirPeople)
<1>1. NotesKept => (FewMerged(people) => NotesKeepTheirPeople) BY NotesKeptMeans
<1> QED BY InitBase, NextBase, InitNaming, NextNaming, InitLasting, NextLasting,
        InitKept, NextKept, <1>1, PTL DEF Spec
=============================================================================
