--------------------------- MODULE CommitteeProofs ----------------------------
(***************************************************************************)
(* What a debate is set up with, for any registry, personas, budget and    *)
(* committee.  PersonaRoster: selections and listings change no persona that *)
(* exists, they miss nobody, a roster is never empty and a named one stays. *)
(* BudgetManager: every plan is funded, and the gate, the planner and the  *)
(* ledger count the same tokens.                                           *)
(***************************************************************************)
EXTENDS PersonaRoster, BudgetManager, FoldFacts, FiniteSetTheorems, TLAPS

Collection == [Ids -> {"absent", "active", "inactive"}]

\* A persona that has a document keeps one.
Kept == \A p \in Ids : Exists(p) => Exists(p)'

\* A default roster that is looked up, not selected by anybody.
ByDefault == ~Explicit(config.agent_roles) /\ ~Explicit(config.agent_ids)

Placed ==
  /\ docs \in Collection
  /\ at \in [Readers -> {"idle", "seeding", "reading"}]
  /\ seeded \in [Readers -> 0..Len(Core) - 1]
  /\ \A r \in Readers : at[r] # "seeding" => seeded[r] = 0

\* What was upserted so far is there.
SeededSoFar ==
  \A r \in Readers :
    /\ \A i \in 1..seeded[r] : Exists(Core[i])
    /\ at[r] = "reading" => \A p \in Builtins : Exists(p)

\* The history of a listing, and what it showed.
ListingComplete ==
  /\ known \subseteq {p \in Ids : Exists(p)}
  /\ listed # {} => Builtins \cup known \subseteq listed

\* The history of a selection under way, and what it gave.
SelectionCurrent ==
  /\ at["debate"] # "idle" =>
       /\ roster = NoRoster
       /\ steady \subseteq ActiveCustoms /\ ActiveCustoms \subseteq seen
  /\ DefaultCustomsAreCurrent

RosterInv == Placed /\ SeededSoFar /\ ListingComplete /\ SelectionCurrent

LEMMA CoreFacts ==
  /\ Len(Core) \in Nat \ {0} /\ DOMAIN Core = 1..Len(Core)
  /\ \A i \in 1..Len(Core) : Core[i] \in Builtins
  /\ \A p \in Builtins : \E i \in 1..Len(Core) : p = Core[i]
  /\ Builtins \subseteq Ids /\ Customs \subseteq Ids
<1>1. Core \in Seq(Builtins) /\ Core # << >>
  BY RosterAssumption
<1>2. Len(Core) \in Nat \ {0} /\ DOMAIN Core = 1..Len(Core)
  BY <1>1
<1>3. Builtins = {Core[i] : i \in DOMAIN Core}
  BY DEF Builtins, ToSet
<1> QED
  BY <1>2, <1>3 DEF Ids

\* A sequence that holds each element of a finite set once holds them all.
LEMMA OrderIsComplete ==
  ASSUME NEW S, IsFiniteSet(S), NEW order \in SetToSeqs(S)
  PROVE  ToSet(order) = S
<1> DEFINE D == 1..Cardinality(S)
<1>1. order \in [D -> S] /\ \A i, j \in D : i # j => order[i] # order[j]
  BY DEF SetToSeqs
<1>2. order \in Injection(D, S)
  BY <1>1 DEF Injection, IsInjective
<1>3. Cardinality(S) \in Nat
  BY FS_CardinalityType
<1>4. Cardinality(D) = Cardinality(S)
  BY <1>3, FS_Interval
<1>5. order \in Surjection(D, S)
  BY <1>2, <1>4, FS_Injection
<1>6. \A p \in S : \E i \in D : order[i] = p
  BY <1>5 DEF Surjection
<1> QED
  BY <1>1, <1>6 DEF ToSet

LEMMA RosterInvInit == RosterInit => RosterInv
<1> SUFFICES ASSUME RosterInit PROVE RosterInv
  OBVIOUS
<1>1. Placed
  BY CoreFacts DEF RosterInit, Placed, Collection
<1>2. SeededSoFar
  BY DEF RosterInit, SeededSoFar
<1>3. ListingComplete
  BY DEF RosterInit, ListingComplete
<1>4. SelectionCurrent
  <2>1. at["debate"] = "idle" /\ roster.by = "nobody"
    BY DEF RosterInit, NoRoster, Readers
  <2> QED
    BY <2>1 DEF SelectionCurrent, DefaultCustomsAreCurrent
<1> QED
  BY <1>1, <1>2, <1>3, <1>4 DEF RosterInv

-----------------------------------------------------------------------------
\* The requests that leave both places alone: POST and PATCH.

\* A change of one document, by whatever request, as selections see it.
LEMMA WatchFacts ==
  ASSUME RosterInv, NEW newDocs \in Collection, Watch(newDocs),
         \A p \in Ids : Exists(p) => newDocs[p] # "absent"
  PROVE  /\ docs' \in Collection /\ Kept
         /\ at["debate"] # "idle" =>
              steady' \subseteq ActiveCustoms' /\ ActiveCustoms' \subseteq seen'
         /\ at["debate"] = "idle" => steady' = steady /\ seen' = seen
<1>1. docs' = newDocs
  BY DEF Watch
<1>2. Kept
  BY <1>1 DEF Kept, Exists
<1>3. ActiveCustoms' = {p \in Customs : newDocs[p] = "active"}
  BY <1>1 DEF ActiveCustoms
<1> QED
  BY <1>1, <1>2, <1>3 DEF Watch

LEMMA RequestsKeep ==
  ASSUME RosterInv,
         \/ \E p \in Customs : Create(p)
         \/ \E p \in Ids, b \in BOOLEAN : SetActive(p, b)
  PROVE  RosterInv'
<1>1. PICK newDocs \in Collection :
        /\ Watch(newDocs)
        /\ \A p \in Ids : Exists(p) => newDocs[p] # "absent"
        /\ UNCHANGED <<config, requestVars, builds, roster, first, listed, known>>
  <2>1. ASSUME NEW p \in Ids, NEW v \in {"active", "inactive"}
        PROVE  /\ [docs EXCEPT ![p] = v] \in Collection
               /\ \A q \in Ids : Exists(q) => [docs EXCEPT ![p] = v][q] # "absent"
    BY <2>1 DEF RosterInv, Placed, Collection, Exists
  <2>2. CASE \E p \in Customs : Create(p)
    BY <2>1, <2>2, CoreFacts DEF Create
  <2>3. CASE \E p \in Ids, b \in BOOLEAN : SetActive(p, b)
    <3>1. PICK p \in Ids, b \in BOOLEAN : SetActive(p, b)
      BY <2>3
    <3>2. CASE b = TRUE
      BY <2>1, <3>1, <3>2 DEF SetActive
    <3>3. CASE b = FALSE
      BY <2>1, <3>1, <3>3 DEF SetActive
    <3> QED
      BY <3>2, <3>3
  <2> QED
    BY <2>2, <2>3
<1>2. UNCHANGED <<config, at, seeded, builds, roster, first, listed, known>>
  BY <1>1 DEF requestVars
<1>3. /\ docs' \in Collection /\ Kept
      /\ at["debate"] # "idle" =>
           steady' \subseteq ActiveCustoms' /\ ActiveCustoms' \subseteq seen'
      /\ at["debate"] = "idle" => steady' = steady /\ seen' = seen
  BY <1>1, WatchFacts
<1>4. Placed'
  BY <1>2, <1>3 DEF RosterInv, Placed
<1>5. SeededSoFar'
  BY <1>2, <1>3, CoreFacts DEF RosterInv, Placed, SeededSoFar, Kept
<1>6. ListingComplete'
  BY <1>2, <1>3 DEF RosterInv, ListingComplete, Kept
<1>7. SelectionCurrent'
  BY <1>2, <1>3 DEF RosterInv, SelectionCurrent, DefaultCustomsAreCurrent, NoRoster, Explicit
<1> QED
  BY <1>4, <1>5, <1>6, <1>7 DEF RosterInv

-----------------------------------------------------------------------------
\* The steps of selections and listings.

LEMMA UpsertFacts ==
  ASSUME RosterInv, NEW q \in Ids
  PROVE  /\ Upserted(q) \in Collection
         /\ Upserted(q)[q] # "absent"
         /\ \A p \in Ids : Exists(p) => Upserted(q)[p] = docs[p]
BY DEF RosterInv, Placed, Collection, Upserted, Exists

LEMMA SeedKeeps ==
  ASSUME RosterInv, NEW r \in Readers, Seed(r)
  PROVE  RosterInv'
<1> DEFINE n == seeded[r] + 1
<1>1. /\ at[r] = "seeding" /\ Watch(Upserted(Core[n]))
      /\ seeded' = [seeded EXCEPT ![r] = IF n = Len(Core) THEN 0 ELSE n]
      /\ at' = [at EXCEPT ![r] = IF n = Len(Core) THEN "reading" ELSE @]
      /\ UNCHANGED <<config, builds, roster, first, listed, known>>
  BY DEF Seed, Seeded
<1>2. n \in 1..Len(Core) /\ Core[n] \in Ids
  BY CoreFacts DEF RosterInv, Placed
<1>3. /\ docs' \in Collection /\ Kept
      /\ at["debate"] # "idle" =>
           steady' \subseteq ActiveCustoms' /\ ActiveCustoms' \subseteq seen'
      /\ at["debate"] = "idle" => steady' = steady /\ seen' = seen
  <2> DEFINE newDocs == Upserted(Core[n])
  <2>1. newDocs \in Collection /\ \A p \in Ids : Exists(p) => newDocs[p] # "absent"
    BY <1>2, UpsertFacts DEF Exists
  <2>2. Watch(newDocs)
    BY <1>1
  <2> HIDE DEF newDocs
  <2> QED
    BY <2>1, <2>2, WatchFacts
<1>4. docs'[Core[n]] # "absent"
  <2>1. docs' = Upserted(Core[n])
    BY <1>1 DEF Watch
  <2> QED
    BY <1>2, <2>1, UpsertFacts DEF Exists
<1>5. Placed'
  BY <1>1, <1>2, <1>3, CoreFacts DEF RosterInv, Placed
<1>6. \A i \in 1..n : Exists(Core[i])'
  <2> SUFFICES ASSUME NEW i \in 1..n PROVE Exists(Core[i])'
    OBVIOUS
  <2>1. CASE i = n
    BY <2>1, <1>4 DEF Exists
  <2>2. CASE i # n
    <3>1. i \in 1..seeded[r] /\ Core[i] \in Ids
      BY <2>2, <1>2, CoreFacts DEF RosterInv, Placed
    <3> QED
      BY <3>1, <1>3 DEF RosterInv, SeededSoFar, Kept
  <2> QED
    BY <2>1, <2>2
<1>7. SeededSoFar'
  <2> SUFFICES ASSUME NEW x \in Readers
               PROVE  /\ \A i \in 1..seeded'[x] : Exists(Core[i])'
                      /\ at'[x] = "reading" => \A p \in Builtins : Exists(p)'
    BY DEF SeededSoFar
  <2>1. CASE x # r
    <3>1. seeded'[x] = seeded[x] /\ at'[x] = at[x] /\ seeded[x] \in 0..Len(Core) - 1
      BY <1>1, <2>1 DEF RosterInv, Placed
    <3> QED
      BY <3>1, <1>3, CoreFacts DEF RosterInv, SeededSoFar, Kept
  <2>2. CASE x = r /\ n = Len(Core)
    <3>1. seeded'[x] = 0
      BY <1>1, <2>2 DEF RosterInv, Placed
    <3>2. \A p \in Builtins : Exists(p)'
      BY <1>6, <2>2, CoreFacts
    <3> QED
      BY <3>1, <3>2
  <2>3. CASE x = r /\ n # Len(Core)
    <3>1. seeded'[x] = n /\ at'[x] = "seeding"
      BY <1>1, <2>3 DEF RosterInv, Placed
    <3> QED
      BY <3>1, <1>6
  <2> QED
    BY <2>1, <2>2, <2>3
<1>8. ListingComplete'
  BY <1>1, <1>3 DEF RosterInv, ListingComplete, Kept
<1>9. at'["debate"] = "idle" <=> at["debate"] = "idle"
  BY <1>1 DEF RosterInv, Placed, Readers
<1>10. SelectionCurrent'
  BY <1>1, <1>3, <1>9
  DEF RosterInv, SelectionCurrent, DefaultCustomsAreCurrent, NoRoster, Explicit
<1> QED
  BY <1>5, <1>7, <1>8, <1>10 DEF RosterInv

\* Beginning, failing and ending: the collection stays as it is.
LEMMA SelectKeeps == RosterInv /\ (Select \/ FallBack \/ BuildFromRoles) => RosterInv'
<1> SUFFICES ASSUME RosterInv, Select \/ FallBack \/ BuildFromRoles
             PROVE  RosterInv'
  OBVIOUS
<1>1. UNCHANGED <<docs, config, known, listed>>
  BY DEF Select, FallBack, BuildFromRoles, historyVars
<1>2. ListingComplete'
  BY <1>1 DEF RosterInv, ListingComplete, Exists
<1>3. /\ at'["listing"] = at["listing"] /\ seeded'["listing"] = seeded["listing"]
      /\ at' \in [Readers -> {"idle", "seeding", "reading"}]
      /\ seeded' \in [Readers -> 0..Len(Core) - 1]
      /\ seeded'["debate"] = 0
      /\ at'["debate"] # "reading"
  BY CoreFacts
  DEF Select, FallBack, BuildFromRoles, RosterInv, Placed, Readers, requestVars
<1>4. Placed'
  BY <1>1, <1>3 DEF RosterInv, Placed, Readers
<1>5. SeededSoFar'
  BY <1>1, <1>3 DEF RosterInv, SeededSoFar, Exists, Readers
<1>6. SelectionCurrent'
  <2>1. CASE Select
    BY <2>1, <1>1 DEF RosterInv, Placed, Readers, Select, SelectionCurrent,
       DefaultCustomsAreCurrent, NoRoster, ActiveCustoms
  <2>2. CASE FallBack
    BY <2>2, <1>1 DEF RosterInv, Placed, Readers, FallBack, SelectionCurrent,
       DefaultCustomsAreCurrent
  <2>3. CASE BuildFromRoles
    BY <2>3, <1>1 DEF BuildFromRoles, SelectionCurrent, DefaultCustomsAreCurrent,
       requestVars, Explicit
  <2> QED
    BY <2>1, <2>2, <2>3
<1> QED
  BY <1>2, <1>4, <1>5, <1>6 DEF RosterInv

LEMMA ReadKeeps == RosterInv /\ Read => RosterInv'
<1> SUFFICES ASSUME RosterInv, Read PROVE RosterInv'
  OBVIOUS
<1>1. /\ at["debate"] = "reading" /\ at' = [at EXCEPT !["debate"] = "idle"]
      /\ UNCHANGED <<docs, config, seeded, builds, steady, seen, known, listed>>
  BY DEF Read, historyVars
<1>2. ListingComplete'
  BY <1>1 DEF RosterInv, ListingComplete, Exists
<1>3. at'["debate"] = "idle" /\ at'["listing"] = at["listing"]
  BY <1>1 DEF RosterInv, Placed, Readers
<1>4. Placed'
  BY <1>1, <1>3 DEF RosterInv, Placed, Readers
<1>5. SeededSoFar'
  BY <1>1, <1>3 DEF RosterInv, SeededSoFar, Exists, Readers
<1>6. DefaultCustomsAreCurrent'
  <2> SUFFICES ASSUME ~Explicit(config.agent_ids)
               PROVE  /\ roster'.core = Core
                      /\ steady \subseteq ToSet(roster'.custom)
                      /\ ToSet(roster'.custom) \subseteq seen
    BY <1>1 DEF DefaultCustomsAreCurrent, Explicit
  <2>1. PICK order \in SetToSeqs(ActiveCustoms) : roster' = Selected(Core, order)
    BY DEF Read, Invited
  <2>2. roster'.core = Core /\ roster'.custom = order
    BY <2>1 DEF Selected
  <2>3. IsFiniteSet(ActiveCustoms)
    BY FS_Subset, RosterAssumption DEF ActiveCustoms
  <2>4. ToSet(order) = ActiveCustoms
    BY <2>3, OrderIsComplete
  <2>5. steady \subseteq ActiveCustoms /\ ActiveCustoms \subseteq seen
    BY <1>1 DEF RosterInv, SelectionCurrent
  <2> QED
    BY <2>2, <2>4, <2>5
<1>7. SelectionCurrent'
  BY <1>3, <1>6 DEF SelectionCurrent
<1> QED
  BY <1>2, <1>4, <1>5, <1>7 DEF RosterInv

LEMMA ListingKeeps == RosterInv /\ (List \/ ReadList \/ ListFails) => RosterInv'
<1> SUFFICES ASSUME RosterInv, List \/ ReadList \/ ListFails PROVE RosterInv'
  OBVIOUS
<1>1. UNCHANGED <<docs, config, roster, steady, seen>>
  BY DEF List, ReadList, ListFails, historyVars
<1>2. /\ at'["debate"] = at["debate"] /\ seeded'["debate"] = seeded["debate"]
      /\ at' \in [Readers -> {"idle", "seeding", "reading"}]
      /\ seeded' \in [Readers -> 0..Len(Core) - 1]
      /\ seeded'["listing"] = 0
      /\ at'["listing"] # "reading"
  BY CoreFacts DEF List, ReadList, ListFails, RosterInv, Placed, Readers
<1>3. Placed'
  BY <1>1, <1>2 DEF RosterInv, Placed, Readers
<1>4. SeededSoFar'
  BY <1>1, <1>2 DEF RosterInv, SeededSoFar, Exists, Readers
<1>5. SelectionCurrent'
  BY <1>1, <1>2
  DEF RosterInv, SelectionCurrent, DefaultCustomsAreCurrent, ActiveCustoms, NoRoster, Explicit
<1>6. ListingComplete'
  <2>1. CASE List
    BY <2>1, <1>1 DEF List, ListingComplete, Exists
  <2>2. CASE ReadList
    <3>1. \A p \in Builtins : Exists(p)
      BY <2>2 DEF ReadList, RosterInv, SeededSoFar, Readers
    <3> QED
      BY <2>2, <3>1, <1>1, CoreFacts
      DEF ReadList, RosterInv, ListingComplete, Exists, historyVars
  <2>3. CASE ListFails
    BY <2>3, <1>1 DEF ListFails, RosterInv, ListingComplete, Exists, historyVars
  <2> QED
    BY <2>1, <2>2, <2>3
<1> QED
  BY <1>3, <1>4, <1>5, <1>6 DEF RosterInv

LEMMA RosterInvNext == RosterInv /\ [RosterNext]_rosterVars => RosterInv'
<1> SUFFICES ASSUME RosterInv, [RosterNext]_rosterVars PROVE RosterInv'
  OBVIOUS
<1>1. CASE \/ \E p \in Customs : Create(p)
           \/ \E p \in Ids, b \in BOOLEAN : SetActive(p, b)
  BY <1>1, RequestsKeep
<1>2. CASE List \/ ReadList \/ ListFails
  BY <1>2, ListingKeeps
<1>3. CASE BuildFromRoles \/ Select \/ FallBack
  BY <1>3, SelectKeeps
<1>4. CASE Read
  BY <1>4, ReadKeeps
<1>5. CASE \E r \in Readers : Seed(r)
  BY <1>5, SeedKeeps
<1>6. CASE UNCHANGED rosterVars
  BY <1>6 DEF rosterVars, RosterInv, Placed, SeededSoFar, ListingComplete,
     SelectionCurrent, DefaultCustomsAreCurrent, ActiveCustoms, Exists, Explicit
<1> QED
  BY <1>1, <1>2, <1>3, <1>4, <1>5, <1>6 DEF RosterNext

LEMMA RosterHolds == RosterSpec => []RosterInv
BY RosterInvInit, RosterInvNext, PTL DEF RosterSpec

-----------------------------------------------------------------------------
\* A default roster misses no custom persona that was active throughout its selection and
\* holds none that was at no moment active; the built-ins sit in it whatever their status.
THEOREM DefaultCustomsAreCurrentHolds == RosterSpec => []DefaultCustomsAreCurrent
<1>1. RosterInv => DefaultCustomsAreCurrent
  BY DEF RosterInv, SelectionCurrent
<1> QED
  BY <1>1, RosterHolds, PTL

\* A listing misses no built-in and nobody who existed when it began.
THEOREM NobodyUnlistedHolds == RosterSpec => []NobodyUnlisted
<1>1. RosterInv => NobodyUnlisted
  BY DEF RosterInv, ListingComplete, NobodyUnlisted
<1> QED
  BY <1>1, RosterHolds, PTL

\* No step of a selection or a listing changes a persona that exists.
THEOREM ReadersOnlyInsertHolds == RosterSpec => ReadersOnlyInsert
<1> DEFINE Inserts ==
      requestVars' # requestVars => \A p \in Ids : Exists(p) => docs'[p] = docs[p]
<1>1. RosterInv /\ [RosterNext]_rosterVars => [Inserts]_rosterVars
  <2> SUFFICES ASSUME RosterInv, RosterNext, requestVars' # requestVars,
                      NEW p \in Ids, Exists(p)
               PROVE  docs'[p] = docs[p]
    OBVIOUS
  <2>1. CASE \E r \in Readers : Seed(r)
    <3>1. PICK r \in Readers : Seed(r)
      BY <2>1
    <3>2. seeded[r] + 1 \in 1..Len(Core)
      BY CoreFacts DEF RosterInv, Placed
    <3>3. Core[seeded[r] + 1] \in Ids
      BY <3>2, CoreFacts
    <3> QED
      BY <3>1, <3>3, UpsertFacts DEF Seed, Watch
  <2>2. CASE ~(\E r \in Readers : Seed(r))
    BY <2>2 DEF RosterNext, Create, SetActive, List, ReadList, ListFails,
       BuildFromRoles, Select, Read, FallBack, requestVars
  <2> QED
    BY <2>1, <2>2
<1> QED
  BY <1>1, RosterHolds, PTL DEF RosterSpec, ReadersOnlyInsert

-----------------------------------------------------------------------------
\* One step of the recursion in Only.
OneMore(kept, ids, wanted, n) ==
  kept[n] = IF n = 0 THEN <<>>
            ELSE IF ids[n] \in wanted THEN Append(kept[n - 1], ids[n]) ELSE kept[n - 1]

LEMMA OnlyExists ==
  ASSUME NEW ids, NEW wanted, NEW m \in Nat
  PROVE  \E kept : /\ kept = [n \in 0..m |-> kept[n]]
                   /\ \A n \in 0..m : OneMore(kept, ids, wanted, n)
<1> DEFINE Upto(kept, k) == /\ kept = [n \in 0..m |-> kept[n]]
                            /\ \A n \in 0..m : n <= k => OneMore(kept, ids, wanted, n)
           Good == {k \in Nat : \E kept : Upto(kept, k)}
<1>1. 0 \in Good
  <2> DEFINE base == [n \in 0..m |-> <<>>]
  <2>1. Upto(base, 0)
    BY DEF OneMore
  <2> HIDE DEF base, Upto
  <2> QED
    BY <2>1
<1>2. ASSUME NEW k \in Nat, k \in Good PROVE k + 1 \in Good
  <2>1. PICK kept : Upto(kept, k)
    BY <1>2
  <2> DEFINE e == IF ids[k + 1] \in wanted THEN Append(kept[k], ids[k + 1]) ELSE kept[k]
             next == [n \in 0..m |-> IF n = k + 1 THEN e ELSE kept[n]]
  <2>2. ASSUME NEW n \in 0..m, n <= k + 1 PROVE OneMore(next, ids, wanted, n)
    <3>1. CASE n = k + 1
      <4>1. next[n] = e /\ n - 1 \in 0..m /\ n - 1 # k + 1 /\ n - 1 = k /\ n # 0
        BY <2>2, <3>1
      <4>2. next[n - 1] = kept[k]
        BY <4>1
      <4>3. next[n] = IF ids[n] \in wanted THEN Append(next[n - 1], ids[n]) ELSE next[n - 1]
        BY <4>1, <4>2, <3>1
      <4> HIDE DEF next
      <4> QED
        BY <4>1, <4>3 DEF OneMore
    <3>2. CASE n # k + 1
      <4>1. n <= k /\ (n # 0 => n - 1 \in 0..m /\ n - 1 # k + 1)
        BY <2>2, <3>2
      <4>2. next[n] = kept[n] /\ (n # 0 => next[n - 1] = kept[n - 1])
        BY <4>1, <3>2
      <4>3. OneMore(kept, ids, wanted, n)
        BY <2>1, <4>1
      <4> HIDE DEF next
      <4> QED
        BY <4>2, <4>3 DEF OneMore
    <3> QED
      BY <3>1, <3>2
  <2>3. next = [n \in 0..m |-> next[n]]
    OBVIOUS
  <2>4. Upto(next, k + 1)
    <3> HIDE DEF next
    <3> QED
      BY <2>2, <2>3
  <2> HIDE DEF next, Upto
  <2> QED
    BY <2>4
<1>3. m \in Good
  <2> HIDE DEF Good
  <2> QED
    BY <1>1, <1>2, NumberInduction
<1>4. PICK kept : Upto(kept, m)
  BY <1>3
<1> QED
  BY <1>4

\* What Only keeps is a sequence of what is wanted.
LEMMA OnlyWanted ==
  ASSUME NEW ids, Len(ids) \in Nat, NEW wanted
  PROVE  Only(ids, wanted) \in Seq(wanted)
<1> DEFINE m == Len(ids)
           Solution(kept) ==
             kept = [n \in 0..m |->
                       IF n = 0 THEN <<>>
                       ELSE IF ids[n] \in wanted THEN Append(kept[n - 1], ids[n])
                       ELSE kept[n - 1]]
           iter == CHOOSE kept : Solution(kept)
<1>1. Only(ids, wanted) = iter[m]
  BY DEF Only
<1>2. Solution(iter)
  <2>1. PICK kept : /\ kept = [n \in 0..m |-> kept[n]]
                    /\ \A n \in 0..m : OneMore(kept, ids, wanted, n)
    <3> HIDE DEF m
    <3>1. m \in Nat
      BY DEF m
    <3> QED
      BY <3>1, OnlyExists
  <2>2. Solution(kept)
    <3> HIDE DEF m
    <3> QED
      BY <2>1 DEF OneMore
  <2> HIDE DEF Solution
  <2> QED
    BY <2>2
<1>3. \A n \in 0..m : OneMore(iter, ids, wanted, n)
  <2> HIDE DEF iter, m
  <2> QED
    BY <1>2, Zenon DEF OneMore
<1> HIDE DEF iter, Solution
<1> DEFINE Good == {n \in Nat : n <= m => iter[n] \in Seq(wanted)}
<1>4. 0 \in Good
  <2>1. OneMore(iter, ids, wanted, 0)
    BY <1>3
  <2>2. iter[0] = <<>>
    <3> HIDE DEF m
    <3> QED
      BY <2>1 DEF OneMore
  <2>3. <<>> \in Seq(wanted)
    OBVIOUS
  <2>4. iter[0] \in Seq(wanted)
    BY <2>2, <2>3
  <2> QED
    BY <2>4
<1>5. ASSUME NEW n \in Nat, n \in Good PROVE n + 1 \in Good
  <2> SUFFICES ASSUME n + 1 <= m PROVE iter[n + 1] \in Seq(wanted)
    OBVIOUS
  <2>1. iter[n] \in Seq(wanted) /\ OneMore(iter, ids, wanted, n + 1)
    BY <1>3, <1>5
  <2> QED
    BY <2>1 DEF OneMore
<1>6. m \in Good
  <2> HIDE DEF Good
  <2> QED
    BY <1>4, <1>5, NumberInduction
<1> QED
  BY <1>1, <1>6

-----------------------------------------------------------------------------
\* Who is seated.

RosterTyped(r) == /\ r.core \in Seq(Builtins)
                  /\ r.custom \in Seq(Customs)
                  /\ r.by \in {"nobody", "selection", "fallback"}

ByName == Explicit(config.agent_roles) \/ Explicit(config.agent_ids)

\* The agents that an explicit selection means, at any time.
Meant ==
  IF Explicit(config.agent_roles)
  THEN Selected(Roles(config.agent_roles), <<>>)
  ELSE Selected(Roles(Only(config.agent_ids, Builtins)),
                Only(config.agent_ids, ToSet(config.agent_ids) \cap Customs))

Usable == Built => roster.core # <<>> /\ \A p \in ToSet(roster.custom) : Exists(p)

\* Personas that were named when a selection began exist until it ends; whoever is
\* named sits as meant, in the roster and in the first one.
Seating ==
  /\ at["debate"] # "idle" => Nameable /\ ~Explicit(config.agent_roles)
  /\ ByName => first \in {NoRoster, Meant}
  /\ ByName /\ roster.by = "selection" => roster = Meant /\ first = Meant

SeatsInv == RosterTypeOK /\ Usable /\ Seating

\* A selection is a sequence of ids.
LEMMA ConfigFacts ==
  ASSUME RosterTypeOK
  PROVE  /\ Explicit(config.agent_roles) => config.agent_roles \in Seq(ToSet(config.agent_roles))
         /\ Explicit(config.agent_ids) => config.agent_ids \in Seq(ToSet(config.agent_ids))
BY RosterAssumption DEF RosterTypeOK, Explicit

\* build_agents() has somebody to build.
LEMMA RolesSeat ==
  ASSUME NEW roles \in Seq(Builtins)
  PROVE  Roles(roles) \in Seq(Builtins) /\ Roles(roles) # <<>>
BY RosterAssumption DEF Roles

\* A step that leaves the roster alone and deletes nobody.
LEMMA Unseated ==
  ASSUME SeatsInv, RosterInv', Kept,
         UNCHANGED <<config, builds, roster, first>>,
         at'["debate"] # "idle" => at["debate"] # "idle",
         steady' \subseteq Customs, seen' \subseteq Customs,
         listed' \subseteq Ids, known' \subseteq Ids
  PROVE  SeatsInv'
<1>1. RosterTypeOK'
  BY DEF SeatsInv, RosterTypeOK, RosterInv, Placed, Collection
<1>2. Usable'
  <2>1. roster' = roster
    OBVIOUS
  <2>2. ToSet(roster.custom) \subseteq Ids
    BY CoreFacts DEF SeatsInv, RosterTypeOK, ToSet
  <2>3. ASSUME Built, NEW p \in ToSet(roster.custom)
        PROVE  roster.core # <<>> /\ Exists(p)'
    <3>1. roster.core # <<>> /\ Exists(p)
      BY <2>3 DEF SeatsInv, Usable
    <3> QED
      BY <2>2, <2>3, <3>1 DEF Kept
  <2>4. Built => roster.core # <<>>
    BY DEF SeatsInv, Usable
  <2> QED
    BY <2>1, <2>3, <2>4 DEF Usable, Built
<1>3. Seating'
  <2>1. Nameable => Nameable'
    BY CoreFacts DEF Nameable, Kept
  <2>2. Meant' = Meant
    BY DEF Meant
  <2> QED
    BY <2>1, <2>2 DEF SeatsInv, Seating, ByName
<1> QED
  BY <1>1, <1>2, <1>3 DEF SeatsInv

LEMMA SeatsOfRequests ==
  ASSUME SeatsInv, RosterInv, RosterInv',
         \/ \E p \in Customs : Create(p)
         \/ \E p \in Ids, b \in BOOLEAN : SetActive(p, b)
         \/ \E r \in Readers : Seed(r)
  PROVE  SeatsInv'
<1>1. PICK newDocs : /\ Watch(newDocs)
                     /\ \A p \in Ids : Exists(p) => newDocs[p] # "absent"
                     /\ UNCHANGED <<config, builds, roster, first, listed, known>>
                     /\ at'["debate"] # "idle" => at["debate"] # "idle"
  <2>1. ASSUME NEW p \in Ids, NEW v \in {"active", "inactive"}
        PROVE  \A q \in Ids : Exists(q) => [docs EXCEPT ![p] = v][q] # "absent"
    BY <2>1 DEF RosterInv, Placed, Collection, Exists
  <2>2. CASE \E p \in Customs : Create(p)
    BY <2>1, <2>2, CoreFacts DEF Create, requestVars
  <2>3. CASE \E p \in Ids, b \in BOOLEAN : SetActive(p, b)
    <3>1. PICK p \in Ids, b \in BOOLEAN : SetActive(p, b)
      BY <2>3
    <3> DEFINE v == IF b THEN "active" ELSE "inactive"
    <3>2. v \in {"active", "inactive"}
      OBVIOUS
    <3>3. /\ Watch([docs EXCEPT ![p] = v])
          /\ UNCHANGED <<config, at, builds, roster, first, listed, known>>
      BY <3>1 DEF SetActive, requestVars
    <3> HIDE DEF v
    <3> QED
      BY <2>1, <3>2, <3>3
  <2>4. CASE \E r \in Readers : Seed(r)
    <3>1. PICK r \in Readers : Seed(r)
      BY <2>4
    <3>2. /\ Watch(Upserted(Core[seeded[r] + 1])) /\ at[r] = "seeding"
          /\ at' = [at EXCEPT ![r] = IF Seeded(seeded[r] + 1) THEN "reading" ELSE @]
          /\ UNCHANGED <<config, builds, roster, first, listed, known>>
      BY <3>1 DEF Seed
    <3>3. seeded[r] + 1 \in 1..Len(Core)
      BY CoreFacts DEF RosterInv, Placed
    <3>4. Core[seeded[r] + 1] \in Ids
      BY <3>3, CoreFacts
    <3>5. at'["debate"] # "idle" => at["debate"] # "idle"
      BY <3>2 DEF RosterInv, Placed, Readers
    <3> QED
      BY <3>2, <3>4, <3>5, UpsertFacts DEF Exists
  <2> QED
    BY <2>2, <2>3, <2>4
<1>2. Kept
  BY <1>1 DEF Watch, Kept, Exists
<1>3. steady' \subseteq Customs /\ seen' \subseteq Customs
  BY <1>1 DEF Watch, SeatsInv, RosterTypeOK
<1>4. listed' \subseteq Ids /\ known' \subseteq Ids
  BY <1>1 DEF SeatsInv, RosterTypeOK
<1> QED
  BY <1>1, <1>2, <1>3, <1>4, Unseated

LEMMA SeatsOfListing ==
  ASSUME SeatsInv, RosterInv, RosterInv', List \/ ReadList \/ ListFails
  PROVE  SeatsInv'
<1>1. /\ UNCHANGED <<docs, config, builds, roster, first, steady, seen>>
      /\ at'["debate"] = at["debate"]
  BY DEF List, ReadList, ListFails, historyVars, RosterInv, Placed, Readers
<1>2. listed' \subseteq Ids /\ known' \subseteq Ids
  BY DEF List, ReadList, ListFails, historyVars, SeatsInv, RosterTypeOK
<1>3. Kept
  BY <1>1 DEF Kept, Exists
<1>4. steady' \subseteq Customs /\ seen' \subseteq Customs
  BY <1>1 DEF SeatsInv, RosterTypeOK
<1> QED
  BY <1>1, <1>2, <1>3, <1>4, Unseated

LEMMA SeatsOfSelect ==
  ASSUME SeatsInv, RosterInv', Select
  PROVE  SeatsInv'
<1>1. /\ builds < MaxBuilds /\ ~Explicit(config.agent_roles) /\ Nameable
      /\ builds' = builds + 1 /\ roster' = NoRoster
      /\ steady' = ActiveCustoms /\ seen' = ActiveCustoms
      /\ UNCHANGED <<docs, config, first, listed, known>>
  BY DEF Select
<1>2. RosterTypeOK'
  <2>1. builds' \in 0..MaxBuilds
    BY <1>1, RosterAssumption DEF SeatsInv, RosterTypeOK
  <2>2. RosterTyped(NoRoster)
    BY DEF RosterTyped, NoRoster
  <2> QED
    BY <1>1, <2>1, <2>2
    DEF SeatsInv, RosterTypeOK, RosterInv, Placed, Collection, RosterTyped, ActiveCustoms
<1>3. Usable'
  BY <1>1 DEF Usable, Built, NoRoster
<1>4. Seating'
  <2>1. Nameable' /\ Meant' = Meant
    BY <1>1 DEF Nameable, Exists, Meant
  <2>2. roster'.by = "nobody"
    BY <1>1 DEF NoRoster
  <2> QED
    BY <1>1, <2>1, <2>2 DEF SeatsInv, Seating, ByName
<1> QED
  BY <1>2, <1>3, <1>4 DEF SeatsInv

LEMMA SeatsOfFallBack ==
  ASSUME SeatsInv, RosterInv, RosterInv', FallBack
  PROVE  SeatsInv'
<1>1. /\ at' = [at EXCEPT !["debate"] = "idle"]
      /\ roster' = [core |-> Core, custom |-> <<>>, by |-> "fallback"]
      /\ UNCHANGED <<docs, config, builds, first, steady, seen, known, listed>>
  BY DEF FallBack, historyVars
<1>2. RosterTypeOK'
  <2>1. RosterTyped(roster')
    BY <1>1, RosterAssumption DEF RosterTyped
  <2> QED
    BY <1>1, <2>1
    DEF SeatsInv, RosterTypeOK, RosterInv, Placed, Collection, RosterTyped
<1>3. Usable'
  <2>1. roster'.core = Core /\ ToSet(roster'.custom) = {}
    BY <1>1 DEF ToSet
  <2> QED
    BY <2>1, RosterAssumption DEF Usable
<1>4. Seating'
  <2>1. at'["debate"] = "idle"
    BY <1>1 DEF RosterInv, Placed, Readers
  <2>2. roster'.by = "fallback" /\ Meant' = Meant
    BY <1>1 DEF Meant
  <2> QED
    BY <1>1, <2>1, <2>2 DEF SeatsInv, Seating, ByName
<1> QED
  BY <1>2, <1>3, <1>4 DEF SeatsInv

LEMMA SeatsOfRoles ==
  ASSUME SeatsInv, RosterInv, RosterInv', BuildFromRoles
  PROVE  SeatsInv'
<1>1. /\ builds < MaxBuilds /\ at["debate"] = "idle"
      /\ Explicit(config.agent_roles) /\ builds' = builds + 1
      /\ roster' = IF ToSet(config.agent_roles) \subseteq Builtins
                   THEN Selected(Roles(config.agent_roles), <<>>)
                   ELSE NoRoster
      /\ first' = IF first = NoRoster THEN roster' ELSE first
      /\ UNCHANGED <<docs, config, at, seeded, steady, seen, known, listed>>
  BY DEF BuildFromRoles, requestVars, historyVars
<1>2. roster' \in {NoRoster, Meant} /\ Meant' = Meant
  BY <1>1 DEF Meant
<1>3. RosterTyped(roster') /\ (roster'.by # "nobody" => roster'.core # <<>>)
      /\ ToSet(roster'.custom) = {}
  <2>1. CASE ToSet(config.agent_roles) \subseteq Builtins
    <3>1. config.agent_roles \in Seq(ToSet(config.agent_roles))
      BY <1>1, ConfigFacts DEF SeatsInv
    <3>2. config.agent_roles \in Seq(Builtins)
      BY <2>1, <3>1
    <3>3. Roles(config.agent_roles) \in Seq(Builtins) /\ Roles(config.agent_roles) # <<>>
      BY <3>2, RolesSeat
    <3>4. /\ roster'.core = Roles(config.agent_roles) /\ roster'.custom = <<>>
          /\ roster'.by = "selection"
      BY <1>1, <2>1 DEF Selected
    <3> QED
      BY <3>3, <3>4 DEF RosterTyped, ToSet
  <2>2. CASE ~(ToSet(config.agent_roles) \subseteq Builtins)
    BY <1>1, <2>2 DEF RosterTyped, NoRoster, ToSet
  <2> QED
    BY <2>1, <2>2
<1>4. RosterTypeOK'
  <2>1. builds' \in 0..MaxBuilds
    BY <1>1, RosterAssumption DEF SeatsInv, RosterTypeOK
  <2>2. RosterTyped(first')
    BY <1>1, <1>3 DEF SeatsInv, RosterTypeOK, RosterTyped
  <2> QED
    BY <1>1, <1>3, <2>1, <2>2 DEF SeatsInv, RosterTypeOK, RosterTyped
<1>5. Usable'
  BY <1>3 DEF Usable, Built
<1>6. Seating'
  <2>1. first' \in {NoRoster, Meant}
    BY <1>1, <1>2 DEF SeatsInv, Seating, ByName
  <2>2. roster'.by = "selection" => roster' = Meant /\ first' = Meant
    BY <1>1, <1>2, <2>1 DEF NoRoster, SeatsInv, Seating, ByName
  <2> QED
    BY <1>1, <1>2, <2>1, <2>2 DEF Seating
<1> QED
  BY <1>4, <1>5, <1>6 DEF SeatsInv

LEMMA SeatsOfRead ==
  ASSUME SeatsInv, RosterInv, RosterInv', Read
  PROVE  SeatsInv'
<1> DEFINE ids == config.agent_ids
<1>1. /\ at["debate"] = "reading" /\ at' = [at EXCEPT !["debate"] = "idle"]
      /\ first' = IF first = NoRoster THEN roster' ELSE first
      /\ UNCHANGED <<docs, config, builds, steady, seen, known, listed>>
  BY DEF Read, historyVars
<1>2. Nameable /\ ~Explicit(config.agent_roles)
  BY <1>1 DEF SeatsInv, Seating
<1>3. Explicit(ids) => roster' = Meant
  <2> SUFFICES ASSUME Explicit(ids) PROVE roster' = Meant
    OBVIOUS
  <2>1. {p \in ToSet(ids) \cap Customs : Exists(p)} = ToSet(ids) \cap Customs
    BY <1>2 DEF Nameable
  <2>2. Seated(ids) = Only(ids, ToSet(ids) \cap Customs)
    BY <2>1 DEF Seated
  <2> QED
    BY <1>2, <2>2 DEF Read, Meant
<1>4. \E core \in Seq(Builtins), custom \in Seq(Customs) :
        /\ core # <<>> /\ \A p \in ToSet(custom) : Exists(p)
        /\ roster' = Selected(core, custom)
  <2>1. CASE Explicit(ids)
    <3> DEFINE S == {p \in ToSet(ids) \cap Customs : Exists(p)}
    <3>1. Len(ids) \in Nat
      BY <2>1, ConfigFacts DEF SeatsInv
    <3>2. Only(ids, Builtins) \in Seq(Builtins) /\ Only(ids, S) \in Seq(S)
      <4> HIDE DEF S, ids
      <4> QED
        BY <3>1, OnlyWanted
    <3>3. Only(ids, S) \in Seq(Customs) /\ \A p \in ToSet(Only(ids, S)) : Exists(p)
      BY <3>2 DEF ToSet
    <3>4. roster' = Selected(Roles(Only(ids, Builtins)), Only(ids, S))
      BY <2>1 DEF Read, Seated
    <3> HIDE DEF S, ids
    <3> QED
      BY <3>2, <3>3, <3>4, RolesSeat
  <2>2. CASE ~Explicit(ids)
    <3>1. PICK order \in SetToSeqs(ActiveCustoms) : roster' = Selected(Core, order)
      BY <2>2 DEF Read, Invited
    <3>2. IsFiniteSet(ActiveCustoms)
      BY FS_Subset, RosterAssumption DEF ActiveCustoms
    <3>3. ToSet(order) = ActiveCustoms
      BY <3>2, OrderIsComplete
    <3>4. order \in [1..Cardinality(ActiveCustoms) -> ActiveCustoms]
      BY DEF SetToSeqs
    <3>5. Cardinality(ActiveCustoms) \in Nat
      BY <3>2, FS_CardinalityType
    <3>6. order \in Seq(ActiveCustoms)
      BY <3>4, <3>5
    <3>7. order \in Seq(Customs)
      BY <3>6 DEF ActiveCustoms
    <3>8. \A p \in ToSet(order) : Exists(p)
      BY <3>3 DEF ActiveCustoms, Exists
    <3> QED
      BY <3>1, <3>7, <3>8, RosterAssumption
  <2> QED
    BY <2>1, <2>2
<1>5. /\ RosterTyped(roster') /\ roster'.core # <<>> /\ roster'.by = "selection"
      /\ \A p \in ToSet(roster'.custom) : Exists(p)
  BY <1>4 DEF RosterTyped, Selected
<1>6. RosterTypeOK'
  <2>1. RosterTyped(first')
    BY <1>1, <1>5 DEF SeatsInv, RosterTypeOK, RosterTyped
  <2> QED
    BY <1>1, <1>5, <2>1
    DEF SeatsInv, RosterTypeOK, RosterInv, Placed, Collection, RosterTyped
<1>7. Usable'
  BY <1>1, <1>5 DEF Usable, Exists
<1>8. Seating'
  <2>1. at'["debate"] = "idle" /\ Meant' = Meant
    BY <1>1 DEF RosterInv, Placed, Readers, Meant
  <2>2. Explicit(ids) => first' = Meant
    BY <1>1, <1>3 DEF SeatsInv, Seating, ByName
  <2> QED
    BY <1>1, <1>2, <1>3, <2>1, <2>2 DEF Seating, ByName
<1> QED
  BY <1>6, <1>7, <1>8 DEF SeatsInv

LEMMA SeatsInvInit == RosterInit => SeatsInv
<1> SUFFICES ASSUME RosterInit PROVE SeatsInv
  OBVIOUS
<1>1. RosterTyped(NoRoster) /\ NoRoster.by = "nobody"
  BY DEF RosterTyped, NoRoster
<1>2. RosterTypeOK
  BY <1>1, CoreFacts, RosterAssumption DEF RosterInit, RosterTypeOK, RosterTyped
<1>3. Usable
  BY <1>1 DEF RosterInit, Usable, Built
<1>4. Seating
  BY <1>1 DEF RosterInit, Seating, Readers
<1> QED
  BY <1>2, <1>3, <1>4 DEF SeatsInv

LEMMA SeatsInvNext ==
  ASSUME RosterInv, RosterInv', SeatsInv, [RosterNext]_rosterVars
  PROVE  SeatsInv'
<1>1. CASE \/ \E p \in Customs : Create(p)
           \/ \E p \in Ids, b \in BOOLEAN : SetActive(p, b)
           \/ \E r \in Readers : Seed(r)
  BY <1>1, SeatsOfRequests
<1>2. CASE List \/ ReadList \/ ListFails
  BY <1>2, SeatsOfListing
<1>3. CASE BuildFromRoles
  BY <1>3, SeatsOfRoles
<1>4. CASE Select
  BY <1>4, SeatsOfSelect
<1>5. CASE Read
  BY <1>5, SeatsOfRead
<1>6. CASE FallBack
  BY <1>6, SeatsOfFallBack
<1>7. CASE UNCHANGED rosterVars
  <2>1. /\ UNCHANGED <<docs, config, builds, roster, first, steady, seen, listed, known>>
        /\ at' = at
    BY <1>7 DEF rosterVars
  <2>2. Kept
    BY <2>1 DEF Kept, Exists
  <2>3. /\ steady' \subseteq Customs /\ seen' \subseteq Customs
        /\ listed' \subseteq Ids /\ known' \subseteq Ids
    BY <2>1 DEF SeatsInv, RosterTypeOK
  <2> QED
    BY <2>1, <2>2, <2>3, Unseated
<1> QED
  BY <1>1, <1>2, <1>3, <1>4, <1>5, <1>6, <1>7 DEF RosterNext

LEMMA SeatsInvHolds == RosterSpec => []SeatsInv
<1>1. RosterInv /\ RosterInv' /\ SeatsInv /\ [RosterNext]_rosterVars => SeatsInv'
  BY SeatsInvNext
<1> QED
  BY <1>1, SeatsInvInit, RosterHolds, PTL DEF RosterSpec

\* A debate that was built has agents, and each custom one a persona.
THEOREM RosterUsableHolds == RosterSpec => []RosterUsable
<1>1. SeatsInv => RosterUsable
  <2> SUFFICES ASSUME SeatsInv, Built
               PROVE  roster.core \o roster.custom # <<>>
    BY DEF SeatsInv, Usable, RosterUsable
  <2>1. /\ roster.core \in Seq(Builtins) /\ roster.core # <<>>
        /\ roster.custom \in Seq(Customs)
    BY DEF SeatsInv, RosterTypeOK, Usable
  <2>2. Len(roster.core) > 0
    BY <2>1
  <2>3. Len(roster.core \o roster.custom) = Len(roster.core) + Len(roster.custom)
    BY <2>1
  <2> QED
    BY <2>1, <2>2, <2>3
<1> QED
  BY <1>1, SeatsInvHolds, PTL

\* A debate that names its agents keeps them in every execution.
THEOREM NamedAgentsStayHolds == RosterSpec => []NamedAgentsStay
<1>1. SeatsInv => NamedAgentsStay
  BY DEF SeatsInv, Seating, NamedAgentsStay, ByName
<1> QED
  BY <1>1, SeatsInvHolds, PTL

-----------------------------------------------------------------------------
(* BudgetManager: the plans.                                                *)

\* A sum of summands that are x in C and y elsewhere.
LEMMA SumOfTwo ==
  ASSUME NEW S, IsFiniteSet(S), NEW C \in SUBSET S, NEW x \in Int, NEW y \in Int,
         NEW f, \A a \in S : f[a] = IF a \in C THEN x ELSE y
  PROVE  SumFunctionOnSet(f, S) = x * Cardinality(C) + y * (Cardinality(S) - Cardinality(C))
<1> DEFINE F(T) == SumFunctionOnSet(f, T)
           In(T) == Cardinality(T \cap C)
           Out(T) == Cardinality(T \ C)
           Good == {T \in SUBSET S : F(T) = x * In(T) + y * Out(T)}
<1>0. \A T \in SUBSET S : /\ IsFiniteSet(T) /\ IsFiniteSet(T \cap C) /\ IsFiniteSet(T \ C)
                          /\ In(T) \in Nat /\ Out(T) \in Nat
  BY FS_Subset, FS_CardinalityType
<1>1. ASSUME NEW T \in SUBSET S, \A a \in T : T \ {a} \in Good PROVE T \in Good
  <2>1. CASE T = {}
    <3>1. F(T) = 0 /\ In(T) = 0 /\ Out(T) = 0
      <4>1. T \cap C = {} /\ T \ C = {}
        BY <2>1
      <4> QED
        BY <2>1, <4>1, SumOfNone, FS_EmptySet
    <3> QED
      BY <3>1
  <2>2. CASE T # {}
    <3>1. PICK a \in T : TRUE
      BY <2>2
    <3> DEFINE U == T \ {a}
    <3>2. F(T) = f[a] + F(U)
      <4>1. IsFiniteSet(T) /\ \A b \in T : f[b] \in Int
        BY <1>0
      <4> QED
        BY <4>1, SumSplits
    <3>3. F(U) = x * In(U) + y * Out(U)
      BY <1>1
    <3>4. In(U) \in Nat /\ Out(U) \in Nat
      BY <1>0
    <3>5. CASE a \in C
      <4>1. T \ C = U \ C /\ U \cap C = (T \cap C) \ {a} /\ a \in T \cap C
        BY <3>5
      <4>2. Out(T) = Out(U)
        BY <4>1
      <4>3. In(T) = In(U) + 1
        <5>1. Cardinality((T \cap C) \ {a}) = Cardinality(T \cap C) - 1 /\ In(T) \in Nat
          BY <1>0, <4>1, FS_RemoveElement
        <5>2. In(U) = Cardinality((T \cap C) \ {a})
          BY <4>1
        <5> QED
          BY <5>1, <5>2
      <4>4. f[a] = x
        BY <3>5
      <4>5. x * (In(U) + 1) = x * In(U) + x /\ x * In(U) \in Int /\ y * Out(U) \in Int
        BY <3>4
      <4> HIDE DEF F, In, Out, U
      <4>6. F(T) = x * In(T) + y * Out(T)
        BY <3>2, <3>3, <4>2, <4>3, <4>4, <4>5
      <4> QED
        BY <4>6
    <3>6. CASE a \notin C
      <4>1. T \cap C = U \cap C /\ U \ C = (T \ C) \ {a} /\ a \in T \ C
        BY <3>6
      <4>2. In(T) = In(U)
        BY <4>1
      <4>3. Out(T) = Out(U) + 1
        <5>1. Cardinality((T \ C) \ {a}) = Cardinality(T \ C) - 1 /\ Out(T) \in Nat
          BY <1>0, <4>1, FS_RemoveElement
        <5>2. Out(U) = Cardinality((T \ C) \ {a})
          BY <4>1
        <5> QED
          BY <5>1, <5>2
      <4>4. f[a] = y
        BY <3>6
      <4>5. y * (Out(U) + 1) = y * Out(U) + y /\ x * In(U) \in Int /\ y * Out(U) \in Int
        BY <3>4
      <4> HIDE DEF F, In, Out, U
      <4>6. F(T) = x * In(T) + y * Out(T)
        BY <3>2, <3>3, <4>2, <4>3, <4>4, <4>5
      <4> QED
        BY <4>6
    <3> QED
      BY <3>5, <3>6
  <2> QED
    BY <2>1, <2>2
<1>2. SUBSET S \subseteq Good
  <2> HIDE DEF Good
  <2> QED
    BY <1>1, SubsetInduction
<1>3. F(S) = x * In(S) + y * Out(S)
  BY <1>2
<1>4. S \cap C = C /\ Cardinality(S \ C) = Cardinality(S) - Cardinality(C)
  <2>1. S \cap C = C
    OBVIOUS
  <2> QED
    BY <2>1, FS_Difference
<1> QED
  BY <1>3, <1>4
-----------------------------------------------------------------------------
(* The plan of a round.                                                     *)

LEMMA AgentsCount == NumAgents \in Nat \ {0}
BY ConstantsAssumption, FS_CardinalityType, FS_EmptySet DEF NumAgents

LEMMA PoolFacts == /\ reserve_pool \in Nat /\ spendable_budget \in Nat
                   /\ spendable_budget + reserve_pool = Total
BY ConstantsAssumption DEF reserve_pool, spendable_budget

LEMMA RoundBudget ==
  ASSUME TypeOK, Viable
  PROVE  /\ round_budget \in Int /\ remaining_budget \in Int
         /\ MinViable * NumAgents <= round_budget
         /\ round_budget <= remaining_budget
<1> DEFINE n == NumAgents
           r == remaining_rounds
           b == baseline_per_agent
<1>1. n \in Nat \ {0} /\ MinViable \in Nat \ {0} /\ remaining_budget \in Int
  BY AgentsCount, PoolFacts, ConstantsAssumption DEF TypeOK, remaining_budget
<1>2. r \in Nat \ {0}
  BY ConstantsAssumption DEF remaining_rounds, AtLeast, TypeOK
<1>3. n * r \in Nat \ {0}
  <2> HIDE DEF n, r
  <2> QED
    BY <1>1, <1>2
<1>4. b \in Int
  <2> HIDE DEF n, r
  <2>1. remaining_budget \div (n * r) \in Int
    BY <1>1, <1>3
  <2> QED
    BY <1>1, <2>1 DEF baseline_per_agent, AtLeast, n, r
<1>5. b * n \in Int /\ MinViable * n \in Int
  <2> HIDE DEF b, n
  <2> QED
    BY <1>1, <1>4
<1>6. round_budget = AtMost(AtLeast(b * n, MinViable * n), remaining_budget)
  BY DEF round_budget, floor_total
<1>7. MinViable * n <= remaining_budget
  BY DEF Viable, floor_total
<1> HIDE DEF b, n
<1>8. /\ round_budget \in Int /\ MinViable * n <= round_budget
      /\ round_budget <= remaining_budget
  BY <1>1, <1>5, <1>6, <1>7 DEF AtMost, AtLeast
<1> QED
  BY <1>1, <1>8 DEF n

\* What a plan must satisfy, whatever the mode.
Sound(s, C, budget) ==
  /\ s \in [Agents -> Nat]
  /\ SumFunctionOnSet(s, Agents) <= budget
  /\ \A a \in Agents : s[a] >= MinViable
  /\ \A a \in C, b \in Agents \ C : s[a] >= s[b]

\* A plan of two shares is sound if they are viable and not too much together.
LEMMA TwoShares ==
  ASSUME NEW C \in SUBSET Agents, NEW x \in Nat, NEW y \in Nat, NEW budget \in Int,
         MinViable <= y, y <= x,
         x * Cardinality(C) + y * (NumAgents - Cardinality(C)) <= budget
  PROVE  Sound([a \in Agents |-> IF a \in C THEN x ELSE y], C, budget)
<1> DEFINE s == [a \in Agents |-> IF a \in C THEN x ELSE y]
<1>1. \A a \in Agents : s[a] = IF a \in C THEN x ELSE y
  OBVIOUS
<1>2. SumFunctionOnSet(s, Agents) = x * Cardinality(C) + y * (NumAgents - Cardinality(C))
  <2> HIDE DEF s
  <2> QED
    BY <1>1, SumOfTwo, ConstantsAssumption DEF NumAgents
<1>3. s \in [Agents -> Nat]
  OBVIOUS
<1>4. \A a \in Agents : s[a] >= MinViable
  BY ConstantsAssumption
<1> QED
  BY <1>1, <1>2, <1>3, <1>4 DEF Sound

LEMMA Contested ==
  ASSUME NEW C \in SUBSET Agents
  PROVE  /\ Cardinality(C) \in Nat /\ Cardinality(C) <= NumAgents
         /\ C # {} => Cardinality(C) > 0
BY ConstantsAssumption, FS_Subset, FS_CardinalityType, FS_EmptySet DEF NumAgents

LEMMA EvenPlan ==
  ASSUME TypeOK, Viable
  PROVE  Sound(EvenShare, {}, remaining_budget)
<1> DEFINE n == NumAgents
           q == round_budget \div n
<1>1. n \in Nat \ {0} /\ round_budget \in Int /\ MinViable \in Nat \ {0}
      /\ remaining_budget \in Int /\ MinViable * n <= round_budget
      /\ round_budget <= remaining_budget
  BY AgentsCount, RoundBudget, ConstantsAssumption
<1>2. q \in Int /\ n * q <= round_budget /\ MinViable <= q
  <2> HIDE DEF n
  <2> QED
    BY <1>1, Quotient, QuotientFloor
<1>3. q \in Nat /\ q * 0 + q * (n - 0) <= remaining_budget
  <2> HIDE DEF n, q
  <2>1. q * 0 = 0 /\ q * (n - 0) = n * q
    BY <1>1, <1>2
  <2>2. n * q \in Int
    BY <1>1, <1>2
  <2> QED
    BY <1>1, <1>2, <2>1, <2>2
<1>4. Sound([a \in Agents |-> IF a \in {} THEN q ELSE q], {}, remaining_budget)
  <2>1. Cardinality({}) = 0
    BY FS_EmptySet
  <2>2. q * Cardinality({}) + q * (NumAgents - Cardinality({})) <= remaining_budget
    BY <1>3, <2>1
  <2> HIDE DEF q
  <2> QED
    BY <1>1, <1>2, <1>3, <2>2, TwoShares
<1>5. EvenShare = [a \in Agents |-> IF a \in {} THEN q ELSE q]
  BY DEF EvenShare
<1> QED
  BY <1>4, <1>5

LEMMA FloorPlan ==
  ASSUME TypeOK, Viable, NEW C \in SUBSET Agents, C # {}
  PROVE  Sound(FloorShare(C), C, remaining_budget)
<1> DEFINE n == NumAgents
           k == Cardinality(C)
           m == MinViable
           rest == Beyond(round_budget, floor_total)
           bonus == rest \div k
<1>1. /\ n \in Nat \ {0} /\ round_budget \in Int /\ m \in Nat \ {0}
      /\ remaining_budget \in Int /\ m * n <= round_budget
      /\ round_budget <= remaining_budget /\ k \in Nat \ {0} /\ k <= n
  BY AgentsCount, RoundBudget, ConstantsAssumption, Contested
<1>2. rest = round_budget - m * n /\ rest \in Nat
  <2>1. m * n \in Int
    <3> HIDE DEF m, n
    <3> QED
      BY <1>1
  <2> QED
    BY <1>1, <2>1 DEF Beyond, AtLeast, floor_total
<1>3. bonus \in Nat /\ k * bonus <= rest
  <2> HIDE DEF k, rest
  <2>1. bonus \in Int /\ k * bonus <= rest
    BY <1>1, <1>2, Quotient
  <2>2. 0 <= bonus
    BY <1>1, <1>2, QuotientFloor
  <2> QED
    BY <2>1, <2>2
<1>4. (m + bonus) * k + m * (n - k) <= remaining_budget
  <2> HIDE DEF m, n, k, rest, bonus
  <2>1. (m + bonus) * k + m * (n - k) = m * n + k * bonus
    BY <1>1, <1>3
  <2>2. m * n \in Int /\ k * bonus \in Int
    BY <1>1, <1>3
  <2> QED
    BY <1>1, <1>2, <1>3, <2>1, <2>2
<1>5. Sound([a \in Agents |-> IF a \in C THEN m + bonus ELSE m], C, remaining_budget)
  <2> HIDE DEF bonus
  <2> QED
    BY <1>1, <1>3, <1>4, TwoShares
<1> QED
  BY <1>5 DEF FloorShare

LEMMA BaseShareTyped ==
  ASSUME TypeOK, Viable, NEW C \in SUBSET Agents
  PROVE  BaseShare(C) \in Int
<1> DEFINE d == 5 * Cardinality(C) + 2 * (NumAgents - Cardinality(C))
<1>1. d \in Nat \ {0}
  BY AgentsCount, Contested
<1>2. 2 * round_budget \in Int
  BY RoundBudget
<1>3. (2 * round_budget) \div d \in Int
  <2> HIDE DEF d
  <2> QED
    BY <1>1, <1>2
<1> QED
  BY <1>3 DEF BaseShare

LEMMA WeightedPlan ==
  ASSUME TypeOK, Viable, NEW C \in SUBSET Agents, BaseShare(C) >= MinViable
  PROVE  Sound(WeightedShare(C), C, remaining_budget)
<1> DEFINE n == NumAgents
           k == Cardinality(C)
           b == BaseShare(C)
           x == (5 * b) \div 2
           d == 5 * k + 2 * (n - k)
<1>1. /\ n \in Nat \ {0} /\ round_budget \in Int /\ MinViable \in Nat \ {0}
      /\ remaining_budget \in Int
      /\ round_budget <= remaining_budget /\ k \in Nat /\ k <= n
  BY AgentsCount, RoundBudget, ConstantsAssumption, Contested
<1>2. d \in Nat \ {0}
  <2> HIDE DEF n, k
  <2> QED
    BY <1>1
<1>3. b \in Int /\ d * b <= 2 * round_budget
  <2>1. b = (2 * round_budget) \div d
    BY DEF BaseShare
  <2> HIDE DEF d, b
  <2> QED
    BY <1>1, <1>2, <2>1, Quotient
<1>4. b \in Nat /\ x \in Nat /\ b <= x /\ 2 * x <= 5 * b
  <2>1. b >= MinViable
    OBVIOUS
  <2> HIDE DEF b
  <2> QED
    BY <1>1, <1>3, <2>1
<1>5. x * k + b * (n - k) <= remaining_budget
  <2> HIDE DEF b, x, n, k
  <2>1. (2 * x) * k <= (5 * b) * k
    BY <1>1, <1>4
  <2>2. 2 * (x * k + b * (n - k)) = (2 * x) * k + 2 * (b * (n - k))
    BY <1>1, <1>4
  <2>3. d * b = (5 * b) * k + 2 * (b * (n - k))
    BY <1>1, <1>4
  <2>4. x * k + b * (n - k) \in Int /\ (2 * x) * k \in Int /\ (5 * b) * k \in Int
        /\ b * (n - k) \in Int
    BY <1>1, <1>4
  <2> HIDE DEF d
  <2> QED
    BY <1>1, <1>3, <2>1, <2>2, <2>3, <2>4
<1>6. Sound([a \in Agents |-> IF a \in C THEN x ELSE b], C, remaining_budget)
  <2> HIDE DEF x, b
  <2>1. MinViable <= b
    BY <1>1, <1>4 DEF b
  <2> QED
    BY <1>1, <1>4, <1>5, <2>1, TwoShares
<1> QED
  BY <1>6 DEF WeightedShare

\* Every mode makes a sound plan ("still respects the recomputed per-round baseline").
LEMMA PlanSound ==
  ASSUME TypeOK, Viable, NEW C \in SUBSET Agents
  PROVE  Sound(IF C = {} THEN EvenShare ELSE ExploitShare(C), C, remaining_budget)
<1>1. CASE C = {}
  BY <1>1, EvenPlan
<1>2. CASE C # {} /\ BaseShare(C) < MinViable
  BY <1>2, FloorPlan DEF ExploitShare
<1>3. CASE C # {} /\ ~(BaseShare(C) < MinViable)
  <2>1. BaseShare(C) \in Int
    BY BaseShareTyped
  <2>2. BaseShare(C) >= MinViable
    BY <1>3, <2>1, ConstantsAssumption
  <2> QED
    BY <1>3, <2>2, WeightedPlan DEF ExploitShare
<1> QED
  BY <1>1, <1>2, <1>3
-----------------------------------------------------------------------------
(* The rounds.                                                              *)

\* What is used keeps within the spendable budget, but for the excess; the trackers start
\* from what was saved; no reserve is drawn before the end, and only a gate that has its
\* execution's whole budget in sight serves a plan.
ManagerInv ==
  /\ PlanIsSound
  /\ roundsAllocated <= (IF phase = "asking" THEN round ELSE round - 1)
  /\ phase = "asking" => round <= NumRounds /\ Total - gate = used
  /\ saved <= used /\ used <= spendable_budget + excess
  /\ phase \in {"between", "asking", "final", "refused"} => reserveUsed = 0 /\ untracked = 0
  /\ ~store.wired \/ resumes = 0 => strays = 0
  /\ TrackersExplainGate

LEMMA PlannedTyped == TypeOK => Planned \in Int /\ Planned >= 0
<1> SUFFICES ASSUME TypeOK PROVE Planned \in Int /\ Planned >= 0
  OBVIOUS
<1> DEFINE none == [a \in waiting |-> 0]
<1>1. IsFiniteSet(waiting) /\ \A a \in waiting : share[a] \in Int /\ none[a] \in Int /\ none[a] <= share[a]
  BY ConstantsAssumption, FS_Subset DEF TypeOK
<1>2. \A a \in waiting : none[a] = 0
  OBVIOUS
<1>3. SumFunctionOnSet(none, waiting) <= SumFunctionOnSet(share, waiting)
  <2> HIDE DEF none
  <2> QED
    BY <1>1, SumMonotone
<1>4. SumFunctionOnSet(none, waiting) = 0
  <2> HIDE DEF none
  <2> QED
    BY <1>1, <1>2, SumOfZeros
<1>5. SumFunctionOnSet(share, waiting) \in Int
  BY <1>1, SumTyped
<1> QED
  BY <1>3, <1>4, <1>5 DEF Planned

LEMMA UsagesTyped == \A x \in Int : \A u \in Usages(x) : u \in Nat
BY ConstantsAssumption DEF Usages, AtLeast

LEMMA DebitedTyped ==
  ASSUME TypeOK, NEW n \in Int
  PROVE  /\ Debited(n) \in [wired: BOOLEAN, left: Int]
         /\ Debited(n).wired = store.wired
         /\ store.wired => Debited(n).left = store.left - n
         /\ ~store.wired => Debited(n) = store
BY DEF TypeOK, Debited

\* The invariant, conjunct by conjunct.
LEMMA ManagerFacts ==
  ASSUME ManagerInv
  PROVE  /\ TypeOK /\ NobodyStarves /\ ContestedFirst /\ TrackersExplainGate
         /\ phase = "asking" => /\ round <= NumRounds /\ Total - gate = used
                                /\ used + Planned <= spendable_budget + excess
         /\ roundsAllocated <= (IF phase = "asking" THEN round ELSE round - 1)
         /\ saved <= used /\ used <= spendable_budget + excess
         /\ phase \in {"between", "asking", "final", "refused"} => reserveUsed = 0 /\ untracked = 0
         /\ ~store.wired \/ resumes = 0 => strays = 0
BY DEF ManagerInv, PlanIsSound, PlanIsFunded

\* Steps that move no token.
LEMMA AccountsKept ==
  ASSUME ManagerInv,
         UNCHANGED <<used, reserveUsed, gate, store, excess, untracked, strays, resumes>>,
         phase # "refused", phase = "down" => phase' = "down"
  PROVE  /\ TrackersExplainGate'
         /\ ~store'.wired \/ resumes' = 0 => strays' = 0
         /\ used' <= spendable_budget' + excess'
BY ManagerFacts DEF TrackersExplainGate, spendable_budget, reserve_pool

LEMMA ManagerInvInit == Init => ManagerInv
<1> SUFFICES ASSUME Init PROVE ManagerInv
  OBVIOUS
<1>1. TypeOK
  BY ConstantsAssumption, PoolFacts DEF Init, TypeOK
<1>2. PlanIsSound
  BY <1>1 DEF Init, PlanIsSound, PlanIsFunded, NobodyStarves, ContestedFirst
<1>3. TrackersExplainGate
  BY PoolFacts, ConstantsAssumption DEF Init, TrackersExplainGate
<1> QED
  BY <1>2, <1>3, PoolFacts, ConstantsAssumption DEF Init, ManagerInv

LEMMA AllocateSound ==
  ASSUME ManagerInv, NEW C \in SUBSET Agents, Allocate(C)
  PROVE  ManagerInv'
<1>1. TypeOK
  BY ManagerFacts
<1>2. Sound(share', C, remaining_budget)
  BY <1>1, PlanSound DEF Allocate
<1>3. TypeOK'
  BY <1>1, <1>2, ManagerFacts, ConstantsAssumption DEF Allocate, TypeOK, Sound, reserve_pool
<1>4. Planned' <= remaining_budget
  BY <1>2 DEF Allocate, Planned, Sound
<1>5. Planned' \in Int
  <2>1. (TypeOK => Planned \in Int /\ Planned >= 0)'
    BY PlannedTyped, PTL
  <2> QED
    BY <1>3, <2>1
<1>6. PlanIsFunded'
  BY <1>1, <1>4, <1>5, PoolFacts DEF PlanIsFunded, Allocate, remaining_budget, TypeOK, spendable_budget, reserve_pool
<1>7. NobodyStarves' /\ ContestedFirst'
  BY <1>2 DEF Sound, NobodyStarves, ContestedFirst, Allocate
<1>8. /\ TrackersExplainGate' /\ (~store'.wired \/ resumes' = 0 => strays' = 0)
      /\ used' <= spendable_budget' + excess'
  BY AccountsKept DEF Allocate
<1>9. Total - gate = used
  <2>1. floor_total >= 1
    BY AgentsCount, ConstantsAssumption DEF floor_total
  <2>2. used < Total
    BY <1>1, <2>1, AgentsCount, PoolFacts, ConstantsAssumption
    DEF Allocate, Viable, remaining_budget, TypeOK, floor_total
  <2>3. phase = "between" /\ reserveUsed = 0 /\ untracked = 0
    BY ManagerFacts DEF Allocate
  <2> QED
    BY <1>1, <2>2, <2>3, ManagerFacts, ConstantsAssumption DEF TrackersExplainGate, TypeOK
<1>10. roundsAllocated' <= round' /\ round' <= NumRounds
  BY <1>1, ManagerFacts, ConstantsAssumption DEF Allocate, TypeOK
<1>11. /\ phase' = "asking" /\ saved' <= used' /\ reserveUsed' = 0 /\ untracked' = 0
       /\ Total - gate' = used'
  BY <1>9, ManagerFacts DEF Allocate
<1> QED
  BY <1>3, <1>6, <1>7, <1>8, <1>10, <1>11 DEF ManagerInv, PlanIsSound

LEMMA AskSound ==
  ASSUME ManagerInv, NEW a \in Agents, NEW u \in Usages(share[a]), Ask(a, u)
  PROVE  ManagerInv'
<1>1. TypeOK /\ share[a] \in Nat
  BY ManagerFacts DEF TypeOK
<1>2. u \in Nat
  BY <1>1, UsagesTyped
<1>b. /\ store' \in [wired: BOOLEAN, left: Int] /\ store'.wired = store.wired
      /\ store.wired => store'.left = store.left - u
  BY <1>1, <1>2, DebitedTyped DEF Ask
<1>3. TypeOK'
  BY <1>1, <1>2, <1>b DEF Ask, TypeOK, Used, Beyond, AtLeast, plan, reserve_pool
<1>4. Planned' = Planned - share[a] /\ Planned \in Int
  <2>1. IsFiniteSet(waiting) /\ \A b \in waiting : share[b] \in Int
    BY <1>1, ConstantsAssumption, FS_Subset DEF TypeOK
  <2>2. Planned = share[a] + SumFunctionOnSet(share, waiting \ {a})
    BY <2>1, SumSplits DEF Ask, Planned
  <2>3. Planned' = SumFunctionOnSet(share, waiting \ {a})
    BY DEF Ask, Planned, plan
  <2>4. Planned' \in Int
    <3>1. (TypeOK => Planned \in Int /\ Planned >= 0)'
      BY PlannedTyped, PTL
    <3> QED
      BY <1>3, <3>1
  <2> QED
    BY <1>1, <2>2, <2>3, <2>4
<1>5. Planned' >= 0
  <2>1. (TypeOK => Planned \in Int /\ Planned >= 0)'
    BY PlannedTyped, PTL
  <2> QED
    BY <1>3, <2>1
<1>6. used + Planned <= spendable_budget + excess
  BY ManagerFacts DEF Ask
<1>7. used' + Planned' <= spendable_budget + excess'
  BY <1>1, <1>2, <1>4, <1>6, PoolFacts DEF Ask, Used, Beyond, AtLeast, TypeOK
<1>8. spendable_budget' = spendable_budget /\ reserve_pool' = reserve_pool
  BY DEF spendable_budget, reserve_pool
<1>9. NobodyStarves' /\ ContestedFirst'
  BY ManagerFacts DEF NobodyStarves, ContestedFirst, Ask, plan
<1>10. /\ Total - gate' = used' /\ reserveUsed' = 0 /\ untracked' = 0 /\ saved' <= used'
       /\ used' = used + u /\ strays' = strays /\ resumes' = resumes
       /\ phase' = "asking" /\ phase = "asking" /\ round' = round
  BY <1>1, <1>2, ManagerFacts, ConstantsAssumption DEF Ask, Used, TypeOK
<1>11. used' <= spendable_budget + excess'
  <2>1. excess' \in Nat /\ used' \in Nat
    BY <1>3 DEF TypeOK
  <2>2. Planned' \in Int
    BY <1>1, <1>4
  <2>3. spendable_budget \in Nat
    BY PoolFacts
  <2>4. PICK now \in Int, later \in Int, over \in Int :
                now = used' /\ later = Planned' /\ over = excess'
    BY <2>1, <2>2
  <2>5. now + later <= spendable_budget + over /\ later >= 0
    BY <1>5, <1>7, <2>4
  <2>6. now <= spendable_budget + over
    BY <2>3, <2>5
  <2> QED
    BY <2>4, <2>6
<1>12. TrackersExplainGate'
  <2>1. store.wired => Total - store.left = used + strays
    BY <1>1, <1>10, ManagerFacts DEF TrackersExplainGate, TypeOK
  <2>2. store'.wired => Total - store'.left = used' + reserveUsed' + untracked' + strays'
    BY <1>1, <1>2, <1>b, <1>10, <2>1, ConstantsAssumption DEF TypeOK
  <2>3. Total - gate' = used' + reserveUsed' + untracked'
    BY <1>3, <1>10 DEF TypeOK
  <2> QED
    BY <1>10, <2>2, <2>3 DEF TrackersExplainGate
<1>13. roundsAllocated' <= round' /\ round' <= NumRounds
  BY <1>10, ManagerFacts DEF Ask
<1>14. ~store'.wired \/ resumes' = 0 => strays' = 0
  BY <1>b, <1>10, ManagerFacts
<1> QED
  BY <1>3, <1>7, <1>8, <1>9, <1>10, <1>11, <1>12, <1>13, <1>14
  DEF ManagerInv, PlanIsSound, PlanIsFunded

\* The steps that make no plan and ask nobody.
LEMMA RefuseSound ==
  ASSUME ManagerInv, NEW a \in Agents, RefuseAsk(a)
  PROVE  ManagerInv'
<1>1. TypeOK
  BY ManagerFacts
<1>2. TypeOK'
  BY <1>1 DEF RefuseAsk, TypeOK, plan, reserve_pool
<1>3. Planned' = 0
  BY SumOfNone DEF RefuseAsk, Planned
<1>4. PlanIsFunded'
  BY <1>1, <1>3, ManagerFacts, PoolFacts DEF RefuseAsk, PlanIsFunded, spendable_budget,
     reserve_pool, TypeOK
<1>5. NobodyStarves' /\ ContestedFirst'
  BY ManagerFacts DEF NobodyStarves, ContestedFirst, RefuseAsk, plan
<1>6. /\ TrackersExplainGate' /\ (~store'.wired \/ resumes' = 0 => strays' = 0)
      /\ used' <= spendable_budget' + excess'
  BY AccountsKept DEF RefuseAsk
<1> QED
  BY <1>2, <1>4, <1>5, <1>6, ManagerFacts DEF ManagerInv, PlanIsSound, RefuseAsk

LEMMA EndRoundSound ==
  ASSUME ManagerInv, EndRound
  PROVE  ManagerInv'
<1>1. TypeOK
  BY ManagerFacts
<1>2. phase' \in {"between", "final"} /\ round' = round + 1 /\ round <= NumRounds
  BY ManagerFacts DEF EndRound
<1>3. TypeOK'
  BY <1>1, <1>2, ConstantsAssumption DEF EndRound, TypeOK, plan, reserve_pool
<1>4. PlanIsFunded' /\ NobodyStarves' /\ ContestedFirst'
  BY <1>2 DEF PlanIsFunded, NobodyStarves, ContestedFirst
<1>5. /\ TrackersExplainGate' /\ (~store'.wired \/ resumes' = 0 => strays' = 0)
      /\ used' <= spendable_budget' + excess'
  BY AccountsKept DEF EndRound
<1>6. roundsAllocated' <= round' - 1
  BY <1>1, <1>2, ManagerFacts, ConstantsAssumption DEF EndRound, TypeOK
<1>7. saved' <= used' /\ reserveUsed' = 0 /\ untracked' = 0
  BY <1>1, ManagerFacts DEF EndRound, TypeOK
<1> QED
  BY <1>2, <1>3, <1>4, <1>5, <1>6, <1>7 DEF ManagerInv, PlanIsSound

\* The three outcomes of a tie-breaker's call.
LEMMA TieBreakSound ==
  ASSUME ManagerInv, NEW u \in Usages(remaining_reserve),
         TieBreak(u) \/ TieBreakOverrun(u) \/ TieBreakFails(u)
  PROVE  ManagerInv'
<1>1. TypeOK /\ TieBreakerCalled(u) /\ phase = "final" /\ reserveUsed = 0 /\ untracked = 0
  BY ManagerFacts DEF TieBreak, TieBreakOverrun, TieBreakFails, TieBreakerCalled
<1>2. remaining_reserve = reserve_pool /\ reserve_pool \in Nat
  BY <1>1, PoolFacts DEF remaining_reserve
<1>3. u \in Nat
  BY <1>2, UsagesTyped
<1>4. \/ phase' = "resolved" /\ reserveUsed' = u /\ untracked' = 0 /\ u <= reserve_pool
      \/ phase' = "resolved" /\ reserveUsed' = 0 /\ untracked' = u /\ u > reserve_pool
      \/ phase' = "down" /\ reserveUsed' = 0 /\ untracked' = u
  BY <1>1, <1>2, <1>3 DEF TieBreak, TieBreakOverrun, TieBreakFails, ReserveCovers
<1>5. /\ gate' = gate - u /\ used' = used /\ strays' = strays /\ resumes' = resumes
      /\ saved' = saved /\ roundsAllocated' = roundsAllocated /\ round' = round
      /\ excess' = excess + Beyond(u, remaining_reserve)
      /\ UNCHANGED <<share, contested, waiting>>
  BY <1>1 DEF TieBreakerCalled, plan
<1>6. /\ store' \in [wired: BOOLEAN, left: Int] /\ store'.wired = store.wired
      /\ store.wired => store'.left = store.left - u
  BY <1>1, <1>3, DebitedTyped DEF TieBreakerCalled
<1>7. Beyond(u, remaining_reserve) \in Nat
  BY <1>2, <1>3 DEF Beyond, AtLeast
<1>8. reserve_pool' = reserve_pool /\ spendable_budget' = spendable_budget
  BY DEF spendable_budget, reserve_pool
<1>9. /\ phase' \in {"resolved", "down"} /\ reserveUsed' \in 0..reserve_pool
      /\ untracked' \in Nat /\ excess' \in Nat /\ gate' \in Int
      /\ reserveUsed' + untracked' = u
  BY <1>1, <1>2, <1>3, <1>4, <1>5, <1>7 DEF TypeOK
<1>10. TypeOK'
  BY <1>1, <1>5, <1>6, <1>8, <1>9 DEF TypeOK
<1>11. PlanIsFunded' /\ NobodyStarves' /\ ContestedFirst'
  BY <1>9 DEF PlanIsFunded, NobodyStarves, ContestedFirst
<1>12. \/ Total - gate' = used' + u
       \/ resumes' > 0 /\ used' >= Total /\ 0 - gate' = u
  BY <1>1, <1>3, <1>5, ManagerFacts, ConstantsAssumption DEF TrackersExplainGate, TypeOK
<1>13. store'.wired => Total - store'.left = used' + u + strays'
  BY <1>1, <1>3, <1>5, <1>6, ManagerFacts, ConstantsAssumption DEF TrackersExplainGate, TypeOK
<1>14. TrackersExplainGate'
  <2>1. /\ used' + reserveUsed' + untracked' = used' + u
        /\ used' + reserveUsed' + untracked' + strays' = used' + u + strays'
    <3>1. used' \in Nat /\ strays' \in Nat /\ reserveUsed' \in Int /\ untracked' \in Int
      BY <1>2, <1>9, <1>10 DEF TypeOK
    <3>2. PICK now \in Int, stray \in Int, drawn \in Int, lost \in Int :
                 /\ now = used' /\ stray = strays'
                 /\ drawn = reserveUsed' /\ lost = untracked'
      BY <3>1
    <3>3. drawn + lost = u
      BY <1>9, <3>2
    <3>4. now + drawn + lost = now + u /\ now + drawn + lost + stray = now + u + stray
      BY <1>3, <3>3
    <3> QED
      BY <3>2, <3>4
  <2>2. untracked' > 0 => reserveUsed' = 0 /\ (phase' = "down" \/ untracked' > reserve_pool)
    BY <1>3, <1>4, <1>2
  <2> QED
    BY <1>8, <1>9, <1>12, <1>13, <2>1, <2>2 DEF TrackersExplainGate
<1>15. used' <= spendable_budget + excess'
  <2> HIDE DEF Beyond
  <2>1. used <= spendable_budget + excess
    BY ManagerFacts
  <2> QED
    BY <1>1, <1>5, <1>7, <2>1, PoolFacts DEF TypeOK
<1>16. saved' <= used' /\ roundsAllocated' <= round' - 1 /\ (~store'.wired \/ resumes' = 0 => strays' = 0)
  BY <1>1, <1>5, <1>6, ManagerFacts
<1> QED
  BY <1>8, <1>9, <1>10, <1>11, <1>14, <1>15, <1>16 DEF ManagerInv, PlanIsSound

\* A new execution, or the attempt at one.
LEMMA ResumeSound ==
  ASSUME ManagerInv, NEW n \in Abandoned, Resume(n) \/ RefuseResume(n)
  PROVE  ManagerInv'
<1>1. TypeOK /\ Restart
  BY ManagerFacts DEF Resume, RefuseResume
<1>2. n \in Nat
  BY <1>1, PoolFacts DEF Abandoned, TypeOK, remaining_reserve, reserve_pool
<1>3. /\ phase' \in {"between", "refused"} /\ used' = saved /\ saved' = saved
      /\ saved \in Nat /\ reserveUsed' = 0 /\ untracked' = 0
      /\ round' = round /\ roundsAllocated' = 0 /\ round \in 1..NumRounds + 1
      /\ waiting' = {} /\ UNCHANGED <<share, contested>>
      /\ resumes' = resumes + 1 /\ resumes < MaxResumes
      /\ excess' = Beyond(saved, spendable_budget)
  BY <1>1 DEF Restart, Resume, RefuseResume, ReplayedUsage, TypeOK, plan
<1>4. excess' \in Nat /\ used' <= spendable_budget + excess'
  BY <1>3, PoolFacts DEF Beyond, AtLeast
<1>5. /\ ReplayAmount \in Nat
      /\ ReplayAmount = saved \/ (saved >= Total /\ ReplayAmount = Total)
  BY <1>3, ConstantsAssumption DEF ReplayAmount, AtMost
<1>6. /\ gate' \in Int
      /\ \/ Total - gate' = saved
         \/ saved >= Total /\ gate' = 0
         \/ phase' = "refused"
  BY <1>3, <1>5, ConstantsAssumption DEF Resume, RefuseResume
<1>7. Forgotten(n) \in Nat /\ Forgotten(n) = used - saved + reserveUsed + untracked + n
  BY <1>1, <1>2, <1>3, ManagerFacts, PoolFacts DEF Forgotten, TypeOK
<1>8. /\ store' \in [wired: BOOLEAN, left: Int] /\ store'.wired = store.wired
      /\ ~store.wired => strays' = strays
      /\ strays' \in Nat
      /\ store.wired => Total - store'.left = saved + strays'
  <2>0. store.wired => Total - store.left = used + reserveUsed + untracked + strays
    BY ManagerFacts DEF TrackersExplainGate
  <2>1. CASE Resume(n)
    <3>1. n + ReplayAmount \in Int
      BY <1>2, <1>5
    <3>2. /\ store' \in [wired: BOOLEAN, left: Int] /\ store'.wired = store.wired
          /\ store.wired => store'.left = store.left - (n + ReplayAmount)
      BY <1>1, <2>1, <3>1, DebitedTyped DEF Resume
    <3>3. strays' = IF store.wired THEN strays + Forgotten(n) + ReplayAmount ELSE strays
      BY <2>1 DEF Resume
    <3> QED
      BY <1>1, <1>2, <1>3, <1>5, <1>7, <2>0, <3>2, <3>3, ConstantsAssumption, PoolFacts DEF TypeOK
  <2>2. CASE RefuseResume(n)
    <3>1. /\ store' \in [wired: BOOLEAN, left: Int] /\ store'.wired = store.wired
          /\ store.wired => store'.left = store.left - n
      BY <1>1, <1>2, <2>2, DebitedTyped DEF RefuseResume
    <3>2. strays' = strays + Forgotten(n) /\ store.wired
      BY <2>2 DEF RefuseResume, ReplayAdmitted
    <3> QED
      BY <1>1, <1>2, <1>3, <1>7, <2>0, <3>1, <3>2, ConstantsAssumption, PoolFacts DEF TypeOK
  <2> QED
    BY <2>1, <2>2
<1>9. reserve_pool' = reserve_pool /\ spendable_budget' = spendable_budget
  BY DEF reserve_pool, spendable_budget
<1>10. TypeOK'
  BY <1>1, <1>3, <1>4, <1>6, <1>8, <1>9, PoolFacts, ConstantsAssumption DEF TypeOK
<1>11. PlanIsFunded' /\ NobodyStarves' /\ ContestedFirst'
  BY <1>3 DEF PlanIsFunded, NobodyStarves, ContestedFirst
<1>12. TrackersExplainGate'
  <2>1. resumes' > 0
    BY <1>1, <1>3 DEF TypeOK
  <2>2. used' + reserveUsed' + untracked' = saved /\ reserveUsed' + untracked' = 0
    BY <1>3
  <2>3. \/ Total - gate' = used' + reserveUsed' + untracked'
        \/ resumes' > 0 /\ used' >= Total /\ 0 - gate' = reserveUsed' + untracked'
        \/ phase' = "refused"
    <3>1. CASE Total - gate' = saved
      BY <2>2, <3>1
    <3>2. CASE saved >= Total /\ gate' = 0
      <4>1. used' >= Total /\ 0 - gate' = 0
        BY <1>3, <3>2
      <4> QED
        BY <2>1, <2>2, <4>1
    <3> QED
      BY <1>6, <3>1, <3>2
  <2>4. store'.wired => Total - store'.left = used' + reserveUsed' + untracked' + strays'
    BY <1>8, <2>2
  <2> QED
    BY <1>3, <2>3, <2>4 DEF TrackersExplainGate
<1>13. ~store'.wired \/ resumes' = 0 => strays' = 0
  BY <1>1, <1>3, <1>8, ManagerFacts DEF TypeOK
<1>14. roundsAllocated' <= round' - 1 /\ saved' <= used'
  BY <1>3, ConstantsAssumption
<1> QED
  BY <1>3, <1>4, <1>9, <1>10, <1>11, <1>12, <1>13, <1>14 DEF ManagerInv, PlanIsSound

LEMMA ManagerInvNext ==
  ASSUME ManagerInv, [Next]_vars
  PROVE  ManagerInv'
<1>1. TypeOK
  BY ManagerFacts
<1>2. ASSUME EndLoop \/ Conclude PROVE ManagerInv'
  <2>1. /\ TypeOK' /\ phase' \in {"final", "done"}
        /\ phase \in {"between", "final", "resolved"}
    BY <1>1, <1>2 DEF EndLoop, Conclude, TypeOK, plan, reserve_pool
  <2>2. UNCHANGED <<round, used, reserveUsed, roundsAllocated, gate, store, saved, excess,
                    untracked, strays, resumes>>
    BY <1>2 DEF EndLoop, Conclude
  <2>3. PlanIsFunded' /\ NobodyStarves' /\ ContestedFirst'
    BY <2>1 DEF PlanIsFunded, NobodyStarves, ContestedFirst
  <2>4. /\ TrackersExplainGate' /\ (~store'.wired \/ resumes' = 0 => strays' = 0)
        /\ used' <= spendable_budget' + excess'
    BY <2>1, <2>2, AccountsKept
  <2>5. phase' = "final" => reserveUsed' = 0 /\ untracked' = 0
    BY <1>2, <2>2, ManagerFacts DEF EndLoop, Conclude
  <2>6. roundsAllocated' <= round' - 1 /\ saved' <= used'
    BY <2>1, <2>2, ManagerFacts
  <2> QED
    BY <2>1, <2>3, <2>4, <2>5, <2>6 DEF ManagerInv, PlanIsSound
<1>3. CASE UNCHANGED vars
  <2>1. UNCHANGED <<phase, round, used, reserveUsed, roundsAllocated, share, contested,
                    waiting, gate, store, saved, excess, untracked, strays, resumes>>
    BY <1>3 DEF vars, plan
  <2>2. TypeOK'
    BY <1>1, <2>1 DEF TypeOK, reserve_pool
  <2>3. PlanIsFunded' /\ NobodyStarves' /\ ContestedFirst' /\ TrackersExplainGate'
    BY <2>1 DEF PlanIsFunded, Planned, NobodyStarves, ContestedFirst, TrackersExplainGate,
       ManagerInv, PlanIsSound, spendable_budget, reserve_pool
  <2> QED
    BY <2>1, <2>2, <2>3 DEF ManagerInv, PlanIsSound, spendable_budget, reserve_pool
<1> QED
  BY <1>2, <1>3, AllocateSound, AskSound, RefuseSound, EndRoundSound, TieBreakSound,
     ResumeSound DEF Next

\* What every plan, usage and draw of budget_manager.py preserves, from which the three
\* theorems about it follow.
THEOREM ManagerInvariant == Spec => []ManagerInv
<1>1. ManagerInv /\ [Next]_vars => ManagerInv'
  BY ManagerInvNext
<1> QED
  BY <1>1, ManagerInvInit, PTL DEF Spec

\* For any number of analysts, any budget and any deviation of the calls, each plan of
\* allocate() in budget_manager.py is funded, starves nobody and puts contested agents first.
THEOREM PlanIsSoundHolds == Spec => []PlanIsSound
<1>1. ManagerInv => PlanIsSound
  BY DEF ManagerInv
<1> QED
  BY <1>1, ManagerInvariant, PTL

\* The room of the gate covers each plan of budget_manager.py, and the tie-breaker, but for
\* overruns and for what the store was charged for other executions and replays: nothing, in
\* a first execution and without a store.
THEOREM PlanFitsGateHolds == Spec => []PlanFitsGate
<1>1. ManagerInv => PlanFitsGate
  <2> SUFFICES ASSUME ManagerInv PROVE PlanFitsGate
    OBVIOUS
  <2>1. TypeOK /\ Planned \in Int
    BY PlannedTyped, ManagerFacts
  <2>2. ASSUME phase \in {"asking", "final"}
        PROVE  /\ gate >= Total - used
               /\ store.wired => store.left = Total - used - strays
    <3>1. reserveUsed = 0 /\ untracked = 0
      BY <2>2, ManagerFacts
    <3> QED
      BY <2>1, <2>2, <3>1, ManagerFacts, ConstantsAssumption DEF TrackersExplainGate, TypeOK
  <2>3. ASSUME phase \in {"asking", "final"} PROVE Room + strays >= Total - used
    BY <2>1, <2>2, <2>3, ConstantsAssumption DEF Room, TypeOK
  <2>4. Room \in Int
    BY <2>1 DEF Room, TypeOK
  <2>5. ASSUME phase = "asking" PROVE Planned <= Room + excess + strays
    <3>1. used + Planned <= spendable_budget + excess
      BY <2>5, ManagerFacts
    <3> QED
      BY <2>1, <2>3, <2>4, <2>5, <3>1, PoolFacts DEF TypeOK
  <2>6. ASSUME phase = "final" PROVE remaining_reserve <= Room + excess + strays
    <3>1. used <= spendable_budget + excess /\ reserveUsed = 0
      BY <2>6, ManagerFacts
    <3> QED
      BY <2>1, <2>3, <2>4, <2>6, <3>1, PoolFacts DEF TypeOK, remaining_reserve
  <2> QED
    BY <2>5, <2>6, ManagerFacts DEF PlanFitsGate
<1> QED
  BY <1>1, ManagerInvariant, PTL

\* What the gate and the ledger in Mongo have lost is, to the token, in the two trackers of
\* budget_manager.py, with a tie-breaker that overran its reserve or failed, or left over from
\* other executions.
THEOREM TrackersExplainGateHolds == Spec => []TrackersExplainGate
<1>1. ManagerInv => TrackersExplainGate
  BY DEF ManagerInv
<1> QED
  BY <1>1, ManagerInvariant, PTL
=============================================================================
