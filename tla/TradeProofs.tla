---------------------------- MODULE TradeProofs ----------------------------
(***************************************************************************)
(* Proofs about the trade executor and the user portfolio.                 *)
(***************************************************************************)
EXTENDS MCTrading, SumTheorems, FiniteSetTheorems, SequenceTheorems, TLAPS

-----------------------------------------------------------------------------
\* Lists of ids: what Only, Without, AddOnce and Append do to the set of their entries.
KeepIf(set, kept, i) == IF i \in set THEN Append(kept, i) ELSE kept

\* A sequence whose entries are all different, with the entries in E.
ListOf(list, E) == list \in Seq(E) /\ ToSet(list) = E /\ IsInjective(list)

\* Of the first n entries of a list, those in the set were kept.
KeptSoFar(e, n, kept) ==
    ListOf(kept, {e.list[j] : j \in {k \in 1..n : e.list[k] \in e.set}})
KeepIn(e, kept, i) == KeepIf(e.set, kept, i)
OnlyFold == INSTANCE FoldTheorems WITH Op <- KeepIn, P <- KeptSoFar

\* A list without repetitions is a list of its entries.
LEMMA ListOfEntries ==
    ASSUME NEW S, NEW list \in Seq(S), IsInjective(list)
    PROVE  ListOf(list, ToSet(list))
  BY DEF ListOf, ToSet

\* Appending a new entry.
LEMMA ListAppends ==
    ASSUME NEW E, NEW list, ListOf(list, E), NEW i, i \notin E
    PROVE  ListOf(Append(list, i), E \cup {i})
  <1>1. list \in Seq(E) /\ ToSet(list) = E /\ IsInjective(list)
    BY DEF ListOf
  <1> DEFINE more == Append(list, i)
  <1>2. more \in Seq(E \cup {i}) /\ Len(more) = Len(list) + 1 /\ Len(list) \in Nat
    BY <1>1
  <1>3. \A k \in 1..Len(list) : more[k] = list[k] /\ list[k] \in E
    BY <1>1
  <1>4. more[Len(list) + 1] = i
    BY <1>1
  <1>5. DOMAIN more = 1..(Len(list) + 1) /\ DOMAIN list = 1..Len(list)
    BY <1>1, <1>2
  <1> HIDE DEF more
  <1>6. ToSet(more) = E \cup {i}
    <2>1. ToSet(more) \subseteq E \cup {i}
      BY <1>2 DEF ToSet
    <2>2. \A x \in E : \E k \in 1..Len(list) : list[k] = x
      BY <1>1, <1>5 DEF ToSet
    <2>3. E \subseteq ToSet(more)
      BY <1>2, <1>3, <1>5, <2>2 DEF ToSet
    <2>4. i \in ToSet(more)
      BY <1>2, <1>4, <1>5 DEF ToSet
    <2> QED
      BY <2>1, <2>3, <2>4
  <1>7. IsInjective(more)
    <2> SUFFICES ASSUME NEW a \in DOMAIN more, NEW b \in DOMAIN more, more[a] = more[b]
                 PROVE  a = b
      BY DEF IsInjective
    <2>1. CASE a \in 1..Len(list) /\ b \in 1..Len(list)
      BY <1>1, <1>3, <1>5, <2>1 DEF IsInjective
    <2>2. CASE a = Len(list) + 1 \/ b = Len(list) + 1
      BY <1>2, <1>3, <1>4, <1>5, <2>2
    <2> QED
      BY <1>2, <1>5, <2>1, <2>2
  <1>8. ListOf(more, E \cup {i})
    BY <1>2, <1>6, <1>7 DEF ListOf
  <1> QED
    BY <1>8 DEF more

\* Only keeps the entries that are in the set.
LEMMA OnlyKeeps ==
    ASSUME NEW E, NEW list, ListOf(list, E), NEW set
    PROVE  ListOf(Only(list, set), E \cap set)
  <1>1. list \in Seq(E) /\ ToSet(list) = E /\ IsInjective(list) /\ Len(list) \in Nat
        /\ DOMAIN list = 1..Len(list)
    BY DEF ListOf
  <1>2. PICK e : e = [list |-> list, set |-> set]
    BY Zenon
  <1>3. e.list = list /\ e.set = set
    BY <1>2
  <1>4. KeptSoFar(e, 0, <<>>)
    <2>1. {e.list[j] : j \in {k \in 1..0 : e.list[k] \in e.set}} = {}
      OBVIOUS
    <2>2. ListOf(<<>>, {})
      BY DEF ListOf, ToSet, IsInjective
    <2> QED
      BY Zenon, <2>1, <2>2 DEF KeptSoFar
  <1>5. ASSUME NEW n \in 1..Len(list), NEW kept, KeptSoFar(e, n - 1, kept)
        PROVE  KeptSoFar(e, n, KeepIn(e, kept, list[n]))
    <2> DEFINE Before == {e.list[j] : j \in {k \in 1..(n - 1) : e.list[k] \in e.set}}
               Now == {e.list[j] : j \in {k \in 1..n : e.list[k] \in e.set}}
    <2>1. ListOf(kept, Before)
      BY <1>5 DEF KeptSoFar
    <2>2. n \in Nat /\ 1..n = (1..(n - 1)) \cup {n} /\ \A k \in 1..(n - 1) : k # n /\ k \in 1..Len(list)
      BY <1>1
    <2>3. list[n] \notin Before
      BY <1>1, <1>3, <2>2 DEF IsInjective
    <2>4. CASE list[n] \in set
      <3>1. Now = Before \cup {list[n]}
        BY <1>3, <2>2, <2>4
      <3> HIDE DEF Now, Before
      <3>2. ListOf(Append(kept, list[n]), Now)
        BY <2>1, <2>3, <3>1, ListAppends
      <3> QED
        BY <1>3, <2>4, <3>2 DEF KeptSoFar, KeepIn, KeepIf, Now
    <2>5. CASE list[n] \notin set
      <3>1. Now = Before
        BY <1>3, <2>2, <2>5
      <3> QED
        BY Zenon, <1>3, <2>1, <2>5, <3>1 DEF KeptSoFar, KeepIn, KeepIf
    <2> QED
      BY <2>4, <2>5
  <1>6. KeptSoFar(e, Len(list), OnlyFold!Folded(e, <<>>, list))
    BY <1>1, <1>4, <1>5, OnlyFold!FoldInduction
  <1>7. OnlyFold!Folded(e, <<>>, list) = Only(list, set)
    BY <1>3 DEF OnlyFold!Folded, Only, KeepIn, KeepIf, FoldLeft, OnlyFold!FoldLeft,
       MapThenFoldSet, OnlyFold!MapThenFoldSet, Max, OnlyFold!Max
  <1>8. {e.list[j] : j \in {k \in 1..Len(list) : e.list[k] \in e.set}} = E \cap set
    <2>1. \A x \in E : \E k \in 1..Len(list) : list[k] = x
      BY <1>1 DEF ToSet
    <2> QED
      BY <1>1, <1>3, <2>1
  <1> QED
    BY Zenon, <1>6, <1>7, <1>8 DEF KeptSoFar

\* Removing one entry.
LEMMA WithoutDrops ==
    ASSUME NEW E, NEW list, ListOf(list, E), NEW i
    PROVE  ListOf(Without(list, i), E \ {i})
  <1>1. ToSet(list) = E
    BY DEF ListOf
  <1>2. ListOf(Only(list, E \ {i}), E \cap (E \ {i}))
    BY OnlyKeeps
  <1>3. E \cap (E \ {i}) = E \ {i}
    OBVIOUS
  <1> QED
    BY <1>1, <1>2, <1>3 DEF Without

\* An entry is added once.
LEMMA AddsOnce ==
    ASSUME NEW E, NEW list, ListOf(list, E), NEW i
    PROVE  ListOf(AddOnce(list, i), E \cup {i})
  <1>1. Contains(list, i) <=> i \in E
    BY DEF Contains, ListOf, ToSet
  <1>2. CASE i \in E
    <2>1. E \cup {i} = E
      BY <1>2
    <2> QED
      BY <1>1, <1>2, <2>1 DEF AddOnce
  <1>3. CASE i \notin E
    BY <1>1, <1>3, ListAppends DEF AddOnce
  <1> QED
    BY <1>2, <1>3

-----------------------------------------------------------------------------
\* The portfolio's records.
PortfolioFields ==
    {"legacy", "positions", "opened_at", "asset", "ids", "open", "closed", "migrated",
     "migration_queue", "executor", "kyc", "kyc_required", "restricted", "threshold", "tags",
     "by_tag", "cap", "exposure", "lots", "fifo_pnl", "tax", "streak", "best", "terms",
     "subscribed", "snapshots", "prefs", "style", "onboarding"}

Lot == [entry_price : Int, amount : Nat \ {0}]

OpenIds(s, u) == {id \in ToSet(s.ids[u]) : s.positions[id].status = "Open"}
ClosedIds(s, u) == {id \in ToSet(s.ids[u]) : s.positions[id].status # "Open"}

\* Every position has at most one owner, who lists it once.
IdsOK(s) ==
    /\ s.positions \in Seq(Position)
    /\ s.ids \in [Holders -> Seq(Nat)]
    /\ \A u \in Holders : IsInjective(s.ids[u]) /\ ToSet(s.ids[u]) \subseteq DOMAIN s.positions
    /\ \A u, v \in Holders : u # v => ToSet(s.ids[u]) \cap ToSet(s.ids[v]) = {}
    /\ s.migration_queue \in Seq(Holders)

\* The lists of an indexed user.
UserListsOK(s, u) ==
    /\ ListOf(Stored(s.open[u]), OpenIds(s, u))
    /\ ListOf(Stored(s.closed[u]), ClosedIds(s, u))

ListsOK(s) ==
    /\ DOMAIN s.open = Holders /\ DOMAIN s.closed = Holders
    /\ \A u \in Holders : (u \in s.migrated \/ u \notin s.legacy) => UserListsOK(s, u)

Tagged(s, u, t) == {id \in DOMAIN s.tags[u] : s.tags[u][id] = t}

TagsOK(s) ==
    /\ DOMAIN s.tags = Holders /\ DOMAIN s.by_tag = Holders \X Tags
    /\ \A u \in Holders : \A id \in DOMAIN s.tags[u] : s.tags[u][id] \in Tags
    /\ \A u \in Holders, t \in Tags : ListOf(s.by_tag[<<u, t>>], Tagged(s, u, t))

LotsOK(s) == s.lots \in [Holders -> Seq(Lot)]

PortfolioOK(s) ==
    DOMAIN s = PortfolioFields /\ IdsOK(s) /\ ListsOK(s) /\ TagsOK(s) /\ LotsOK(s)

\* What a step that concerns neither positions nor lists, tags and lots leaves alone.
SamePositions(s, t) ==
    /\ t.legacy = s.legacy /\ t.positions = s.positions /\ t.ids = s.ids
    /\ t.open = s.open /\ t.closed = s.closed /\ t.migrated = s.migrated
    /\ t.migration_queue = s.migration_queue
SameTags(s, t) == t.tags = s.tags /\ t.by_tag = s.by_tag
SameLots(s, t) == t.lots = s.lots
SameRecords(s, t) ==
    DOMAIN t = PortfolioFields /\ SamePositions(s, t) /\ SameTags(s, t) /\ SameLots(s, t)

\* Records that are left alone stay right.
LEMMA SameKeepsPositions ==
    ASSUME NEW s, NEW t, IdsOK(s), ListsOK(s), SamePositions(s, t)
    PROVE  IdsOK(t) /\ ListsOK(t)
  BY Zenon DEF IdsOK, ListsOK, UserListsOK, OpenIds, ClosedIds, SamePositions

\* Tags that are left alone stay right.
LEMMA SameKeepsTags ==
    ASSUME NEW s, NEW t, TagsOK(s), SameTags(s, t)
    PROVE  TagsOK(t)
  BY DEF TagsOK, Tagged, SameTags

\* All records that are left alone stay right.
LEMMA SameKeeps ==
    ASSUME NEW s, NEW t, PortfolioOK(s), SameRecords(s, t)
    PROVE  PortfolioOK(t)
  <1>1. IdsOK(t) /\ ListsOK(t)
    BY SameKeepsPositions DEF PortfolioOK, SameRecords
  <1>2. TagsOK(t)
    BY SameKeepsTags DEF PortfolioOK, SameRecords
  <1> QED
    BY <1>1, <1>2 DEF PortfolioOK, SameRecords, LotsOK, SameLots

\* A list of stored ids is not the mark of a missing list.
LEMMA ListIsStored ==
    ASSUME NEW E, NEW list, ListOf(list, E), 0 \notin E
    PROVE  Stored(list) = list
  <1>1. ASSUME list = NoList
        PROVE  FALSE
    <2>1. 0 \in ToSet(list)
      BY <1>1 DEF ToSet, NoList
    <2> QED
      BY <2>1 DEF ListOf
  <1> QED
    BY <1>1 DEF Stored, NoList

\* Ids start at one.
LEMMA IdsPositive ==
    ASSUME NEW s, IdsOK(s), NEW u \in Holders
    PROVE  0 \notin ToSet(s.ids[u]) /\ ToSet(s.ids[u]) \subseteq 1..Len(s.positions)
  <1>1. DOMAIN s.positions = 1..Len(s.positions) /\ Len(s.positions) \in Nat
    BY DEF IdsOK
  <1>2. ToSet(s.ids[u]) \subseteq 1..Len(s.positions)
    BY <1>1 DEF IdsOK
  <1> QED
    BY <1>1, <1>2

-----------------------------------------------------------------------------
\* A new position of user u, added to its open list.
Opens(s, t, u, row) ==
    /\ row \in Position /\ row.status = "Open"
    /\ t.positions = Append(s.positions, row)
    /\ t.ids = [s.ids EXCEPT ![u] = Append(s.ids[u], Len(s.positions) + 1)]
    /\ t.open = [s.open EXCEPT ![u] = Append(Stored(s.open[u]), Len(s.positions) + 1)]
    /\ t.closed = s.closed /\ t.legacy = s.legacy /\ t.migrated = s.migrated
    /\ t.migration_queue = s.migration_queue

\* Opening a position keeps the lists exact.
LEMMA OpensKeeps ==
    ASSUME NEW s, NEW t, NEW u \in Holders, NEW row, IdsOK(s), ListsOK(s), Opens(s, t, u, row)
    PROVE  IdsOK(t) /\ ListsOK(t)
  <1>1. PICK n \in Nat : n = Len(s.positions) /\ s.positions \in Seq(Position)
                         /\ DOMAIN s.positions = 1..n
    BY DEF IdsOK
  <1>2. /\ t.positions \in Seq(Position) /\ Len(t.positions) = n + 1
        /\ DOMAIN t.positions = 1..(n + 1)
        /\ t.positions[n + 1] = row
        /\ \A id \in 1..n : t.positions[id] = s.positions[id]
    BY <1>1 DEF Opens
  <1>3. \A v \in Holders : /\ ToSet(s.ids[v]) \subseteq 1..n
                           /\ ListOf(s.ids[v], ToSet(s.ids[v]))
                           /\ s.ids[v] \in Seq(Nat)
    <2> SUFFICES ASSUME NEW v \in Holders
                 PROVE  /\ ToSet(s.ids[v]) \subseteq 1..n
                        /\ ListOf(s.ids[v], ToSet(s.ids[v]))
                        /\ s.ids[v] \in Seq(Nat)
      OBVIOUS
    <2>1. s.ids[v] \in Seq(Nat) /\ IsInjective(s.ids[v]) /\ ToSet(s.ids[v]) \subseteq 1..n
      BY <1>1 DEF IdsOK
    <2> QED
      BY <2>1, ListOfEntries
  <1>4. n + 1 \notin 1..n /\ 0 \notin 1..(n + 1) /\ n + 1 \in Nat /\ 1..n \subseteq 1..(n + 1)
        /\ n + 1 \in 1..(n + 1)
    BY <1>1
  <1>5. t.ids[u] = Append(s.ids[u], n + 1) /\ \A v \in Holders \ {u} : t.ids[v] = s.ids[v]
    BY <1>1 DEF Opens, IdsOK
  <1>6. ListOf(t.ids[u], ToSet(s.ids[u]) \cup {n + 1})
    <2>1. n + 1 \notin ToSet(s.ids[u])
      BY Zenon, <1>3, <1>4
    <2> QED
      BY <1>3, <1>5, <2>1, ListAppends
  <1>7. ToSet(t.ids[u]) = ToSet(s.ids[u]) \cup {n + 1} /\ IsInjective(t.ids[u])
    BY <1>6 DEF ListOf
  <1>8. IdsOK(t)
    <2>1. t.ids[u] \in Seq(Nat)
      BY <1>3, <1>4, <1>5
    <2>2. t.ids \in [Holders -> Seq(Nat)]
      BY <1>1, <2>1 DEF Opens, IdsOK
    <2>3. \A v \in Holders : IsInjective(t.ids[v]) /\ ToSet(t.ids[v]) \subseteq DOMAIN t.positions
      <3> SUFFICES ASSUME NEW v \in Holders
                   PROVE  IsInjective(t.ids[v]) /\ ToSet(t.ids[v]) \subseteq 1..(n + 1)
        BY <1>2
      <3>1. CASE v = u
        BY <1>3, <1>4, <1>7, <3>1
      <3>2. CASE v # u
        BY Zenon, <1>3, <1>4, <1>5, <3>2 DEF IdsOK
      <3> QED
        BY <3>1, <3>2
    <2>4. \A v, w \in Holders : v # w => ToSet(t.ids[v]) \cap ToSet(t.ids[w]) = {}
      <3> SUFFICES ASSUME NEW v \in Holders, NEW w \in Holders, v # w
                   PROVE  ToSet(t.ids[v]) \cap ToSet(t.ids[w]) = {}
        OBVIOUS
      <3>1. ToSet(s.ids[v]) \cap ToSet(s.ids[w]) = {}
        BY Zenon DEF IdsOK
      <3>2. n + 1 \notin ToSet(s.ids[v]) /\ n + 1 \notin ToSet(s.ids[w])
        BY Zenon, <1>3, <1>4
      <3>3. ToSet(t.ids[v]) \subseteq ToSet(s.ids[v]) \cup (IF v = u THEN {n + 1} ELSE {})
        BY Zenon, <1>5, <1>7
      <3>4. ToSet(t.ids[w]) \subseteq ToSet(s.ids[w]) \cup (IF w = u THEN {n + 1} ELSE {})
        BY Zenon, <1>5, <1>7
      <3> QED
        BY <3>1, <3>2, <3>3, <3>4
    <2> QED
      BY Zenon, <1>2, <2>2, <2>3, <2>4 DEF IdsOK, Opens
  <1>9. ListsOK(t)
    <2>1. DOMAIN t.open = Holders /\ DOMAIN t.closed = Holders
      BY DEF Opens, ListsOK
    <2>2. ASSUME NEW v \in Holders, v \in t.migrated \/ v \notin t.legacy
          PROVE  UserListsOK(t, v)
      <3>1. UserListsOK(s, v)
        BY <2>2 DEF Opens, ListsOK
      <3>2. ClosedIds(t, v) = ClosedIds(s, v)
        <4>1. \A id \in ToSet(s.ids[v]) : t.positions[id] = s.positions[id]
          BY Zenon, <1>2, <1>3
        <4>2. t.positions[n + 1].status = "Open"
          BY <1>2 DEF Opens
        <4>3. ToSet(t.ids[v]) = ToSet(s.ids[v]) \/ ToSet(t.ids[v]) = ToSet(s.ids[v]) \cup {n + 1}
          BY Zenon, <1>5, <1>7
        <4> QED
          BY <4>1, <4>2, <4>3 DEF ClosedIds
      <3>3. t.closed[v] = s.closed[v]
        BY DEF Opens
      <3>4. CASE v # u
        <4>1. t.open[v] = s.open[v] /\ t.ids[v] = s.ids[v]
          BY <1>5, <3>4 DEF Opens, ListsOK
        <4>2. OpenIds(t, v) = OpenIds(s, v)
          BY Zenon, <1>2, <1>3, <4>1 DEF OpenIds
        <4> QED
          BY <3>1, <3>2, <3>3, <4>1, <4>2 DEF UserListsOK
      <3>5. CASE v = u
        <4>1. t.open[u] = Append(Stored(s.open[u]), n + 1)
          BY <1>1 DEF Opens, ListsOK
        <4>2. n + 1 \notin OpenIds(s, u) /\ OpenIds(s, u) \subseteq 1..n
          BY Zenon, <1>3, <1>4 DEF OpenIds
        <4>3. ListOf(t.open[u], OpenIds(s, u) \cup {n + 1})
          BY <3>1, <3>5, <4>1, <4>2, ListAppends DEF UserListsOK
        <4>4. OpenIds(t, u) = OpenIds(s, u) \cup {n + 1}
          <5>1. \A id \in ToSet(s.ids[u]) : t.positions[id] = s.positions[id]
            BY Zenon, <1>2, <1>3
          <5>2. t.positions[n + 1].status = "Open"
            BY <1>2 DEF Opens
          <5> QED
            BY <1>7, <5>1, <5>2 DEF OpenIds
        <4>5. 0 \notin OpenIds(s, u) \cup {n + 1}
          BY <1>4, <4>2
        <4>6. Stored(t.open[u]) = t.open[u]
          BY <4>3, <4>5, ListIsStored
        <4> QED
          BY <3>1, <3>2, <3>3, <3>5, <4>3, <4>4, <4>6 DEF UserListsOK
      <3> QED
        BY <3>4, <3>5
    <2> QED
      BY <2>1, <2>2 DEF ListsOK
  <1> QED
    BY <1>8, <1>9

\* The row of a position is written, and the position closed if its status says so.
Rewrites(s, t, id, row) ==
    /\ row \in Position
    /\ t.positions = [s.positions EXCEPT ![id] = row]
    /\ t.ids = s.ids /\ t.legacy = s.legacy /\ t.migrated = s.migrated
    /\ t.migration_queue = s.migration_queue

\* Writing a row changes that row.
LEMMA RewritesRow ==
    ASSUME NEW s, NEW t, NEW id \in DOMAIN s.positions, NEW row, IdsOK(s), Rewrites(s, t, id, row)
    PROVE  /\ t.positions \in Seq(Position) /\ DOMAIN t.positions = DOMAIN s.positions
           /\ \A k \in DOMAIN s.positions : t.positions[k] = IF k = id THEN row ELSE s.positions[k]
  <1>1. s.positions \in Seq(Position)
    BY DEF IdsOK
  <1> QED
    BY <1>1 DEF Rewrites

\* Writing a row keeps the owners.
LEMMA RewritesKeepsIds ==
    ASSUME NEW s, NEW t, NEW id \in DOMAIN s.positions, NEW row, IdsOK(s), Rewrites(s, t, id, row)
    PROVE  IdsOK(t)
  <1>1. t.positions \in Seq(Position) /\ DOMAIN t.positions = DOMAIN s.positions
    BY Zenon, RewritesRow
  <1>2. t.ids = s.ids /\ t.migration_queue = s.migration_queue
    BY DEF Rewrites
  <1> QED
    BY Zenon, <1>1, <1>2 DEF IdsOK

\* A position that keeps its status keeps its place.
LEMMA RewritesKeepsLists ==
    ASSUME NEW s, NEW t, NEW id \in DOMAIN s.positions, NEW row, IdsOK(s), ListsOK(s),
           Rewrites(s, t, id, row), row.status = s.positions[id].status,
           t.open = s.open, t.closed = s.closed
    PROVE  IdsOK(t) /\ ListsOK(t)
  <1>1. IdsOK(t) /\ \A k \in DOMAIN s.positions :
                        t.positions[k] = IF k = id THEN row ELSE s.positions[k]
    BY RewritesKeepsIds, RewritesRow
  <1>2. \A k \in DOMAIN s.positions : t.positions[k].status = s.positions[k].status
    BY <1>1
  <1>3. \A u \in Holders : OpenIds(t, u) = OpenIds(s, u) /\ ClosedIds(t, u) = ClosedIds(s, u)
    BY <1>2 DEF OpenIds, ClosedIds, Rewrites, IdsOK
  <1>4. t.legacy = s.legacy /\ t.migrated = s.migrated
    BY DEF Rewrites
  <1>5. ListsOK(t)
    BY <1>3, <1>4 DEF ListsOK, UserListsOK
  <1> QED
    BY <1>1, <1>5

\* A closed position moves from its owner's open list to the closed one.
LEMMA ClosesKeeps ==
    ASSUME NEW s, NEW t, NEW u \in Holders, NEW id \in ToSet(s.ids[u]), NEW row,
           IdsOK(s), ListsOK(s), Rewrites(s, t, id, row), row.status = "Closed",
           t.open = [s.open EXCEPT ![u] = Without(Stored(s.open[u]), id)],
           t.closed = [s.closed EXCEPT ![u] = AddOnce(Stored(s.closed[u]), id)]
    PROVE  IdsOK(t) /\ ListsOK(t)
  <1>1. id \in DOMAIN s.positions
    BY DEF IdsOK
  <1>2. IdsOK(t) /\ \A k \in DOMAIN s.positions :
                        t.positions[k] = IF k = id THEN row ELSE s.positions[k]
    <2>1. IdsOK(t)
      BY <1>1, RewritesKeepsIds
    <2>2. \A k \in DOMAIN s.positions : t.positions[k] = IF k = id THEN row ELSE s.positions[k]
      <3>1. s.positions \in Seq(Position)
        BY DEF IdsOK
      <3>2. t.positions = [s.positions EXCEPT ![id] = row]
        BY DEF Rewrites
      <3> QED
        BY <1>1, <3>1, <3>2
    <2> QED
      BY <2>1, <2>2
  <1>3. t.ids = s.ids
    BY DEF Rewrites
  <1>4. ASSUME NEW v \in Holders, v \in t.migrated \/ v \notin t.legacy
        PROVE  UserListsOK(t, v)
    <2>1. UserListsOK(s, v)
      BY <1>4 DEF ListsOK, Rewrites
    <2>2. ToSet(s.ids[v]) \subseteq DOMAIN s.positions
      BY DEF IdsOK
    <2>3. CASE v # u
      <3>1. id \notin ToSet(s.ids[v])
        BY Zenon, <2>3 DEF IdsOK
      <3>2. OpenIds(t, v) = OpenIds(s, v) /\ ClosedIds(t, v) = ClosedIds(s, v)
        BY <1>2, <1>3, <2>2, <3>1 DEF OpenIds, ClosedIds
      <3>3. t.open[v] = s.open[v] /\ t.closed[v] = s.closed[v]
        BY <2>3 DEF ListsOK
      <3> QED
        BY <2>1, <3>2, <3>3 DEF UserListsOK
    <2>4. CASE v = u
      <3>1. OpenIds(t, u) = OpenIds(s, u) \ {id}
        BY <1>2, <1>3, <2>2, <2>4 DEF OpenIds
      <3>2. ClosedIds(t, u) = ClosedIds(s, u) \cup {id}
        BY <1>2, <1>3, <2>2, <2>4 DEF ClosedIds
      <3>3. t.open[u] = Without(Stored(s.open[u]), id)
            /\ t.closed[u] = AddOnce(Stored(s.closed[u]), id)
        BY DEF ListsOK
      <3>4. ListOf(t.open[u], OpenIds(t, u))
        BY <2>1, <2>4, <3>1, <3>3, WithoutDrops DEF UserListsOK
      <3>5. ListOf(t.closed[u], ClosedIds(t, u))
        BY <2>1, <2>4, <3>2, <3>3, AddsOnce DEF UserListsOK
      <3>6. 0 \notin ToSet(t.ids[u])
        BY <1>2, IdsPositive
      <3>7. 0 \notin OpenIds(t, u) /\ 0 \notin ClosedIds(t, u)
        BY <3>6 DEF OpenIds, ClosedIds
      <3>8. Stored(t.open[u]) = t.open[u]
        BY <3>4, <3>7, ListIsStored
      <3>9. Stored(t.closed[u]) = t.closed[u]
        BY <3>5, <3>7, ListIsStored
      <3> QED
        BY <2>4, <3>4, <3>5, <3>8, <3>9 DEF UserListsOK
    <2> QED
      BY <2>3, <2>4
  <1> QED
    BY <1>2, <1>4 DEF ListsOK

\* The lists of a user as rebuilt from its ids.
Rebuilds(s, t, u) ==
    /\ t.positions = s.positions /\ t.ids = s.ids /\ t.legacy = s.legacy
    /\ t.migrated = s.migrated \/ t.migrated = s.migrated \cup {u}
    /\ t.migration_queue = s.migration_queue
    /\ t.open = [s.open EXCEPT ![u] = Only(s.ids[u], OpenIds(s, u))]
    /\ t.closed = [s.closed EXCEPT ![u] = Only(s.ids[u], ClosedIds(s, u))]

\* Rebuilt lists are exact, whatever they were before.
LEMMA RebuildsKeeps ==
    ASSUME NEW s, NEW t, NEW u \in Holders, IdsOK(s), ListsOK(s), Rebuilds(s, t, u)
    PROVE  IdsOK(t) /\ ListsOK(t)
  <1>1. IdsOK(t)
    BY Zenon DEF IdsOK, Rebuilds
  <1>2. \A v \in Holders : OpenIds(t, v) = OpenIds(s, v) /\ ClosedIds(t, v) = ClosedIds(s, v)
    BY DEF OpenIds, ClosedIds, Rebuilds
  <1>3. ListOf(s.ids[u], ToSet(s.ids[u]))
    <2>1. s.ids[u] \in Seq(Nat) /\ IsInjective(s.ids[u])
      BY DEF IdsOK
    <2> QED
      BY <2>1, ListOfEntries
  <1>4. /\ ToSet(s.ids[u]) \cap OpenIds(s, u) = OpenIds(s, u)
        /\ ToSet(s.ids[u]) \cap ClosedIds(s, u) = ClosedIds(s, u)
    BY DEF OpenIds, ClosedIds
  <1>5. t.open[u] = Only(s.ids[u], OpenIds(s, u)) /\ t.closed[u] = Only(s.ids[u], ClosedIds(s, u))
    BY DEF Rebuilds, ListsOK
  <1>6. ListOf(t.open[u], OpenIds(s, u))
    BY <1>3, <1>4, <1>5, OnlyKeeps
  <1>7. ListOf(t.closed[u], ClosedIds(s, u))
    BY <1>3, <1>4, <1>5, OnlyKeeps
  <1>8. 0 \notin ToSet(s.ids[u])
    BY IdsPositive
  <1>9. 0 \notin OpenIds(s, u) /\ 0 \notin ClosedIds(s, u)
    BY <1>8 DEF OpenIds, ClosedIds
  <1>10. Stored(t.open[u]) = t.open[u]
    BY <1>6, <1>9, ListIsStored
  <1>11. Stored(t.closed[u]) = t.closed[u]
    BY <1>7, <1>9, ListIsStored
  <1>12. UserListsOK(t, u)
    BY <1>2, <1>6, <1>7, <1>10, <1>11 DEF UserListsOK
  <1>13. ASSUME NEW v \in Holders, v # u, v \in t.migrated \/ v \notin t.legacy
         PROVE  UserListsOK(t, v)
    <2>1. v \in s.migrated \/ v \notin s.legacy
      BY <1>13 DEF Rebuilds
    <2>2. UserListsOK(s, v)
      BY <2>1 DEF ListsOK
    <2>3. t.open[v] = s.open[v] /\ t.closed[v] = s.closed[v]
      BY <1>13 DEF Rebuilds, ListsOK
    <2> QED
      BY <1>2, <2>2, <2>3 DEF UserListsOK
  <1>14. DOMAIN t.open = Holders /\ DOMAIN t.closed = Holders
    BY DEF Rebuilds, ListsOK
  <1> QED
    BY <1>1, <1>12, <1>13, <1>14 DEF ListsOK

-----------------------------------------------------------------------------
\* What the calls that open, change and close positions do to the records.

\* A call that changes positions and lists only.
LEMMA PositionsChange ==
    ASSUME NEW s, NEW t, PortfolioOK(s), DOMAIN t = PortfolioFields, SameTags(s, t), SameLots(s, t),
           IdsOK(t), ListsOK(t)
    PROVE  PortfolioOK(t)
  <1>1. TagsOK(t)
    BY SameKeepsTags DEF PortfolioOK
  <1> QED
    BY <1>1 DEF PortfolioOK, LotsOK, SameLots

\* with_position adds the position and its id.
LEMMA WithPositionOpens ==
    ASSUME PortfolioOK(up), NEW u \in Holders, NEW input \in PositionInputs
    PROVE  /\ \E row : Opens(up, with_position(up, u, input), u, row)
           /\ DOMAIN with_position(up, u, input) = PortfolioFields
           /\ SameTags(up, with_position(up, u, input))
           /\ SameLots(up, with_position(up, u, input))
  <1>1. DOMAIN up = PortfolioFields
    BY DEF PortfolioOK
  <1>2. PICK t : t = with_position(up, u, input)
    OBVIOUS
  <1>3. PICK row : row = [entry_price |-> input.entry_price, amount |-> input.amount,
                          status |-> "Open", realized_pnl |-> 0]
    BY Zenon
  <1>4. row \in Position /\ row.status = "Open"
    <2>1. input \in [entry_price : Int, amount : Int]
      BY PortfolioConstants
    <2> QED
      BY <1>3, <2>1 DEF Position
  <1>5. DOMAIN t = PortfolioFields
    BY <1>1, <1>2 DEF with_position
  <1>6. /\ t.positions = Append(up.positions, row)
        /\ t.ids = [up.ids EXCEPT ![u] = Append(up.ids[u], Len(up.positions) + 1)]
        /\ t.open = [up.open EXCEPT ![u] = Append(Stored(up.open[u]), Len(up.positions) + 1)]
    BY <1>1, <1>2, <1>3 DEF with_position, PortfolioFields, Next_id
  <1>7. /\ t.closed = up.closed /\ t.legacy = up.legacy /\ t.migrated = up.migrated
        /\ t.tags = up.tags /\ t.by_tag = up.by_tag /\ t.lots = up.lots
        /\ t.migration_queue = up.migration_queue
    BY <1>1, <1>2 DEF with_position, PortfolioFields
  <1>8. Opens(up, t, u, row)
    BY <1>4, <1>6, <1>7 DEF Opens
  <1> QED
    BY <1>2, <1>5, <1>7, <1>8 DEF SameTags, SameLots

\* What open_position writes beside the position is in other records.
LEMMA OpenedOK ==
    ASSUME PortfolioOK(up), NEW u \in Holders, NEW input \in PositionInputs, NEW t,
           DOMAIN t = PortfolioFields, SamePositions(with_position(up, u, input), t),
           SameTags(with_position(up, u, input), t), SameLots(with_position(up, u, input), t)
    PROVE  PortfolioOK(t) /\ SameLots(up, t)
  <1>1. PICK s : s = with_position(up, u, input)
    OBVIOUS
  <1>2. DOMAIN s = PortfolioFields /\ SameTags(up, s) /\ SameLots(up, s)
    BY <1>1, WithPositionOpens
  <1>3. PICK row : Opens(up, s, u, row)
    BY <1>1, WithPositionOpens
  <1>4. IdsOK(s) /\ ListsOK(s)
    BY <1>3, OpensKeeps DEF PortfolioOK
  <1>5. PortfolioOK(s)
    BY <1>2, <1>4, PositionsChange
  <1> QED
    BY <1>1, <1>2, <1>5, SameKeeps DEF SameRecords, SameLots

\* open_position keeps the records right.
LEMMA open_position_OK ==
    ASSUME PortfolioOK(up), NEW u \in Holders, NEW input \in PositionInputs,
           open_position(u, input)
    PROVE  PortfolioOK(up') /\ SameLots(up, up')
  <1>1. PICK s : s = with_position(up, u, input) /\ DOMAIN s = PortfolioFields
    BY WithPositionOpens
  <1>2. up' = [s EXCEPT !.opened_at = Put(s.opened_at, Next_id, now)]
    BY <1>1 DEF open_position
  <1>3. DOMAIN up' = PortfolioFields /\ SamePositions(s, up') /\ SameTags(s, up') /\ SameLots(s, up')
    BY <1>1, <1>2 DEF PortfolioFields, SamePositions, SameTags, SameLots
  <1> QED
    BY <1>1, <1>3, OpenedOK

\* open_position_with_cap_check keeps the records right.
LEMMA open_position_with_cap_check_OK ==
    ASSUME PortfolioOK(up), NEW u \in Holders, NEW asset, NEW input \in PositionInputs,
           open_position_with_cap_check(u, asset, input)
    PROVE  PortfolioOK(up') /\ SameLots(up, up')
  <1>1. PICK s : s = with_position(up, u, input) /\ DOMAIN s = PortfolioFields
    BY WithPositionOpens
  <1>2. PICK a, e : up' = [s EXCEPT !.asset = a, !.exposure = e]
    BY Zenon, <1>1 DEF open_position_with_cap_check
  <1>3. DOMAIN up' = PortfolioFields /\ SamePositions(s, up') /\ SameTags(s, up') /\ SameLots(s, up')
    BY <1>1, <1>2 DEF PortfolioFields, SamePositions, SameTags, SameLots
  <1> QED
    BY <1>1, <1>3, OpenedOK

\* A position's row with another status, amount or result is a position.
LEMMA PositionRow ==
    ASSUME PortfolioOK(up), NEW u \in Holders, NEW id, require_open_position(u, id)
    PROVE  /\ id \in ToSet(up.ids[u]) /\ id \in DOMAIN up.positions
           /\ up.positions[id] \in Position /\ up.positions[id].status = "Open"
           /\ DOMAIN up = PortfolioFields
  <1>1. up.ids[u] \in Seq(Nat) /\ ToSet(up.ids[u]) \subseteq DOMAIN up.positions
        /\ up.positions \in Seq(Position)
    BY DEF PortfolioOK, IdsOK
  <1>2. id \in ToSet(up.ids[u])
    BY <1>1 DEF require_open_position, Contains, ToSet
  <1>3. id \in DOMAIN up.positions
    BY <1>1, <1>2
  <1>4. up.positions[id] \in Position
    BY <1>1, <1>3
  <1> QED
    BY <1>2, <1>3, <1>4 DEF require_open_position, IsOpen, PortfolioOK

\* Closing a position: the row, and the move from one list to the other.
LEMMA ClosedOK ==
    ASSUME PortfolioOK(up), NEW u \in Holders, NEW id \in ToSet(up.ids[u]), NEW row \in Position,
           row.status = "Closed", NEW less, DOMAIN less = PortfolioFields,
           less.positions = [up.positions EXCEPT ![id] = row],
           less.ids = up.ids, less.open = up.open, less.closed = up.closed,
           less.legacy = up.legacy, less.migrated = up.migrated,
           less.migration_queue = up.migration_queue, SameTags(up, less), SameLots(up, less),
           NEW t, DOMAIN t = PortfolioFields,
           SamePositions(mark_position_closed(less, u, id), t),
           SameTags(mark_position_closed(less, u, id), t),
           SameLots(mark_position_closed(less, u, id), t)
    PROVE  PortfolioOK(t) /\ SameLots(up, t)
  <1>1. PICK s : s = mark_position_closed(less, u, id)
    OBVIOUS
  <1>2. /\ DOMAIN s = PortfolioFields /\ SameTags(up, s) /\ SameLots(up, s)
        /\ s.positions = less.positions /\ s.ids = up.ids /\ s.legacy = up.legacy
        /\ s.migrated = up.migrated /\ s.migration_queue = up.migration_queue
    BY <1>1 DEF mark_position_closed, PortfolioFields, SameTags, SameLots
  <1>3. /\ s.open = [up.open EXCEPT ![u] = Without(Stored(up.open[u]), id)]
        /\ s.closed = [up.closed EXCEPT ![u] = AddOnce(Stored(up.closed[u]), id)]
    BY <1>1 DEF mark_position_closed, PortfolioFields
  <1>4. Rewrites(up, s, id, row)
    BY <1>2 DEF Rewrites
  <1>5. IdsOK(up) /\ ListsOK(up)
    BY DEF PortfolioOK
  <1>6. IdsOK(s) /\ ListsOK(s)
    BY <1>3, <1>4, <1>5, ClosesKeeps
  <1>7. PortfolioOK(s)
    BY <1>2, <1>6, PositionsChange
  <1> QED
    BY <1>1, <1>2, <1>7, SameKeeps DEF SameRecords, SameLots

\* close_position keeps the records right.
LEMMA close_position_OK ==
    ASSUME PortfolioOK(up), NEW u \in Holders, NEW id, NEW pnl \in PnlInputs,
           close_position(u, id, pnl)
    PROVE  PortfolioOK(up') /\ SameLots(up, up')
  <1>1. /\ id \in ToSet(up.ids[u]) /\ id \in DOMAIN up.positions
        /\ up.positions[id] \in Position /\ DOMAIN up = PortfolioFields
    BY PositionRow DEF close_position
  <1>2. PICK row : row = [up.positions[id] EXCEPT !.status = "Closed",
                                                  !.realized_pnl = up.positions[id].realized_pnl + pnl]
    OBVIOUS
  <1>3. row \in Position /\ row.status = "Closed"
    <2>1. pnl \in Int
      BY PortfolioConstants
    <2>2. PICK p \in Position : p = up.positions[id]
      BY <1>1
    <2>3. PICK sum \in Int : sum = p.realized_pnl + pnl
      BY <2>1, <2>2 DEF Position
    <2>4. row = [p EXCEPT !.status = "Closed", !.realized_pnl = sum]
      BY <1>2, <2>2, <2>3
    <2> QED
      BY Zenon, <2>2, <2>3, <2>4 DEF Position
  <1>4. PICK less : less = [up EXCEPT !.positions[id].status = "Closed",
                                      !.positions[id].realized_pnl = @ + pnl]
    OBVIOUS
  <1>5. less.positions = [up.positions EXCEPT ![id] = row]
    <2>1. less.positions = [up.positions EXCEPT ![id].status = "Closed",
                                                ![id].realized_pnl = @ + pnl]
      BY <1>1, <1>4 DEF PortfolioFields
    <2> QED
      BY Zenon, <1>1, <1>2, <2>1 DEF Position
  <1>6. /\ DOMAIN less = PortfolioFields
        /\ less.ids = up.ids /\ less.open = up.open /\ less.closed = up.closed
        /\ less.legacy = up.legacy /\ less.migrated = up.migrated
        /\ less.migration_queue = up.migration_queue /\ SameTags(up, less) /\ SameLots(up, less)
    BY <1>1, <1>4 DEF PortfolioFields, SameTags, SameLots
  <1>7. PICK s : s = mark_position_closed(less, u, id)
    OBVIOUS
  <1>8. DOMAIN s = PortfolioFields
    BY <1>6, <1>7 DEF mark_position_closed
  <1>9. PICK x, y, z : up' = [s EXCEPT !.tax = x, !.streak = y, !.best = z]
    <2>1. PICK x : x = tax_event(s, u, id, pnl)
      OBVIOUS
    <2>2. PICK w : x = [s EXCEPT !.tax = w]
      BY Zenon, <1>8, <2>1 DEF tax_event, PortfolioFields
    <2>3. PICK y, z : up' = [x EXCEPT !.streak = y, !.best = z]
      BY Zenon, <1>4, <1>7, <2>1 DEF close_position
    <2> QED
      BY Zenon, <1>8, <2>2, <2>3 DEF PortfolioFields
  <1>10. DOMAIN up' = PortfolioFields /\ SamePositions(s, up') /\ SameTags(s, up') /\ SameLots(s, up')
    BY <1>8, <1>9 DEF PortfolioFields, SamePositions, SameTags, SameLots
  <1> QED
    BY <1>1, <1>3, <1>5, <1>6, <1>7, <1>10, ClosedOK

\* close_by_keeper keeps the records right.
LEMMA close_by_keeper_OK ==
    ASSUME PortfolioOK(up), NEW u \in Holders, NEW id, close_by_keeper(u, id)
    PROVE  PortfolioOK(up') /\ SameLots(up, up')
  <1>1. /\ id \in ToSet(up.ids[u]) /\ id \in DOMAIN up.positions
        /\ up.positions[id] \in Position /\ DOMAIN up = PortfolioFields
    BY PositionRow DEF close_by_keeper
  <1>2. PICK row : row = [up.positions[id] EXCEPT !.status = "Closed"]
    BY Zenon
  <1>3. row \in Position /\ row.status = "Closed"
    BY <1>1, <1>2 DEF Position
  <1>4. PICK less : less = [up EXCEPT !.positions[id].status = "Closed"]
    BY Zenon
  <1>5. less.positions = [up.positions EXCEPT ![id] = row]
    BY <1>1, <1>2, <1>4 DEF PortfolioFields
  <1>6. /\ DOMAIN less = PortfolioFields
        /\ less.ids = up.ids /\ less.open = up.open /\ less.closed = up.closed
        /\ less.legacy = up.legacy /\ less.migrated = up.migrated
        /\ less.migration_queue = up.migration_queue /\ SameTags(up, less) /\ SameLots(up, less)
    BY <1>1, <1>4 DEF PortfolioFields, SameTags, SameLots
  <1>7. PICK s : s = mark_position_closed(less, u, id)
    OBVIOUS
  <1>8. DOMAIN s = PortfolioFields
    BY <1>6, <1>7 DEF mark_position_closed
  <1>9. PICK x : up' = [s EXCEPT !.tax = x]
    BY Zenon, <1>4, <1>7, <1>8 DEF close_by_keeper, tax_event, PortfolioFields
  <1>10. DOMAIN up' = PortfolioFields /\ SamePositions(s, up') /\ SameTags(s, up') /\ SameLots(s, up')
    BY <1>8, <1>9 DEF PortfolioFields, SamePositions, SameTags, SameLots
  <1> QED
    BY <1>1, <1>3, <1>5, <1>6, <1>7, <1>10, ClosedOK

\* close_position_partial keeps the records right, whether something remains or not.
LEMMA close_position_partial_OK ==
    ASSUME PortfolioOK(up), NEW u \in Holders, NEW id, NEW amount \in Int, NEW pnl \in PnlInputs,
           close_position_partial(u, id, amount, pnl)
    PROVE  PortfolioOK(up') /\ SameLots(up, up')
  <1>1. /\ id \in ToSet(up.ids[u]) /\ id \in DOMAIN up.positions
        /\ up.positions[id] \in Position /\ DOMAIN up = PortfolioFields
        /\ up.positions[id].status = "Open"
    BY PositionRow DEF close_position_partial
  <1>2. PICK rest \in Int : rest = up.positions[id].amount - amount
    BY <1>1 DEF Position
  <1>3. PICK row : row = [up.positions[id] EXCEPT !.amount = rest,
                                                  !.realized_pnl = up.positions[id].realized_pnl + pnl]
    OBVIOUS
  <1>4. row \in Position /\ row.status = "Open"
    <2>1. pnl \in Int
      BY PortfolioConstants
    <2>2. PICK p \in Position : p = up.positions[id]
      BY <1>1
    <2>3. PICK sum \in Int : sum = p.realized_pnl + pnl
      BY <2>1, <2>2 DEF Position
    <2>4. row = [p EXCEPT !.amount = rest, !.realized_pnl = sum]
      BY <1>3, <2>2, <2>3
    <2>5. p.status = "Open"
      BY <1>1, <2>2
    <2> QED
      BY Zenon, <1>2, <2>2, <2>3, <2>4, <2>5 DEF Position
  <1>5. PICK less : less = [up EXCEPT !.positions[id].amount = rest,
                                      !.positions[id].realized_pnl = @ + pnl]
    OBVIOUS
  <1>6. less.positions = [up.positions EXCEPT ![id] = row]
    <2>1. less.positions = [up.positions EXCEPT ![id].amount = rest,
                                                ![id].realized_pnl = @ + pnl]
      BY <1>1, <1>5 DEF PortfolioFields
    <2> QED
      BY Zenon, <1>1, <1>3, <2>1 DEF Position
  <1>7. /\ DOMAIN less = PortfolioFields
        /\ less.ids = up.ids /\ less.open = up.open /\ less.closed = up.closed
        /\ less.legacy = up.legacy /\ less.migrated = up.migrated
        /\ less.migration_queue = up.migration_queue /\ SameTags(up, less) /\ SameLots(up, less)
    BY <1>1, <1>5 DEF PortfolioFields, SameTags, SameLots
  <1>8. CASE rest > 0
    <2>1. up' = less
      BY <1>2, <1>5, <1>8 DEF close_position_partial
    <2>2. Rewrites(up, less, id, row) /\ row.status = up.positions[id].status
      BY <1>1, <1>4, <1>6, <1>7 DEF Rewrites
    <2>3. IdsOK(up) /\ ListsOK(up)
      BY DEF PortfolioOK
    <2>4. IdsOK(less) /\ ListsOK(less)
      BY <1>1, <1>7, <2>2, <2>3, RewritesKeepsLists
    <2> QED
      BY <1>7, <2>1, <2>4, PositionsChange
  <1>9. CASE ~ (rest > 0)
    <2>1. PICK gone : gone = [less EXCEPT !.positions[id].status = "Closed"]
      BY Zenon
    <2>2. up' = mark_position_closed(gone, u, id)
      BY <1>2, <1>5, <1>9, <2>1 DEF close_position_partial
    <2>3. PICK last : last = [row EXCEPT !.status = "Closed"]
      BY Zenon
    <2>4. last \in Position /\ last.status = "Closed"
      BY <1>4, <2>3 DEF Position
    <2>5. gone.positions = [up.positions EXCEPT ![id] = last]
      BY <1>1, <1>6, <1>7, <2>1, <2>3 DEF PortfolioFields
    <2>6. /\ DOMAIN gone = PortfolioFields
          /\ gone.ids = up.ids /\ gone.open = up.open /\ gone.closed = up.closed
          /\ gone.legacy = up.legacy /\ gone.migrated = up.migrated
          /\ gone.migration_queue = up.migration_queue /\ SameTags(up, gone) /\ SameLots(up, gone)
      BY <1>7, <2>1 DEF PortfolioFields, SameTags, SameLots
    <2>7. DOMAIN up' = PortfolioFields
      BY <2>2, <2>6 DEF mark_position_closed
    <2>8. /\ SamePositions(mark_position_closed(gone, u, id), up')
          /\ SameTags(mark_position_closed(gone, u, id), up')
          /\ SameLots(mark_position_closed(gone, u, id), up')
      BY <2>2 DEF SamePositions, SameTags, SameLots
    <2> QED
      BY <1>1, <2>4, <2>5, <2>6, <2>7, <2>8, ClosedOK
  <1> QED
    BY <1>8, <1>9

-----------------------------------------------------------------------------
\* Queries and the migration rebuild lists.

\* rebuild_position_indexes, marking the user as migrated or not.
LEMMA RebuildOK ==
    ASSUME NEW s, PortfolioOK(s), s.positions = up.positions, NEW u \in Holders, NEW t,
           NEW done, done = s.migrated \/ done = s.migrated \cup {u},
           t = [rebuild_position_indexes(s, u) EXCEPT !.migrated = done]
    PROVE  /\ PortfolioOK(t) /\ t.positions = up.positions
           /\ t.migration_queue = s.migration_queue /\ SameLots(s, t)
  <1>1. DOMAIN s = PortfolioFields /\ IdsOK(s) /\ ListsOK(s)
    BY DEF PortfolioOK
  <1>2. /\ {id \in ToSet(s.ids[u]) : IsOpen(id)} = OpenIds(s, u)
        /\ {id \in ToSet(s.ids[u]) : ~IsOpen(id)} = ClosedIds(s, u)
    BY DEF OpenIds, ClosedIds, IsOpen
  <1>3. PICK r : r = [s EXCEPT !.open[u] = Only(s.ids[u], OpenIds(s, u)),
                               !.closed[u] = Only(s.ids[u], ClosedIds(s, u))]
    OBVIOUS
  <1>4. t = [r EXCEPT !.migrated = done]
    BY Zenon, <1>2, <1>3 DEF rebuild_position_indexes
  <1>5. DOMAIN t = PortfolioFields /\ SameTags(s, t) /\ SameLots(s, t)
    BY Zenon, <1>1, <1>3, <1>4 DEF PortfolioFields, SameTags, SameLots
  <1>6. Rebuilds(s, t, u)
    BY Zenon, <1>1, <1>3, <1>4 DEF PortfolioFields, Rebuilds
  <1>7. IdsOK(t) /\ ListsOK(t)
    BY <1>1, <1>6, RebuildsKeeps
  <1>8. PortfolioOK(t)
    BY <1>5, <1>7, PositionsChange
  <1> QED
    BY <1>5, <1>6, <1>8 DEF Rebuilds

\* Without the mark.
LEMMA RebuildPlainOK ==
    ASSUME NEW s, PortfolioOK(s), s.positions = up.positions, NEW u \in Holders
    PROVE  /\ PortfolioOK(rebuild_position_indexes(s, u))
           /\ rebuild_position_indexes(s, u).positions = up.positions
           /\ SameLots(s, rebuild_position_indexes(s, u))
  <1>1. PICK r : r = rebuild_position_indexes(s, u)
    OBVIOUS
  <1>2. DOMAIN s = PortfolioFields
    BY DEF PortfolioOK
  <1>3. r = [r EXCEPT !.migrated = s.migrated]
    BY Zenon, <1>1, <1>2 DEF rebuild_position_indexes, PortfolioFields
  <1> QED
    BY <1>1, <1>3, RebuildOK

\* get_portfolio keeps the records right.
LEMMA get_portfolio_OK ==
    ASSUME PortfolioOK(up), NEW u \in Holders, NEW all \in BOOLEAN, get_portfolio(u, all)
    PROVE  PortfolioOK(up') /\ SameLots(up, up')
  <1>1. PICK s : s = get_open_position_ids(u)
    OBVIOUS
  <1>2. PortfolioOK(s) /\ s.positions = up.positions /\ SameLots(up, s)
    BY <1>1, RebuildPlainOK DEF get_open_position_ids, SameLots
  <1>3. PortfolioOK(get_closed_position_ids(s, u)) /\ SameLots(s, get_closed_position_ids(s, u))
    BY <1>2, RebuildPlainOK DEF get_closed_position_ids, SameLots
  <1> QED
    BY <1>1, <1>2, <1>3 DEF get_portfolio, SameLots

\* A batch of the migration, user by user.
MigratedSoFar(e, n, s) ==
    /\ PortfolioOK(s) /\ s.positions = up.positions
    /\ s.migration_queue = up.migration_queue /\ SameLots(up, s)
MigrateOne(e, s, user) == migrate_user(s, user)
MigrationFold == INSTANCE FoldTheorems WITH Op <- MigrateOne, P <- MigratedSoFar

\* The part of a list from its m-th entry to its n-th.
LEMMA Part ==
    ASSUME NEW S, NEW list \in Seq(S), NEW m \in Nat \ {0}, NEW n \in Nat, m <= n + 1, n <= Len(list)
    PROVE  /\ SubSeq(list, m, n) \in Seq(S) /\ Len(SubSeq(list, m, n)) = (n - m) + 1
           /\ \A i \in 1..((n - m) + 1) : SubSeq(list, m, n)[i] = list[(m + i) - 1]
  <1>1. \A i \in m..n : list[i] \in S
    OBVIOUS
  <1>2. m \in Int /\ n \in Int
    OBVIOUS
  <1>3. /\ SubSeq(list, m, n) \in Seq(S)
        /\ Len(SubSeq(list, m, n)) = IF m <= n THEN n - m + 1 ELSE 0
        /\ \A i \in 1 .. n - m + 1 : SubSeq(list, m, n)[i] = list[m + i - 1]
    BY <1>1, <1>2, SubSeqProperties
  <1> QED
    BY <1>3

\* migrate_batch keeps the records right.
LEMMA migrate_batch_OK ==
    ASSUME PortfolioOK(up), NEW size \in Nat, migrate_batch(size)
    PROVE  PortfolioOK(up') /\ SameLots(up, up')
  <1>1. up.migration_queue \in Seq(Holders)
    BY DEF PortfolioOK, IdsOK
  <1>2. PICK len \in Nat : len = Len(up.migration_queue)
    BY <1>1
  <1>3. PICK n \in 0..len : n = Min({size, len})
    <2>1. size <= len => Min({size, len}) = size
      BY DEF Min
    <2>2. ~ (size <= len) => Min({size, len}) = len
      BY DEF Min
    <2> QED
      BY <2>1, <2>2
  <1>4. PICK rest : rest = SubSeq(up.migration_queue, 1, len - n)
    BY Zenon
  <1>5. rest \in Seq(Holders) /\ Len(rest) = len - n
    <2>1. len - n \in Nat /\ len - n <= len /\ 1 \in Nat \ {0} /\ 1 <= (len - n) + 1
          /\ ((len - n) - 1) + 1 = len - n
      BY <1>3
    <2> QED
      BY <1>1, <1>2, <1>4, <2>1, Part
  <1>6. PICK done : done = SubSeq(up.migration_queue, Len(rest) + 1, len)
    BY Zenon
  <1>7. done \in Seq(Holders) /\ Len(done) = n
    <2>1. PICK m \in Nat \ {0} : m = Len(rest) + 1
      BY <1>3, <1>5
    <2>2. m <= len + 1 /\ (len - m) + 1 = n
      BY <1>3, <1>5, <2>1
    <2> QED
      BY <1>1, <1>2, <1>6, <2>1, <2>2, Part
  <1>8. PICK order : order = Reverse(done)
    OBVIOUS
  <1>9. DOMAIN order = 1..n /\ \A i \in 1..n : order[i] \in Holders
    <2>1. n \in Nat /\ DOMAIN done = 1..n
      BY <1>3, <1>7
    <2>2. order = [i \in 1..n |-> done[(n - i) + 1]]
      BY <1>7, <1>8 DEF Reverse
    <2>3. \A i \in 1..n : (n - i) + 1 \in 1..n
      BY <2>1
    <2> QED
      BY <1>7, <2>1, <2>2, <2>3
  <1>10. MigratedSoFar(0, 0, up)
    BY DEF MigratedSoFar, SameLots
  <1>11. ASSUME NEW i \in 1..n, NEW s, MigratedSoFar(0, i - 1, s)
         PROVE  MigratedSoFar(0, i, MigrateOne(0, s, order[i]))
    <2>1. PICK u \in Holders : u = order[i]
      BY <1>9
    <2>2. CASE u \in s.migrated
      BY <1>11, <2>1, <2>2 DEF MigratedSoFar, MigrateOne, migrate_user
    <2>3. CASE u \notin s.migrated
      <3>1. PICK t : t = [rebuild_position_indexes(s, u) EXCEPT !.migrated = s.migrated \cup {u}]
        BY Zenon
      <3>2. MigrateOne(0, s, u) = t
        <4>1. DOMAIN s = PortfolioFields
          BY <1>11 DEF MigratedSoFar, PortfolioOK
        <4>2. rebuild_position_indexes(s, u).migrated = s.migrated
          BY <4>1 DEF rebuild_position_indexes, PortfolioFields
        <4> QED
          BY <2>3, <3>1, <4>2 DEF MigrateOne, migrate_user
      <3>3. PortfolioOK(s) /\ s.positions = up.positions
        BY <1>11 DEF MigratedSoFar
      <3>4. PortfolioOK(t) /\ t.positions = up.positions /\ t.migration_queue = s.migration_queue
            /\ SameLots(s, t)
        BY Zenon, <3>1, <3>3, RebuildOK
      <3> QED
        BY <1>11, <2>1, <3>2, <3>4 DEF MigratedSoFar, SameLots
    <2> QED
      BY <2>2, <2>3
  <1>12. n \in Nat
    BY <1>3
  <1>13. MigratedSoFar(0, n, MigrationFold!Folded(0, up, order))
    BY <1>9, <1>10, <1>11, <1>12, MigrationFold!FoldInduction
  <1>14. PICK s : s = MigrationFold!Folded(0, up, order)
    OBVIOUS
  <1>15. FoldLeft(migrate_user, up, order) = s
    BY <1>14 DEF MigrationFold!Folded, MigrateOne, FoldLeft, MigrationFold!FoldLeft,
       MapThenFoldSet, MigrationFold!MapThenFoldSet, Max, MigrationFold!Max
  <1>16. up' = [s EXCEPT !.migration_queue = rest]
    BY Zenon, <1>2, <1>3, <1>4, <1>6, <1>8, <1>15 DEF migrate_batch
  <1>17. PortfolioOK(s) /\ SameLots(up, s)
    BY <1>13, <1>14 DEF MigratedSoFar
  <1>18. DOMAIN s = PortfolioFields /\ DOMAIN up' = PortfolioFields
    BY <1>16, <1>17 DEF PortfolioOK
  <1>19. /\ up'.legacy = s.legacy /\ up'.positions = s.positions /\ up'.ids = s.ids
         /\ up'.open = s.open /\ up'.closed = s.closed /\ up'.migrated = s.migrated
         /\ up'.migration_queue = rest
    BY <1>16, <1>18 DEF PortfolioFields
  <1>20. SameTags(s, up') /\ SameLots(s, up')
    BY <1>16, <1>18 DEF PortfolioFields, SameTags, SameLots
  <1>21. IdsOK(up') /\ ListsOK(up')
    <2>1. IdsOK(s) /\ ListsOK(s)
      BY <1>17 DEF PortfolioOK
    <2>2. IdsOK(up')
      BY Zenon, <1>5, <1>19, <2>1 DEF IdsOK
    <2>3. ListsOK(up')
      BY Zenon, <1>19, <2>1 DEF ListsOK, UserListsOK, OpenIds, ClosedIds
    <2> QED
      BY <2>2, <2>3
  <1> QED
    BY <1>17, <1>18, <1>20, <1>21, PositionsChange DEF SameLots

-----------------------------------------------------------------------------
\* Tags.

\* A call that changes tags only.
LEMMA TagsChange ==
    ASSUME NEW s, NEW t, PortfolioOK(s), DOMAIN t = PortfolioFields, SamePositions(s, t),
           SameLots(s, t), TagsOK(t)
    PROVE  PortfolioOK(t)
  <1>1. IdsOK(t) /\ ListsOK(t)
    BY SameKeepsPositions DEF PortfolioOK
  <1> QED
    BY <1>1 DEF PortfolioOK, LotsOK, SameLots

\* The portfolio with a position in no index of its owner.
WithoutTag(s, u, id) ==
    /\ DOMAIN s = PortfolioFields /\ SamePositions(up, s) /\ SameLots(up, s)
    /\ s.tags = up.tags /\ DOMAIN s.by_tag = Holders \X Tags
    /\ \A t \in Tags : ListOf(s.by_tag[<<u, t>>], Tagged(up, u, t) \ {id})
    /\ \A v \in Holders \ {u}, t \in Tags : s.by_tag[<<v, t>>] = up.by_tag[<<v, t>>]

\* A position without its tag: it is in no index of its owner.
LEMMA UnindexedDrops ==
    ASSUME PortfolioOK(up), NEW u \in Holders, NEW id
    PROVE  WithoutTag(unindexed(up, u, id), u, id)
  <1>1. DOMAIN up = PortfolioFields /\ TagsOK(up)
    BY DEF PortfolioOK
  <1>2. CASE id \notin DOMAIN up.tags[u]
    <2>1. unindexed(up, u, id) = up
      BY <1>2 DEF unindexed
    <2>2. \A t \in Tags : Tagged(up, u, t) \ {id} = Tagged(up, u, t)
      BY <1>2 DEF Tagged
    <2> QED
      BY Zenon, <1>1, <2>1, <2>2 DEF SamePositions, SameLots, TagsOK, WithoutTag
  <1>3. CASE id \in DOMAIN up.tags[u]
    <2>1. PICK g \in Tags : g = up.tags[u][id]
      BY <1>1, <1>3 DEF TagsOK
    <2>2. PICK s : s = [up EXCEPT !.by_tag[<<u, g>>] = Without(up.by_tag[<<u, g>>], id)]
      BY Zenon
    <2>3. unindexed(up, u, id) = s
      BY <1>3, <2>1, <2>2 DEF unindexed
    <2>4. DOMAIN s = PortfolioFields /\ SamePositions(up, s) /\ SameLots(up, s) /\ s.tags = up.tags
      BY <1>1, <2>2 DEF PortfolioFields, SamePositions, SameLots
    <2>5. s.by_tag = [up.by_tag EXCEPT ![<<u, g>>] = Without(up.by_tag[<<u, g>>], id)]
      BY <1>1, <2>2 DEF PortfolioFields
    <2>6. DOMAIN s.by_tag = Holders \X Tags /\ <<u, g>> \in Holders \X Tags
      BY <1>1, <2>5 DEF TagsOK
    <2>7. \A v \in Holders \ {u}, t \in Tags : s.by_tag[<<v, t>>] = up.by_tag[<<v, t>>]
      BY Zenon, <1>1, <2>5 DEF TagsOK
    <2>8. ASSUME NEW t \in Tags
          PROVE  ListOf(s.by_tag[<<u, t>>], Tagged(up, u, t) \ {id})
      <3>1. ListOf(up.by_tag[<<u, t>>], Tagged(up, u, t))
        BY <1>1 DEF TagsOK
      <3>2. CASE t = g
        <4>1. s.by_tag[<<u, t>>] = Without(up.by_tag[<<u, t>>], id)
          BY <1>1, <2>5, <2>6, <3>2 DEF TagsOK
        <4> QED
          BY <3>1, <4>1, WithoutDrops
      <3>3. CASE t # g
        <4>1. s.by_tag[<<u, t>>] = up.by_tag[<<u, t>>]
          BY <1>1, <2>5, <3>3 DEF TagsOK
        <4>2. Tagged(up, u, t) \ {id} = Tagged(up, u, t)
          BY <2>1, <3>3 DEF Tagged
        <4> QED
          BY <3>1, <4>1, <4>2
      <3> QED
        BY <3>2, <3>3
    <2> QED
      BY <2>3, <2>4, <2>6, <2>7, <2>8 DEF WithoutTag
  <1> QED
    BY <1>2, <1>3

\* tag_position keeps the indexes exact: the old tag is given up first.
LEMMA tag_position_OK ==
    ASSUME PortfolioOK(up), NEW u \in Holders, NEW id, NEW tag \in Tags, tag_position(u, id, tag)
    PROVE  PortfolioOK(up') /\ SameLots(up, up')
  <1>1. PICK s : s = unindexed(up, u, id) /\ WithoutTag(s, u, id)
    BY UnindexedDrops
  <1>2. /\ DOMAIN s = PortfolioFields /\ SamePositions(up, s) /\ SameLots(up, s)
        /\ s.tags = up.tags /\ DOMAIN s.by_tag = Holders \X Tags
    BY <1>1 DEF WithoutTag
  <1>3. \A t \in Tags : ListOf(s.by_tag[<<u, t>>], Tagged(up, u, t) \ {id})
    BY <1>1 DEF WithoutTag
  <1>4. \A v \in Holders \ {u}, t \in Tags : s.by_tag[<<v, t>>] = up.by_tag[<<v, t>>]
    BY Zenon, <1>1 DEF WithoutTag
  <1>5. up' = [s EXCEPT !.tags[u] = Put(s.tags[u], id, tag),
                        !.by_tag[<<u, tag>>] = AddOnce(s.by_tag[<<u, tag>>], id)]
    BY <1>1 DEF tag_position
  <1>6. DOMAIN up' = PortfolioFields /\ SamePositions(up, up') /\ SameLots(up, up')
    BY <1>2, <1>5 DEF PortfolioFields, SamePositions, SameLots
  <1>7. /\ up'.tags = [up.tags EXCEPT ![u] = Put(up.tags[u], id, tag)]
        /\ up'.by_tag = [s.by_tag EXCEPT ![<<u, tag>>] = AddOnce(s.by_tag[<<u, tag>>], id)]
    BY <1>2, <1>5 DEF PortfolioFields
  <1>8. TagsOK(up)
    BY DEF PortfolioOK
  <1>9. /\ DOMAIN up'.tags = Holders /\ DOMAIN up'.by_tag = Holders \X Tags
        /\ up'.tags[u] = Put(up.tags[u], id, tag)
        /\ \A v \in Holders \ {u} : up'.tags[v] = up.tags[v]
    BY <1>2, <1>7, <1>8 DEF TagsOK
  <1>10. /\ DOMAIN up'.tags[u] = DOMAIN up.tags[u] \cup {id} /\ up'.tags[u][id] = tag
         /\ \A k \in DOMAIN up.tags[u] \ {id} : up'.tags[u][k] = up.tags[u][k]
    BY <1>9 DEF Put
  <1>11. \A v \in Holders : \A k \in DOMAIN up'.tags[v] : up'.tags[v][k] \in Tags
    BY <1>8, <1>9, <1>10 DEF TagsOK
  <1>12. ASSUME NEW v \in Holders, NEW t \in Tags
         PROVE  ListOf(up'.by_tag[<<v, t>>], Tagged(up', v, t))
    <2>1. CASE v # u
      <3>1. up'.by_tag[<<v, t>>] = up.by_tag[<<v, t>>]
        BY <1>2, <1>4, <1>7, <2>1
      <3>2. Tagged(up', v, t) = Tagged(up, v, t)
        BY <1>9, <2>1 DEF Tagged
      <3> QED
        BY <1>8, <3>1, <3>2 DEF TagsOK
    <2>2. CASE v = u /\ t = tag
      <3>1. up'.by_tag[<<u, tag>>] = AddOnce(s.by_tag[<<u, tag>>], id)
        BY <1>2, <1>7
      <3>2. Tagged(up', u, tag) = (Tagged(up, u, tag) \ {id}) \cup {id}
        BY <1>10 DEF Tagged
      <3>3. ListOf(s.by_tag[<<u, tag>>], Tagged(up, u, tag) \ {id})
        BY <1>3
      <3>4. ListOf(AddOnce(s.by_tag[<<u, tag>>], id), (Tagged(up, u, tag) \ {id}) \cup {id})
        BY <3>3, AddsOnce
      <3> QED
        BY <2>2, <3>1, <3>2, <3>4
    <2>3. CASE v = u /\ t # tag
      <3>1. up'.by_tag[<<u, t>>] = s.by_tag[<<u, t>>]
        BY <1>2, <1>7, <2>3
      <3>2. Tagged(up', u, t) = Tagged(up, u, t) \ {id}
        BY <1>10, <2>3 DEF Tagged
      <3> QED
        BY <1>3, <2>3, <3>1, <3>2
    <2> QED
      BY <2>1, <2>2, <2>3
  <1>13. TagsOK(up')
    BY <1>9, <1>11, <1>12 DEF TagsOK
  <1> QED
    BY <1>6, <1>13, TagsChange

\* untag_position keeps the indexes exact.
LEMMA untag_position_OK ==
    ASSUME PortfolioOK(up), NEW u \in Holders, NEW id, untag_position(u, id)
    PROVE  PortfolioOK(up') /\ SameLots(up, up')
  <1>1. PICK s : s = unindexed(up, u, id) /\ WithoutTag(s, u, id)
    BY UnindexedDrops
  <1>2. /\ DOMAIN s = PortfolioFields /\ SamePositions(up, s) /\ SameLots(up, s)
        /\ s.tags = up.tags /\ DOMAIN s.by_tag = Holders \X Tags
    BY <1>1 DEF WithoutTag
  <1>3. \A t \in Tags : ListOf(s.by_tag[<<u, t>>], Tagged(up, u, t) \ {id})
    BY <1>1 DEF WithoutTag
  <1>4. \A v \in Holders \ {u}, t \in Tags : s.by_tag[<<v, t>>] = up.by_tag[<<v, t>>]
    BY Zenon, <1>1 DEF WithoutTag
  <1>5. up' = [s EXCEPT !.tags[u] = Drop(s.tags[u], id)]
    BY <1>1 DEF untag_position
  <1>6. DOMAIN up' = PortfolioFields /\ SamePositions(up, up') /\ SameLots(up, up')
    BY <1>2, <1>5 DEF PortfolioFields, SamePositions, SameLots
  <1>7. up'.tags = [up.tags EXCEPT ![u] = Drop(up.tags[u], id)] /\ up'.by_tag = s.by_tag
    BY <1>2, <1>5 DEF PortfolioFields
  <1>8. TagsOK(up)
    BY DEF PortfolioOK
  <1>9. /\ DOMAIN up'.tags = Holders /\ DOMAIN up'.by_tag = Holders \X Tags
        /\ up'.tags[u] = Drop(up.tags[u], id)
        /\ \A v \in Holders \ {u} : up'.tags[v] = up.tags[v]
    BY <1>2, <1>7, <1>8 DEF TagsOK
  <1>10. /\ DOMAIN up'.tags[u] = DOMAIN up.tags[u] \ {id}
         /\ \A k \in DOMAIN up.tags[u] \ {id} : up'.tags[u][k] = up.tags[u][k]
    BY <1>9 DEF Drop
  <1>11. \A v \in Holders : \A k \in DOMAIN up'.tags[v] : up'.tags[v][k] \in Tags
    BY <1>8, <1>9, <1>10 DEF TagsOK
  <1>12. ASSUME NEW v \in Holders, NEW t \in Tags
         PROVE  ListOf(up'.by_tag[<<v, t>>], Tagged(up', v, t))
    <2>1. CASE v # u
      <3>1. up'.by_tag[<<v, t>>] = up.by_tag[<<v, t>>]
        BY <1>4, <1>7, <2>1
      <3>2. Tagged(up', v, t) = Tagged(up, v, t)
        BY <1>9, <2>1 DEF Tagged
      <3> QED
        BY <1>8, <3>1, <3>2 DEF TagsOK
    <2>2. CASE v = u
      <3>1. Tagged(up', u, t) = Tagged(up, u, t) \ {id}
        BY <1>10 DEF Tagged
      <3> QED
        BY <1>3, <1>7, <2>2, <3>1
    <2> QED
      BY <2>1, <2>2
  <1>13. TagsOK(up')
    BY <1>9, <1>11, <1>12 DEF TagsOK
  <1> QED
    BY <1>6, <1>13, TagsChange

-----------------------------------------------------------------------------
\* Lots.

AddUp(e, sum, fill) == sum + fill
SumIsInt(e, n, sum) == sum \in Int
SumFold == INSTANCE FoldTheorems WITH Op <- AddUp, P <- SumIsInt

\* What nothing adds up to.
LEMMA SumOfNone == SumSeq(<<>>) = 0
  <1>1. SumFold!Folded(0, 0, <<>>) = 0
    BY SumFold!FoldEmpty
  <1>2. SumFold!Folded(0, 0, <<>>) = SumSeq(<<>>)
    BY DEF SumFold!Folded, SumSeq, AddUp, FoldLeft, SumFold!FoldLeft, MapThenFoldSet,
       SumFold!MapThenFoldSet, Max, SumFold!Max
  <1> QED
    BY <1>1, <1>2

\* One number more.
LEMMA SumOfAppended ==
    ASSUME NEW s \in Seq(Int), NEW f \in Int
    PROVE  SumSeq(Append(s, f)) = SumSeq(s) + f
  <1>1. PICK r : r = Append(s, f)
    BY Zenon
  <1>2. PICK len \in Nat : len = Len(s)
    OBVIOUS
  <1>3. /\ DOMAIN s = 1..len /\ DOMAIN r = 1..(len + 1)
        /\ r[len + 1] = f /\ \A i \in 1..len : r[i] = s[i]
    BY <1>1, <1>2
  <1>4. SumFold!Folded(0, 0, r) = AddUp(0, SumFold!Folded(0, 0, s), r[len + 1])
    BY <1>3, SumFold!FoldAppends
  <1>5. /\ SumFold!Folded(0, 0, s) = SumSeq(s)
        /\ SumFold!Folded(0, 0, Append(s, f)) = SumSeq(Append(s, f))
    BY DEF SumFold!Folded, SumSeq, AddUp, FoldLeft, SumFold!FoldLeft, MapThenFoldSet,
       SumFold!MapThenFoldSet, Max, SumFold!Max
  <1> QED
    BY <1>1, <1>4, <1>5, <1>3 DEF AddUp

\* Sums of numbers are numbers.
LEMMA AmountsSum ==
    ASSUME NEW s \in Seq(Int)
    PROVE  SumSeq(s) \in Int
  <1>1. PICK len \in Nat : len = Len(s) /\ DOMAIN s = 1..len
    OBVIOUS
  <1>2. SumIsInt(0, 0, 0)
    BY DEF SumIsInt
  <1>3. \A i \in 1..len : \A sum : SumIsInt(0, i - 1, sum) => SumIsInt(0, i, AddUp(0, sum, s[i]))
    BY <1>1 DEF SumIsInt, AddUp
  <1>4. SumIsInt(0, len, SumFold!Folded(0, 0, s))
    BY <1>1, <1>2, <1>3, SumFold!FoldInduction
  <1>5. SumFold!Folded(0, 0, s) = SumSeq(s)
    BY DEF SumFold!Folded, SumSeq, AddUp, FoldLeft, SumFold!FoldLeft, MapThenFoldSet,
       SumFold!MapThenFoldSet, Max, SumFold!Max
  <1> QED
    BY <1>4, <1>5 DEF SumIsInt

\* The amounts of lots.
Amounts(lots) == [i \in DOMAIN lots |-> lots[i].amount]

\* One lot more.
LEMMA HeldOfAppended ==
    ASSUME NEW s \in Seq(Lot), NEW lot \in Lot
    PROVE  amount_of(s) \in Int /\ amount_of(Append(s, lot)) = amount_of(s) + lot.amount
  <1>1. PICK r : r = Append(s, lot)
    BY Zenon
  <1>2. PICK len \in Nat : len = Len(s) /\ DOMAIN s = 1..len
    OBVIOUS
  <1>3. /\ r \in Seq(Lot) /\ Len(r) = len + 1 /\ DOMAIN r = 1..(len + 1)
        /\ r[len + 1] = lot /\ \A i \in 1..len : r[i] = s[i]
    BY <1>1, <1>2
  <1>4. \A i \in 1..len : s[i].amount \in Int
    <2>1. \A i \in 1..len : s[i] \in Lot
      BY <1>2
    <2> QED
      BY <2>1 DEF Lot
  <1>5. lot.amount \in Int
    BY DEF Lot
  <1>6. PICK as \in Seq(Int) : as = Amounts(s) /\ Len(as) = len /\ \A i \in 1..len : as[i] = s[i].amount
    <2>1. Amounts(s) = [i \in 1..len |-> s[i].amount]
      BY <1>2 DEF Amounts
    <2>2. Amounts(s) \in [1..len -> Int]
      BY <1>4, <2>1
    <2>3. Amounts(s) \in Seq(Int) /\ Len(Amounts(s)) = len
      BY <2>2
    <2> QED
      BY <2>1, <2>3
  <1>11. PICK bs : bs = Append(as, lot.amount)
    BY Zenon
  <1>12. bs \in Seq(Int) /\ Len(bs) = len + 1
    BY <1>5, <1>6, <1>11, AppendProperties
  <1>13. DOMAIN bs = 1..(len + 1) /\ bs \in [1..(len + 1) -> Int]
    BY <1>12, LenProperties
  <1>7. bs[len + 1] = lot.amount /\ \A i \in 1..len : bs[i] = as[i]
    BY <1>5, <1>6, <1>11, AppendProperties
  <1>8. Amounts(r) = bs
    <2>1. Amounts(r) = [i \in 1..(len + 1) |-> r[i].amount]
      BY <1>3 DEF Amounts
    <2>3. \A i \in 1..(len + 1) : bs[i] = r[i].amount
      <3> SUFFICES ASSUME NEW i \in 1..(len + 1)
                   PROVE  bs[i] = r[i].amount
        OBVIOUS
      <3>1. i = len + 1 \/ i \in 1..len
        OBVIOUS
      <3> QED
        BY <1>3, <1>6, <1>7, <3>1
    <2>4. bs = [i \in 1..(len + 1) |-> bs[i]]
      BY <1>13
    <2> QED
      BY <2>1, <2>3, <2>4
  <1>9. amount_of(s) = SumSeq(as) /\ amount_of(r) = SumSeq(bs)
    BY <1>6, <1>8 DEF amount_of, Amounts
  <1>10. SumSeq(bs) = SumSeq(as) + lot.amount /\ SumSeq(as) \in Int
    BY <1>5, <1>6, <1>11, SumOfAppended, AmountsSum
  <1> QED
    BY <1>1, <1>9, <1>10

\* No lots hold nothing.
LEMMA HeldOfNone == amount_of(<<>>) = 0
  <1>1. [i \in DOMAIN <<>> |-> <<>>[i].amount] = <<>>
    OBVIOUS
  <1> QED
    BY <1>1, SumOfNone DEF amount_of

\* The first n lots.
FirstLots(e, n) == [i \in 1..n |-> e.lots[i]]

\* After n lots of a close: until the amount is used up nothing is kept, then the rest of
\* one lot and all younger ones.  What was taken and what is kept add up.
LotsSoFar(e, n, run) ==
    /\ run.left \in Nat
    /\ run.kept \in Seq(Lot) /\ Len(run.kept) <= n
    /\ run.left > 0 => run.kept = <<>>
    /\ \A i \in 2..Len(run.kept) : run.kept[i] = e.lots[(n - Len(run.kept)) + i]
    /\ \A i \in 1..Len(run.kept) :
           run.kept[i].entry_price = e.lots[(n - Len(run.kept)) + i].entry_price
    /\ amount_of(run.kept) + e.amount = amount_of(FirstLots(e, n)) + run.left
ConsumeOne(e, run, lot) == consume_lot(e.price, run, lot)
LotFold == INSTANCE FoldTheorems WITH Op <- ConsumeOne, P <- LotsSoFar

\* One lot of a close.
LEMMA ConsumeOneKeeps ==
    ASSUME NEW e, NEW n \in Nat \ {0}, NEW run, LotsSoFar(e, n - 1, run), NEW lot \in Lot, lot = e.lots[n],
           e.amount \in Int, FirstLots(e, n - 1) \in Seq(Lot),
           FirstLots(e, n) = Append(FirstLots(e, n - 1), lot)
    PROVE  LotsSoFar(e, n, ConsumeOne(e, run, lot))
  <1>1. PICK amount \in Nat \ {0} : amount = lot.amount
    BY DEF Lot
  <1>2. PICK rest \in Nat : rest = run.left
    BY DEF LotsSoFar
  <1>3. PICK kept \in Seq(Lot) : kept = run.kept
    BY DEF LotsSoFar
  <1>4. PICK k \in Nat : k = Len(kept) /\ k <= n - 1
    BY <1>3 DEF LotsSoFar
  <1>5. PICK used \in Nat : used = IF amount <= rest THEN amount ELSE rest
    OBVIOUS
  <1>6. PICK t : t = ConsumeOne(e, run, lot)
    OBVIOUS
  <1>7. /\ t.left = rest - used
        /\ t.kept = IF used = amount THEN kept ELSE Append(kept, [lot EXCEPT !.amount = amount - used])
    BY <1>1, <1>2, <1>3, <1>5, <1>6 DEF ConsumeOne, consume_lot
  <1>8. \A i \in 2..k : kept[i] = e.lots[((n - 1) - k) + i]
    BY Zenon, <1>3, <1>4 DEF LotsSoFar
  <1>9. rest > 0 => kept = <<>>
    BY <1>2, <1>3 DEF LotsSoFar
  <1>12. \A i \in 1..k : kept[i].entry_price = e.lots[((n - 1) - k) + i].entry_price
    BY Zenon, <1>3, <1>4 DEF LotsSoFar
  <1>13. PICK asked \in Int, before \in Int, stay \in Int :
            /\ asked = e.amount /\ before = amount_of(FirstLots(e, n - 1)) /\ stay = amount_of(kept)
            /\ stay + asked = before + rest
    <2>1. amount_of(FirstLots(e, n - 1)) \in Int /\ amount_of(kept) \in Int
      BY <1>3, HeldOfAppended
    <2>2. amount_of(run.kept) + e.amount = amount_of(FirstLots(e, n - 1)) + run.left
      BY Zenon DEF LotsSoFar
    <2> QED
      BY <1>2, <1>3, <2>1, <2>2
  <1>14. amount_of(FirstLots(e, n)) = before + amount
    <2>1. amount_of(Append(FirstLots(e, n - 1), lot)) = amount_of(FirstLots(e, n - 1)) + lot.amount
      BY HeldOfAppended
    <2> QED
      BY <1>1, <1>13, <2>1
  <1>10. CASE used = amount
    <2>1. rest > 0 /\ kept = <<>> /\ t.kept = <<>> /\ t.left \in Nat
      BY <1>5, <1>7, <1>9, <1>10
    <2>2. Len(t.kept) = 0 /\ t.kept \in Seq(Lot)
      BY <2>1
    <2>3. amount_of(t.kept) + e.amount = amount_of(FirstLots(e, n)) + t.left
      <3>1. amount_of(t.kept) = stay
        BY <1>13, <2>1
      <3> QED
        BY <1>7, <1>10, <1>13, <1>14, <3>1
    <2> QED
      BY <1>6, <2>1, <2>2, <2>3 DEF LotsSoFar
  <1>11. CASE used # amount
    <2>1. used = rest /\ used < amount /\ t.left = 0
      BY <1>5, <1>7, <1>11
    <2>2. PICK last : last = [lot EXCEPT !.amount = amount - used]
      BY Zenon
    <2>3. last \in Lot
      <3>1. amount - used \in Nat \ {0}
        BY <2>1
      <3> QED
        BY Zenon, <2>2, <3>1 DEF Lot
    <2>4. t.kept = Append(kept, last)
      BY <1>7, <1>11, <2>2
    <2>5. t.kept \in Seq(Lot) /\ Len(t.kept) = k + 1 /\ t.kept[k + 1] = last
          /\ \A i \in 1..k : t.kept[i] = kept[i]
      BY <1>3, <1>4, <2>3, <2>4
    <2>6. \A i \in 2..(k + 1) : t.kept[i] = e.lots[(n - (k + 1)) + i]
      <3> SUFFICES ASSUME NEW i \in 2..(k + 1)
                   PROVE  t.kept[i] = e.lots[(n - (k + 1)) + i]
        OBVIOUS
      <3>1. CASE i = k + 1
        <4>1. k # 0 /\ kept # <<>>
          BY <1>3, <1>4, <3>1
        <4>2. rest = 0 /\ used = 0
          BY <1>9, <2>1, <4>1
        <4>3. last = lot
          <5>1. last = [lot EXCEPT !.amount = lot.amount]
            BY <1>1, <2>2, <4>2
          <5> QED
            BY Zenon, <5>1 DEF Lot
        <4>4. (n - (k + 1)) + i = n
          BY <1>4, <3>1
        <4> QED
          BY <2>5, <3>1, <4>3, <4>4
      <3>2. CASE i # k + 1
        <4>1. i \in 2..k /\ i \in 1..k /\ (n - (k + 1)) + i = ((n - 1) - k) + i
          BY <1>4, <3>2
        <4> QED
          BY <1>8, <2>5, <4>1
      <3> QED
        BY <3>1, <3>2
    <2>7. k + 1 <= n
      BY <1>4
    <2>8. \A i \in 1..(k + 1) : t.kept[i].entry_price = e.lots[(n - (k + 1)) + i].entry_price
      <3> SUFFICES ASSUME NEW i \in 1..(k + 1)
                   PROVE  t.kept[i].entry_price = e.lots[(n - (k + 1)) + i].entry_price
        OBVIOUS
      <3>1. CASE i = k + 1
        <4>1. last.entry_price = lot.entry_price
          BY <2>2 DEF Lot
        <4>2. (n - (k + 1)) + i = n
          BY <1>4, <3>1
        <4> QED
          BY <2>5, <3>1, <4>1, <4>2
      <3>2. CASE i # k + 1
        <4>1. i \in 1..k /\ (n - (k + 1)) + i = ((n - 1) - k) + i
          BY <1>4, <3>2
        <4> QED
          BY <1>12, <2>5, <4>1
      <3> QED
        BY <3>1, <3>2
    <2>9. amount_of(t.kept) + e.amount = amount_of(FirstLots(e, n)) + t.left
      <3>1. amount_of(t.kept) = amount_of(kept) + last.amount
        BY <1>3, <2>3, <2>4, HeldOfAppended
      <3>2. last.amount = amount - used
        BY <2>2 DEF Lot
      <3>3. amount_of(t.kept) = stay + (amount - used)
        BY <1>13, <3>1, <3>2
      <3>4. (stay + (amount - used)) + asked = (before + amount) + 0
        <4>1. stay + asked = before + used
          BY <1>13, <2>1
        <4> QED
          BY <4>1
      <3> QED
        BY <1>13, <1>14, <2>1, <3>3, <3>4
    <2> QED
      BY <1>6, <2>1, <2>5, <2>6, <2>7, <2>8, <2>9 DEF LotsSoFar
  <1> QED
    BY <1>10, <1>11

\* What one step may do to the lots of a user.
LotsStep(old, new) ==
    \/ Len(new) = Len(old) + 1 /\ SubSeq(new, 1, Len(old)) = old
    \/ \A i \in DOMAIN new :
           /\ new[i].amount > 0
           /\ new[i].entry_price = old[Len(old) - Len(new) + i].entry_price
           /\ i > 1 => new[i] = old[Len(old) - Len(new) + i]

\* Lots that stay.
LEMMA LotsStay ==
    ASSUME NEW list \in Seq(Lot)
    PROVE  LotsStep(list, list)
  <1>1. \A i \in DOMAIN list : list[i] \in Lot /\ i \in Int
    OBVIOUS
  <1>2. \A i \in DOMAIN list : Len(list) - Len(list) + i = i
    BY <1>1
  <1> QED
    BY <1>1, <1>2 DEF LotsStep, Lot

\* A close takes the oldest lots first, and what was asked for.
LEMMA close_fifo_OK ==
    ASSUME PortfolioOK(up), NEW u \in Holders, NEW amount \in Int, NEW price, close_fifo(u, amount, price)
    PROVE  /\ PortfolioOK(up') /\ \A v \in Holders : LotsStep(up.lots[v], up'.lots[v])
           /\ amount_of(up'.lots[u]) = amount_of(up.lots[u]) - amount
  <1>1. DOMAIN up = PortfolioFields /\ up.lots \in [Holders -> Seq(Lot)]
    BY DEF PortfolioOK, LotsOK
  <1>2. PICK old \in Seq(Lot) : old = up.lots[u]
    BY <1>1
  <1>3. PICK len \in Nat : len = Len(old) /\ DOMAIN old = 1..len
    BY <1>2
  <1>4. PICK e : e = [lots |-> old, price |-> price, amount |-> amount]
    BY Zenon
  <1>5. e.lots = old /\ e.price = price /\ e.amount = amount
    BY <1>4
  <1>6. PICK base : base = [left |-> amount, pnl |-> 0, kept |-> <<>>]
    BY Zenon
  <1>7. LotsSoFar(e, 0, base)
    <2>1. amount > 0
      BY Zenon DEF close_fifo
    <2>2. base.left = amount /\ base.kept = <<>> /\ <<>> \in Seq(Lot) /\ Len(<<>>) = 0
      BY <1>6
    <2>3. FirstLots(e, 0) = <<>>
      BY DEF FirstLots
    <2>4. amount_of(base.kept) + e.amount = amount_of(FirstLots(e, 0)) + base.left
      BY <1>5, <2>2, <2>3
    <2> QED
      BY <2>1, <2>2, <2>4 DEF LotsSoFar
  <1>8. ASSUME NEW i \in 1..len, NEW run, LotsSoFar(e, i - 1, run)
        PROVE  LotsSoFar(e, i, ConsumeOne(e, run, old[i]))
    <2>1. old[i] \in Lot /\ i \in Nat \ {0} /\ old[i] = e.lots[i]
      BY <1>2, <1>3, <1>5
    <2>2. PICK part : part = FirstLots(e, i - 1)
      OBVIOUS
    <2>3. part = [j \in 1..(i - 1) |-> old[j]] /\ \A j \in 1..(i - 1) : old[j] \in Lot
      BY <1>2, <1>3, <1>5, <2>2 DEF FirstLots
    <2>4. part \in Seq(Lot) /\ Len(part) = i - 1
      <3>1. i - 1 \in Nat /\ part \in [1..(i - 1) -> Lot]
        BY <2>3
      <3> QED
        BY <3>1
    <2>5. FirstLots(e, i) = Append(part, old[i])
      <3>1. FirstLots(e, i) = [j \in 1..i |-> old[j]]
        BY <1>5 DEF FirstLots
      <3>2. PICK more : more = Append(part, old[i])
        BY Zenon
      <3>3. more \in Seq(Lot) /\ Len(more) = i /\ more[i] = old[i]
            /\ \A j \in 1..(i - 1) : more[j] = part[j]
        BY <2>1, <2>4, <3>2, AppendProperties
      <3>4. DOMAIN more = 1..i /\ more \in [1..i -> Lot]
        BY <3>3, LenProperties
      <3>5. \A j \in 1..i : more[j] = old[j]
        <4> SUFFICES ASSUME NEW j \in 1..i
                     PROVE  more[j] = old[j]
          OBVIOUS
        <4>1. j = i \/ j \in 1..(i - 1)
          OBVIOUS
        <4> QED
          BY <2>3, <3>3, <4>1
      <3>6. more = [j \in 1..i |-> more[j]]
        BY <3>4
      <3> QED
        BY <3>1, <3>2, <3>5, <3>6
    <2> QED
      BY <1>5, <1>8, <2>1, <2>2, <2>4, <2>5, ConsumeOneKeeps
  <1>9. LotsSoFar(e, len, LotFold!Folded(e, base, old))
    BY <1>3, <1>7, <1>8, LotFold!FoldInduction
  <1>10. PICK run : run = LotFold!Folded(e, base, old)
    OBVIOUS
  <1>11. run = FoldLeft(LAMBDA r, lot : consume_lot(price, r, lot), base, old)
    BY <1>5, <1>10 DEF LotFold!Folded, ConsumeOne, FoldLeft, LotFold!FoldLeft,
       MapThenFoldSet, LotFold!MapThenFoldSet, Max, LotFold!Max
  <1>12. up' = [up EXCEPT !.lots[u] = run.kept, !.fifo_pnl[u] = @ + run.pnl]
    BY Zenon, <1>2, <1>6, <1>11 DEF close_fifo
  <1>13. /\ DOMAIN up' = PortfolioFields /\ SamePositions(up, up') /\ SameTags(up, up')
         /\ up'.lots = [up.lots EXCEPT ![u] = run.kept]
    BY <1>1, <1>12 DEF PortfolioFields, SamePositions, SameTags
  <1>14. PICK new \in Seq(Lot) :
         /\ new = run.kept /\ Len(new) <= len
         /\ \A i \in 2..Len(new) : new[i] = old[(len - Len(new)) + i]
         /\ \A i \in 1..Len(new) : new[i].entry_price = old[(len - Len(new)) + i].entry_price
         /\ amount_of(new) + amount = amount_of(FirstLots(e, len)) + run.left
    BY Zenon, <1>5, <1>9, <1>10 DEF LotsSoFar
  <1>19. amount_of(new) = amount_of(old) - amount
    <2>1. run.left = 0
      BY Zenon, <1>2, <1>6, <1>11 DEF close_fifo
    <2>2. FirstLots(e, len) = old
      <3>1. FirstLots(e, len) = [i \in 1..len |-> old[i]]
        BY <1>5 DEF FirstLots
      <3> QED
        BY <1>2, <1>3, <3>1
    <2>3. amount_of(new) \in Int /\ amount_of(old) \in Int
      <3>1. PICK lot : lot = [entry_price |-> 0, amount |-> 1]
        BY Zenon
      <3>2. lot \in Lot
        BY <3>1 DEF Lot
      <3> QED
        BY <1>2, <1>14, <3>2, HeldOfAppended
    <2> QED
      BY <1>14, <2>1, <2>2, <2>3
  <1>15. LotsStep(old, new)
    <2>1. \A i \in DOMAIN new : new[i] \in Lot
      BY <1>14
    <2>2. \A i \in DOMAIN new : i \in Int /\ (i > 1 => i \in 2..Len(new))
      BY <1>14
    <2>3. \A i \in DOMAIN new : new[i].amount > 0
      BY <2>1 DEF Lot
    <2>4. \A i \in DOMAIN new : i > 1 => new[i] = old[Len(old) - Len(new) + i]
      BY Zenon, <1>3, <1>14, <2>2
    <2>5. DOMAIN new = 1..Len(new)
      BY <1>14
    <2>6. \A i \in DOMAIN new : new[i].entry_price = old[Len(old) - Len(new) + i].entry_price
      BY Zenon, <1>3, <1>14, <2>5
    <2> QED
      BY Zenon, <2>3, <2>4, <2>6 DEF LotsStep
  <1>16. up'.lots \in [Holders -> Seq(Lot)] /\ up'.lots[u] = new
         /\ \A v \in Holders \ {u} : up'.lots[v] = up.lots[v]
    BY <1>1, <1>13, <1>14
  <1>17. PortfolioOK(up')
    <2>1. IdsOK(up') /\ ListsOK(up')
      BY <1>13, SameKeepsPositions DEF PortfolioOK
    <2>2. TagsOK(up')
      BY <1>13, SameKeepsTags DEF PortfolioOK
    <2> QED
      BY <1>13, <1>16, <2>1, <2>2 DEF PortfolioOK, LotsOK
  <1>18. \A v \in Holders : LotsStep(up.lots[v], up'.lots[v])
    <2> SUFFICES ASSUME NEW v \in Holders
                 PROVE  LotsStep(up.lots[v], up'.lots[v])
      OBVIOUS
    <2>1. CASE v = u
      BY <1>2, <1>15, <1>16, <2>1
    <2>2. CASE v # u
      BY <1>1, <1>16, <2>2, LotsStay
    <2> QED
      BY <2>1, <2>2
  <1> QED
    BY <1>2, <1>16, <1>17, <1>18, <1>19

\* A new lot is the youngest.
LEMMA add_cost_lot_OK ==
    ASSUME PortfolioOK(up), NEW u \in Holders, NEW lot \in PositionInputs, add_cost_lot(u, lot)
    PROVE  PortfolioOK(up') /\ \A v \in Holders : LotsStep(up.lots[v], up'.lots[v])
  <1>1. DOMAIN up = PortfolioFields /\ up.lots \in [Holders -> Seq(Lot)]
    BY DEF PortfolioOK, LotsOK
  <1>2. lot \in Lot
    <2>1. lot \in [entry_price : Int, amount : Int] /\ lot.amount > 0
      BY PortfolioConstants DEF add_cost_lot
    <2> QED
      BY <2>1 DEF Lot
  <1>3. PICK old \in Seq(Lot) : old = up.lots[u]
    BY <1>1
  <1>4. /\ DOMAIN up' = PortfolioFields /\ SamePositions(up, up') /\ SameTags(up, up')
        /\ up'.lots = [up.lots EXCEPT ![u] = Append(old, lot)]
    <2>1. up' = [up EXCEPT !.lots[u] = Append(old, lot)]
      BY <1>3 DEF add_cost_lot
    <2> QED
      BY <1>1, <2>1 DEF PortfolioFields, SamePositions, SameTags
  <1>5. PICK new \in Seq(Lot) : new = Append(old, lot)
    <2>1. Append(old, lot) \in Seq(Lot)
      BY <1>2, <1>3, AppendProperties
    <2> QED
      BY Zenon, <2>1
  <1>6. LotsStep(old, new)
    <2>1. Len(new) = Len(old) + 1 /\ \A i \in 1..Len(old) : new[i] = old[i]
      BY <1>3, <1>5
    <2>2. PICK part : part = SubSeq(new, 1, Len(old))
      BY Zenon
    <2>3. part \in Seq(Lot) /\ Len(part) = Len(old) /\ \A i \in 1..Len(old) : part[i] = new[i]
      <3>1. Len(old) \in Nat /\ Len(old) <= Len(new) /\ 1 <= Len(old) + 1 /\ 1 \in Nat \ {0}
            /\ (Len(old) - 1) + 1 = Len(old) /\ \A i \in 1..Len(old) : (1 + i) - 1 = i
        BY <1>3, <2>1
      <3> QED
        BY <1>5, <2>2, <3>1, Part
    <2>4. part = old
      BY <1>3, <2>1, <2>3
    <2> QED
      BY <2>1, <2>2, <2>4 DEF LotsStep
  <1>7. up'.lots \in [Holders -> Seq(Lot)] /\ up'.lots[u] = new
        /\ \A v \in Holders \ {u} : up'.lots[v] = up.lots[v]
    BY <1>1, <1>4, <1>5
  <1>8. PortfolioOK(up')
    <2>1. IdsOK(up') /\ ListsOK(up')
      BY <1>4, SameKeepsPositions DEF PortfolioOK
    <2>2. TagsOK(up')
      BY <1>4, SameKeepsTags DEF PortfolioOK
    <2> QED
      BY <1>4, <1>7, <2>1, <2>2 DEF PortfolioOK, LotsOK
  <1>9. \A v \in Holders : LotsStep(up.lots[v], up'.lots[v])
    <2> SUFFICES ASSUME NEW v \in Holders
                 PROVE  LotsStep(up.lots[v], up'.lots[v])
      OBVIOUS
    <2>1. CASE v = u
      BY <1>3, <1>6, <1>7, <2>1
    <2>2. CASE v # u
      BY <1>1, <1>7, <2>2, LotsStay
    <2> QED
      BY <2>1, <2>2
  <1> QED
    BY <1>8, <1>9

-----------------------------------------------------------------------------
\* The other calls leave positions, tags and lots alone.

\* A step that replaces other fields of the record.
LEMMA QuietOK ==
    ASSUME PortfolioOK(up), SameRecords(up, up')
    PROVE  PortfolioOK(up') /\ SameLots(up, up')
  BY SameKeeps DEF SameRecords

\* Caps and subscriptions.
LEMMA CapsQuiet ==
    ASSUME PortfolioOK(up), NEW u, NEW a, NEW c,
           \/ set_asset_exposure_cap(u, a, c) \/ remove_asset_exposure_cap(u, a)
           \/ set_provider_subscription_terms(u, c) \/ subscribe_to_provider(u, a, c)
    PROVE  SameRecords(up, up')
  <1>1. DOMAIN up = PortfolioFields
    BY DEF PortfolioOK
  <1>2. CASE set_asset_exposure_cap(u, a, c)
    BY <1>1, <1>2 DEF set_asset_exposure_cap, PortfolioFields, SameRecords, SamePositions, SameTags, SameLots
  <1>3. CASE remove_asset_exposure_cap(u, a)
    BY <1>1, <1>3 DEF remove_asset_exposure_cap, PortfolioFields, SameRecords, SamePositions, SameTags, SameLots
  <1>4. CASE set_provider_subscription_terms(u, c)
    BY <1>1, <1>4 DEF set_provider_subscription_terms, PortfolioFields, SameRecords, SamePositions, SameTags, SameLots
  <1>5. CASE subscribe_to_provider(u, a, c)
    BY <1>1, <1>5 DEF subscribe_to_provider, PortfolioFields, SameRecords, SamePositions, SameTags, SameLots
  <1> QED
    BY <1>2, <1>3, <1>4, <1>5

\* Switches, preferences and snapshots.
LEMMA SwitchesQuiet ==
    ASSUME PortfolioOK(up), SwitchboardStep
    PROVE  SameRecords(up, up')
  <1>1. DOMAIN up = PortfolioFields
    BY DEF PortfolioOK
  <1> USE DEF PortfolioFields, SameRecords, SamePositions, SameTags, SameLots
  <1>2. ASSUME NEW u \in Holders, NEW on \in BOOLEAN,
               \/ set_kyc_status(u, on) \/ set_user_restriction(u, on)
               \/ set_kyc_required_mode(on) \/ set_notification_preferences(u, on)
               \/ set_trading_style(u, on)
        PROVE  SameRecords(up, up')
    <2>1. CASE set_kyc_status(u, on)
      BY <1>1, <2>1 DEF set_kyc_status
    <2>2. CASE set_user_restriction(u, on)
      BY <1>1, <2>2 DEF set_user_restriction
    <2>3. CASE set_kyc_required_mode(on)
      BY <1>1, <2>3 DEF set_kyc_required_mode
    <2>4. CASE set_notification_preferences(u, on)
      BY <1>1, <2>4 DEF set_notification_preferences
    <2>5. CASE set_trading_style(u, on)
      BY <1>1, <2>5 DEF set_trading_style
    <2> QED
      BY <1>2, <2>1, <2>2, <2>3, <2>4, <2>5
  <1>3. ASSUME NEW u \in Holders, update_onboarding_status(u, "Completed")
        PROVE  SameRecords(up, up')
    BY <1>1, <1>3 DEF update_onboarding_status
  <1>4. ASSUME NEW u \in Holders, take_snapshot(u)
        PROVE  SameRecords(up, up')
    <2>1. PICK x : up' = [up EXCEPT !.snapshots = x]
      BY Zenon, <1>1, <1>4 DEF take_snapshot
    <2> QED
      BY <1>1, <2>1
  <1>5. ASSUME set_trade_executor
        PROVE  SameRecords(up, up')
    BY <1>1, <1>5 DEF set_trade_executor
  <1>6. ASSUME NEW c \in CapInputs, set_concentration_threshold(c)
        PROVE  SameRecords(up, up')
    BY <1>1, <1>6 DEF set_concentration_threshold
  <1> HIDE DEF PortfolioFields, SameRecords, SamePositions, SameTags, SameLots
  <1> QED
    BY <1>2, <1>3, <1>4, <1>5, <1>6 DEF SwitchboardStep

\* register_migration_users appends users to the queue.
LEMMA register_migration_users_OK ==
    ASSUME PortfolioOK(up), NEW u \in Holders, register_migration_users(<<u>>)
    PROVE  PortfolioOK(up') /\ SameLots(up, up')
  <1>1. DOMAIN up = PortfolioFields /\ IdsOK(up) /\ ListsOK(up)
    BY DEF PortfolioOK
  <1>2. PICK more \in Seq(Holders) : more = up.migration_queue \o <<u>>
    <2>1. PICK list \in Seq(Holders) : list = up.migration_queue
      BY <1>1 DEF IdsOK
    <2>2. <<u>> \in Seq(Holders)
      OBVIOUS
    <2>3. list \o <<u>> \in Seq(Holders)
      BY <2>1, <2>2, ConcatProperties
    <2> QED
      BY Zenon, <2>1, <2>3
  <1>3. up' = [up EXCEPT !.migration_queue = more]
    BY <1>2 DEF register_migration_users
  <1>4. /\ DOMAIN up' = PortfolioFields /\ SameTags(up, up') /\ SameLots(up, up')
        /\ up'.legacy = up.legacy /\ up'.positions = up.positions /\ up'.ids = up.ids
        /\ up'.open = up.open /\ up'.closed = up.closed /\ up'.migrated = up.migrated
        /\ up'.migration_queue = more
    BY <1>1, <1>3 DEF PortfolioFields, SameTags, SameLots
  <1>5. IdsOK(up')
    BY Zenon, <1>1, <1>2, <1>4 DEF IdsOK
  <1>6. ListsOK(up')
    BY Zenon, <1>1, <1>4 DEF ListsOK, UserListsOK, OpenIds, ClosedIds
  <1> QED
    BY <1>4, <1>5, <1>6, PositionsChange

-----------------------------------------------------------------------------
\* The records are right at the start.
LEMMA PortfolioInitOK ==
    ASSUME PortfolioInit
    PROVE  PortfolioOK(up)
  <1>1. PICK old \in SUBSET Holders, rows \in Seq(Position), ids \in [Holders -> Seq(Nat)] :
            /\ \A u \in Holders \ old : ids[u] = <<>>
            /\ \A u \in Holders : IsInjective(ids[u]) /\ ToSet(ids[u]) \subseteq DOMAIN rows
            /\ \A u, v \in Holders : u # v => ToSet(ids[u]) \cap ToSet(ids[v]) = {}
            /\ up = [InitialPortfolio EXCEPT !.legacy = old, !.positions = rows, !.ids = ids]
    BY Zenon DEF PortfolioInit
  <1>2. DOMAIN up = PortfolioFields
    BY Zenon, <1>1 DEF InitialPortfolio, PortfolioFields
  <1>3. /\ up.legacy = old /\ up.positions = rows /\ up.ids = ids /\ up.migration_queue = <<>>
        /\ up.open = [u \in Holders |-> NoList] /\ up.closed = [u \in Holders |-> NoList]
        /\ up.migrated = {}
        /\ up.tags = [u \in Holders |-> <<>>] /\ up.by_tag = [k \in Holders \X Tags |-> <<>>]
        /\ up.lots = [u \in Holders |-> <<>>]
    BY Zenon, <1>1 DEF InitialPortfolio
  <1>4. IdsOK(up)
    <2>1. <<>> \in Seq(Holders)
      OBVIOUS
    <2>2. up.migration_queue \in Seq(Holders)
      BY <1>3, <2>1
    <2>3. up.positions = rows /\ up.ids = ids
      BY <1>3
    <2> QED
      BY <1>1, <2>2, <2>3 DEF IdsOK
  <1>5. ListOf(<<>>, {})
    BY DEF ListOf, ToSet, IsInjective
  <1>6. ListsOK(up)
    <2>1. ASSUME NEW u \in Holders, u \in up.migrated \/ u \notin up.legacy
          PROVE  UserListsOK(up, u)
      <3>1. up.ids[u] = <<>>
        BY <1>1, <1>3, <2>1
      <3>2. ToSet(up.ids[u]) = {}
        BY <3>1 DEF ToSet
      <3>3. OpenIds(up, u) = {} /\ ClosedIds(up, u) = {}
        BY <3>2 DEF OpenIds, ClosedIds
      <3>4. Stored(up.open[u]) = <<>> /\ Stored(up.closed[u]) = <<>>
        BY <1>3 DEF Stored
      <3> QED
        BY <1>5, <3>3, <3>4 DEF UserListsOK
    <2> QED
      BY <1>3, <2>1 DEF ListsOK
  <1>7. TagsOK(up)
    <2>1. \A u \in Holders, t \in Tags : Tagged(up, u, t) = {} /\ up.by_tag[<<u, t>>] = <<>>
      BY <1>3 DEF Tagged
    <2> QED
      <3>1. DOMAIN up.tags = Holders /\ DOMAIN up.by_tag = Holders \X Tags
        BY <1>3
      <3>2. \A u \in Holders : DOMAIN up.tags[u] = {}
        BY <1>3
      <3>3. \A u \in Holders, t \in Tags : ListOf(up.by_tag[<<u, t>>], Tagged(up, u, t))
        BY Zenon, <1>5, <2>1
      <3> QED
        BY <3>1, <3>2, <3>3 DEF TagsOK
  <1>8. LotsOK(up)
    BY <1>3 DEF LotsOK
  <1> QED
    BY <1>2, <1>4, <1>6, <1>7, <1>8 DEF PortfolioOK

\* Lots that are left alone are consumed in order.
LEMMA SameLotsStep ==
    ASSUME PortfolioOK(up), SameLots(up, up')
    PROVE  \A u \in Holders : LotsStep(up.lots[u], up'.lots[u])
  BY LotsStay DEF PortfolioOK, LotsOK, SameLots

\* Every call keeps the records right and consumes lots in order.
LEMMA PortfolioStep ==
    ASSUME PortfolioOK(up), PortfolioNext
    PROVE  PortfolioOK(up') /\ \A u \in Holders : LotsStep(up.lots[u], up'.lots[u])
  <1> DEFINE Goal == PortfolioOK(up') /\ \A u \in Holders : LotsStep(up.lots[u], up'.lots[u])
  <1> SUFFICES Goal
    OBVIOUS
  <1>1. ASSUME PortfolioOK(up'), SameLots(up, up')
        PROVE  Goal
    BY <1>1, SameLotsStep
  <1>2. ASSUME SameRecords(up, up')
        PROVE  Goal
    BY <1>1, <1>2, QuietOK
  <1> HIDE DEF Goal
  <1>3. CASE PositionStep
    <2>1. PICK u \in Holders :
            \/ \E p \in PositionInputs : open_position(u, p)
            \/ \E id \in DOMAIN up.positions :
                   \/ \E pnl \in PnlInputs : close_position(u, id, pnl)
                   \/ close_by_keeper(u, id)
                   \/ \E p \in PositionInputs, pnl \in PnlInputs :
                          close_position_partial(u, id, p.amount, pnl)
            \/ \E all \in BOOLEAN : get_portfolio(u, all)
      BY <1>3 DEF PositionStep
    <2>2. ASSUME NEW p \in PositionInputs, open_position(u, p)
          PROVE  Goal
      BY <1>1, <2>2, open_position_OK
    <2>3. ASSUME NEW id, NEW pnl \in PnlInputs, close_position(u, id, pnl)
          PROVE  Goal
      BY <1>1, <2>3, close_position_OK
    <2>4. ASSUME NEW id, close_by_keeper(u, id)
          PROVE  Goal
      BY <1>1, <2>4, close_by_keeper_OK
    <2>5. ASSUME NEW id, NEW p \in PositionInputs, NEW pnl \in PnlInputs,
                 close_position_partial(u, id, p.amount, pnl)
          PROVE  Goal
      <3>1. p \in [entry_price : Int, amount : Int]
        BY PortfolioConstants
      <3>2. p.amount \in Int
        BY <3>1
      <3> QED
        BY <1>1, <2>5, <3>2, close_position_partial_OK
    <2>6. ASSUME NEW all \in BOOLEAN, get_portfolio(u, all)
          PROVE  Goal
      BY <1>1, <2>6, get_portfolio_OK
    <2> QED
      BY Zenon, <2>1, <2>2, <2>3, <2>4, <2>5, <2>6
  <1>4. CASE MigrationStep
    <2>1. ASSUME NEW n \in BatchSizes, migrate_batch(n)
          PROVE  Goal
      <3>1. n \in Nat
        BY PortfolioConstants
      <3> QED
        BY <1>1, <2>1, <3>1, migrate_batch_OK
    <2>2. ASSUME NEW u \in Holders, register_migration_users(<<u>>)
          PROVE  Goal
      BY <1>1, <2>2, register_migration_users_OK
    <2> QED
      BY Zenon, <1>4, <2>1, <2>2 DEF MigrationStep
  <1>5. CASE TagStep
    <2>1. ASSUME NEW u \in Holders, NEW id, untag_position(u, id)
          PROVE  Goal
      BY <1>1, <2>1, untag_position_OK
    <2>2. ASSUME NEW u \in Holders, NEW id, NEW t \in Tags, tag_position(u, id, t)
          PROVE  Goal
      BY <1>1, <2>2, tag_position_OK
    <2> QED
      BY <1>5, <2>1, <2>2 DEF TagStep
  <1>6. CASE ExposureStep
    <2>1. ASSUME NEW u \in Holders, NEW a \in Assets, NEW p \in PositionInputs,
                 open_position_with_cap_check(u, a, p)
          PROVE  Goal
      BY <1>1, <2>1, open_position_with_cap_check_OK
    <2>2. ASSUME NEW u \in Holders, NEW a \in Assets, NEW c \in CapInputs,
                 set_asset_exposure_cap(u, a, c)
          PROVE  Goal
      BY <1>2, <2>2, CapsQuiet
    <2>3. ASSUME NEW u \in Holders, NEW a \in Assets, remove_asset_exposure_cap(u, a)
          PROVE  Goal
      <3>1. PICK c : c = 0
        OBVIOUS
      <3>2. SameRecords(up, up')
        BY <2>3, <3>1, CapsQuiet
      <3> QED
        BY <1>2, <3>2
    <2> QED
      BY <1>6, <2>1, <2>2, <2>3 DEF ExposureStep
  <1>7. CASE LotStep
    <2>1. ASSUME NEW u \in Holders, NEW p \in PositionInputs, add_cost_lot(u, p)
          PROVE  Goal
      BY <2>1, add_cost_lot_OK DEF Goal
    <2>2. ASSUME NEW u \in Holders, NEW p \in PositionInputs, NEW q \in PositionInputs,
                 close_fifo(u, p.amount, q.entry_price)
          PROVE  Goal
      <3>1. p \in [entry_price : Int, amount : Int]
        BY PortfolioConstants
      <3>2. p.amount \in Int
        BY <3>1
      <3> QED
        BY <2>2, <3>2, close_fifo_OK DEF Goal
    <2> QED
      BY <1>7, <2>1, <2>2 DEF LotStep
  <1>8. CASE SubscriptionStep
    <2>1. ASSUME NEW u \in Holders, NEW v \in Holders, NEW fee \in CapInputs,
                 set_provider_subscription_terms(u, fee)
          PROVE  Goal
      BY <1>2, <2>1, CapsQuiet
    <2>2. ASSUME NEW u \in Holders, NEW v \in Holders, NEW d \in DayLengths,
                 subscribe_to_provider(u, v, d)
          PROVE  Goal
      BY <1>2, <2>2, CapsQuiet
    <2> QED
      BY <1>8, <2>1, <2>2 DEF SubscriptionStep
  <1>9. CASE SwitchboardStep
    BY <1>2, <1>9, SwitchesQuiet
  <1>10. CASE UNCHANGED up
    <2>1. SameLots(up, up')
      BY <1>10 DEF SameLots
    <2> QED
      BY <1>1, <1>10, <2>1
  <1> QED
    BY <1>3, <1>4, <1>5, <1>6, <1>7, <1>8, <1>9, <1>10 DEF PortfolioNext

\* The inductive invariant of the portfolio.
PortfolioInv == PortfolioOK(up)

\* A portfolio starts right.
LEMMA PortfolioInvInit == PortfolioInit => PortfolioInv
  BY PortfolioInitOK DEF PortfolioInv

\* The portfolio stays right, whatever call comes, and when none does.
LEMMA PortfolioInvStep == PortfolioInv /\ [PortfolioNext]_<<now, seq, up>> => PortfolioInv'
  <1>1. ASSUME PortfolioOK(up), UNCHANGED <<now, seq, up>>
        PROVE  PortfolioOK(up')
    <2>1. up' = up
      BY <1>1
    <2> QED
      BY <1>1, <2>1
  <1>2. ASSUME PortfolioOK(up), PortfolioNext
        PROVE  PortfolioOK(up')
    BY <1>2, PortfolioStep
  <1> QED
    BY <1>1, <1>2 DEF PortfolioInv

\* The open and closed lists of every user who has no position from before the lists, or
\* was migrated, name exactly its open and closed positions, once each, and a position is in
\* the index of a tag exactly when it carries it, whatever order users, keepers, queries and
\* the migration come in (user_portfolio lib.rs, queries.rs, migration.rs, position_tags.rs).
THEOREM ListsExactAlways == PortfolioSpec => []ListsExact
  <1>1. PortfolioInv => ListsExact
    <2> SUFFICES ASSUME PortfolioOK(up)
                 PROVE  ListsExact
      BY DEF PortfolioInv
    <2>1. ASSUME NEW u \in Indexed
          PROVE  /\ ToSet(Stored(up.open[u])) = {id \in ToSet(up.ids[u]) : IsOpen(id)}
                 /\ ToSet(Stored(up.closed[u])) = {id \in ToSet(up.ids[u]) : ~IsOpen(id)}
                 /\ IsInjective(Stored(up.open[u])) /\ IsInjective(Stored(up.closed[u]))
      <3>1. UserListsOK(up, u)
        BY <2>1 DEF Indexed, PortfolioOK, ListsOK
      <3>2. /\ OpenIds(up, u) = {id \in ToSet(up.ids[u]) : IsOpen(id)}
            /\ ClosedIds(up, u) = {id \in ToSet(up.ids[u]) : ~IsOpen(id)}
        BY DEF OpenIds, ClosedIds, IsOpen
      <3> QED
        BY <3>1, <3>2 DEF UserListsOK, ListOf
    <2>2. ASSUME NEW u \in Holders, NEW t \in Tags
          PROVE  /\ ToSet(up.by_tag[<<u, t>>]) = {id \in DOMAIN up.tags[u] : up.tags[u][id] = t}
                 /\ IsInjective(up.by_tag[<<u, t>>])
      BY Zenon DEF PortfolioOK, TagsOK, ListOf, Tagged
    <2> QED
      BY <2>1, <2>2 DEF ListsExact
  <1> QED
    BY <1>1, PortfolioInvInit, PortfolioInvStep, PTL DEF PortfolioSpec

\* A lot is only ever consumed, the oldest first, what is kept keeps its price, no empty lot
\* stays, and a sale takes exactly the amount asked for (lib.rs close_fifo).
THEOREM LotsConsumedInOrderAlways == PortfolioSpec => LotsConsumedInOrder
  <1>1. PortfolioInv /\ [PortfolioNext]_<<now, seq, up>> =>
            [/\ \A u \in Holders :
                    LET old == up.lots[u]
                        new == up'.lots[u]
                        was(i) == old[Len(old) - Len(new) + i]
                    IN  \/ Len(new) = Len(old) + 1 /\ SubSeq(new, 1, Len(old)) = old
                        \/ \A i \in DOMAIN new :
                               /\ new[i].amount > 0 /\ new[i].entry_price = was(i).entry_price
                               /\ i > 1 => new[i] = was(i)
             /\ \A u \in Holders, p \in PositionInputs, q \in PositionInputs :
                    close_fifo(u, p.amount, q.entry_price) =>
                        amount_of(up'.lots[u]) = amount_of(up.lots[u]) - p.amount]_up
    <2>1. ASSUME PortfolioOK(up), PortfolioNext
          PROVE  \A u \in Holders : LotsStep(up.lots[u], up'.lots[u])
      BY <2>1, PortfolioStep
    <2>2. ASSUME PortfolioOK(up), NEW u \in Holders, NEW p \in PositionInputs, NEW q \in PositionInputs,
                 close_fifo(u, p.amount, q.entry_price)
          PROVE  amount_of(up'.lots[u]) = amount_of(up.lots[u]) - p.amount
      <3>1. p \in [entry_price : Int, amount : Int]
        BY PortfolioConstants
      <3>2. p.amount \in Int
        BY <3>1
      <3> QED
        BY <2>2, <3>2, close_fifo_OK
    <2> QED
      BY Zenon, <2>1, <2>2 DEF LotsStep, PortfolioInv
  <1> QED
    BY <1>1, PortfolioInvInit, PortfolioInvStep, PTL DEF PortfolioSpec, LotsConsumedInOrder

-----------------------------------------------------------------------------
\* The gates of a market copy trade.

\* The first of a list of gates that refuses decides, and without one nothing refuses.
LEMMA FirstRefusalIs ==
    ASSUME NEW gates, NEW n \in Nat, DOMAIN gates = 1..n
    PROVE  /\ \A i \in 1..n : (~gates[i][2] /\ \A j \in 1..(i - 1) : gates[j][2])
                  => FirstRefusal(gates) = gates[i][1]
           /\ (\A i \in 1..n : gates[i][2]) => FirstRefusal(gates) = None
  <1> DEFINE refusing == {i \in 1..n : ~gates[i][2]}
  <1>1. FirstRefusal(gates) = IF refusing = {} THEN None ELSE gates[Min(refusing)][1]
    BY DEF FirstRefusal
  <1>2. ASSUME NEW i \in 1..n, ~gates[i][2], \A j \in 1..(i - 1) : gates[j][2]
        PROVE  FirstRefusal(gates) = gates[i][1]
    <2>1. i \in refusing /\ \A j \in refusing : i <= j
      <3>1. ASSUME NEW j \in refusing, ~(i <= j)
            PROVE  FALSE
        <4>1. j \in 1..(i - 1) /\ ~gates[j][2]
          BY <3>1
        <4> QED
          BY <1>2, <4>1
      <3> QED
        BY <1>2, <3>1
    <2> HIDE DEF refusing
    <2>2. refusing \subseteq Int
      BY DEF refusing
    <2>3. Min(refusing) \in refusing /\ \A j \in refusing : Min(refusing) <= j
      <3>1. \E x \in refusing : \A y \in refusing : x <= y
        BY <2>1
      <3> QED
        BY <3>1 DEF Min
    <2>4. PICK m \in Int : m = Min(refusing)
      BY Zenon, <2>2, <2>3
    <2>5. m = i
      BY <2>1, <2>2, <2>3, <2>4
    <2> QED
      BY <1>1, <2>1, <2>4, <2>5
  <1>3. ASSUME \A i \in 1..n : gates[i][2]
        PROVE  FirstRefusal(gates) = None
    BY <1>1, <1>3
  <1> QED
    BY <1>2, <1>3

\* The error of a market copy trade: the first early refusal, or else the first late one.
LEMMA ErrorIs ==
    ASSUME NEW b, NEW u, NEW k, NEW a, NEW p, NEW early, NEW late, NEW seen,
           seen = market_circuit_breaker_active(b),
           early = FirstRefusal(early_gates(seen, u, k, a)),
           late = FirstRefusal(late_gates(seen, u, k, a, p))
    PROVE  execute_market_copy_trade(b, u, k, a, p).error = IF early # None THEN early ELSE late
  <1>1. CASE early # None
    BY <1>1 DEF execute_market_copy_trade
  <1>2. CASE early = None /\ late = "InsufficientBalance"
    BY <1>2 DEF execute_market_copy_trade, None
  <1>3. CASE early = None /\ late = "PositionLimitReached"
    BY <1>3 DEF execute_market_copy_trade, None
  <1>4. CASE early = None /\ late \notin {None, "InsufficientBalance", "PositionLimitReached"}
    BY <1>4 DEF execute_market_copy_trade, None
  <1>5. CASE early = None /\ late = None
    BY <1>5 DEF execute_market_copy_trade, None
  <1> QED
    BY <1>1, <1>2, <1>3, <1>4, <1>5

\* Reading the breaker does not change whether it is active.
LEMMA BreakerRead ==
    ASSUME NEW b, "breaker" \in DOMAIN b
    PROVE  market_circuit_breaker_active_readonly(market_circuit_breaker_active(b))
               <=> market_circuit_breaker_active_readonly(b)
  BY DEF market_circuit_breaker_active, market_circuit_breaker_active_readonly, reset_circuit_breaker

BookFields ==
    {"breaker", "day", "volume", "done", "done_day", "beyond", "cap", "own", "planned", "oi",
     "count", "open", "opened", "short", "deducted", "receipts", "fills", "pending", "balance"}

\* What the daily limit reads and what was traded under it is left alone.
SameVolume(b, c) ==
    /\ c.day = b.day /\ c.volume = b.volume /\ c.done = b.done /\ c.done_day = b.done_day
    /\ c.beyond = b.beyond /\ c.cap = b.cap

\* What the executor's limits read, and the portfolio's positions, are left alone.
SameBooks(b, c) ==
    /\ DOMAIN c = BookFields /\ SameVolume(b, c)
    /\ c.count = b.count /\ c.open = b.open /\ c.opened = b.opened /\ c.balance = b.balance
    /\ c.own = b.own /\ c.planned = b.planned

\* Reading the breaker leaves everything else alone.
LEMMA BreakerKeeps ==
    ASSUME NEW b, DOMAIN b = BookFields
    PROVE  SameBooks(b, market_circuit_breaker_active(b)) /\ market_circuit_breaker_active(b).oi = b.oi
  BY DEF market_circuit_breaker_active, reset_circuit_breaker, SameBooks, SameVolume, BookFields

\* Five gates in a row.
LEMMA First5 ==
    ASSUME NEW gates, DOMAIN gates = 1..5
    PROVE  /\ (~gates[1][2])
                  => FirstRefusal(gates) = gates[1][1]
           /\ (gates[1][2] /\ ~gates[2][2])
                  => FirstRefusal(gates) = gates[2][1]
           /\ (gates[1][2] /\ gates[2][2] /\ ~gates[3][2])
                  => FirstRefusal(gates) = gates[3][1]
           /\ (gates[1][2] /\ gates[2][2] /\ gates[3][2] /\ ~gates[4][2])
                  => FirstRefusal(gates) = gates[4][1]
           /\ (gates[1][2] /\ gates[2][2] /\ gates[3][2] /\ gates[4][2] /\ ~gates[5][2])
                  => FirstRefusal(gates) = gates[5][1]
           /\ (gates[1][2] /\ gates[2][2] /\ gates[3][2] /\ gates[4][2] /\ gates[5][2])
                  => FirstRefusal(gates) = None
  <1>1. /\ \A i \in 1..5 : (~gates[i][2] /\ \A j \in 1..(i - 1) : gates[j][2])
                  => FirstRefusal(gates) = gates[i][1]
        /\ (\A i \in 1..5 : gates[i][2]) => FirstRefusal(gates) = None
    BY Zenon, FirstRefusalIs
  <1>2. ASSUME ~gates[1][2]
        PROVE  FirstRefusal(gates) = gates[1][1]
    <2>1. 1 \in 1..5 /\ \A j \in 1..(1 - 1) : FALSE
      OBVIOUS
    <2>2. \A j \in 1..(1 - 1) : gates[j][2]
      BY <1>2, <2>1
    <2> QED
      BY <1>1, <1>2, <2>1, <2>2
  <1>3. ASSUME gates[1][2], ~gates[2][2]
        PROVE  FirstRefusal(gates) = gates[2][1]
    <2>1. 2 \in 1..5 /\ \A j \in 1..(2 - 1) : j = 1
      OBVIOUS
    <2>2. \A j \in 1..(2 - 1) : gates[j][2]
      BY <1>3, <2>1
    <2> QED
      BY <1>1, <1>3, <2>1, <2>2
  <1>4. ASSUME gates[1][2], gates[2][2], ~gates[3][2]
        PROVE  FirstRefusal(gates) = gates[3][1]
    <2>1. 3 \in 1..5 /\ \A j \in 1..(3 - 1) : j = 1 \/ j = 2
      OBVIOUS
    <2>2. \A j \in 1..(3 - 1) : gates[j][2]
      BY <1>4, <2>1
    <2> QED
      BY <1>1, <1>4, <2>1, <2>2
  <1>5. ASSUME gates[1][2], gates[2][2], gates[3][2], ~gates[4][2]
        PROVE  FirstRefusal(gates) = gates[4][1]
    <2>1. 4 \in 1..5 /\ \A j \in 1..(4 - 1) : j = 1 \/ j = 2 \/ j = 3
      OBVIOUS
    <2>2. \A j \in 1..(4 - 1) : gates[j][2]
      BY <1>5, <2>1
    <2> QED
      BY <1>1, <1>5, <2>1, <2>2
  <1>6. ASSUME gates[1][2], gates[2][2], gates[3][2], gates[4][2], ~gates[5][2]
        PROVE  FirstRefusal(gates) = gates[5][1]
    <2>1. 5 \in 1..5 /\ \A j \in 1..(5 - 1) : j = 1 \/ j = 2 \/ j = 3 \/ j = 4
      OBVIOUS
    <2>2. \A j \in 1..(5 - 1) : gates[j][2]
      BY <1>6, <2>1
    <2> QED
      BY <1>1, <1>6, <2>1, <2>2
  <1>7. ASSUME gates[1][2], gates[2][2], gates[3][2], gates[4][2], gates[5][2]
        PROVE  FirstRefusal(gates) = None
    <2>1. \A j \in 1..5 : j = 1 \/ j = 2 \/ j = 3 \/ j = 4 \/ j = 5
      OBVIOUS
    <2>2. \A j \in 1..5 : gates[j][2]
      BY <1>7, <2>1
    <2> QED
      BY <1>1, <2>2
  <1> QED
    BY <1>2, <1>3, <1>4, <1>5, <1>6, <1>7

\* Eight gates in a row.
LEMMA First8 ==
    ASSUME NEW gates, DOMAIN gates = 1..8
    PROVE  /\ (~gates[1][2])
                  => FirstRefusal(gates) = gates[1][1]
           /\ (gates[1][2] /\ ~gates[2][2])
                  => FirstRefusal(gates) = gates[2][1]
           /\ (gates[1][2] /\ gates[2][2] /\ ~gates[3][2])
                  => FirstRefusal(gates) = gates[3][1]
           /\ (gates[1][2] /\ gates[2][2] /\ gates[3][2] /\ ~gates[4][2])
                  => FirstRefusal(gates) = gates[4][1]
           /\ (gates[1][2] /\ gates[2][2] /\ gates[3][2] /\ gates[4][2] /\ ~gates[5][2])
                  => FirstRefusal(gates) = gates[5][1]
           /\ (gates[1][2] /\ gates[2][2] /\ gates[3][2] /\ gates[4][2] /\ gates[5][2] /\ ~gates[6][2])
                  => FirstRefusal(gates) = gates[6][1]
           /\ (gates[1][2] /\ gates[2][2] /\ gates[3][2] /\ gates[4][2] /\ gates[5][2] /\ gates[6][2] /\ ~gates[7][2])
                  => FirstRefusal(gates) = gates[7][1]
           /\ (gates[1][2] /\ gates[2][2] /\ gates[3][2] /\ gates[4][2] /\ gates[5][2] /\ gates[6][2] /\ gates[7][2] /\ ~gates[8][2])
                  => FirstRefusal(gates) = gates[8][1]
           /\ (gates[1][2] /\ gates[2][2] /\ gates[3][2] /\ gates[4][2] /\ gates[5][2] /\ gates[6][2] /\ gates[7][2] /\ gates[8][2])
                  => FirstRefusal(gates) = None
  <1>1. /\ \A i \in 1..8 : (~gates[i][2] /\ \A j \in 1..(i - 1) : gates[j][2])
                  => FirstRefusal(gates) = gates[i][1]
        /\ (\A i \in 1..8 : gates[i][2]) => FirstRefusal(gates) = None
    BY Zenon, FirstRefusalIs
  <1>2. ASSUME ~gates[1][2]
        PROVE  FirstRefusal(gates) = gates[1][1]
    <2>1. 1 \in 1..8 /\ \A j \in 1..(1 - 1) : FALSE
      OBVIOUS
    <2>2. \A j \in 1..(1 - 1) : gates[j][2]
      BY <1>2, <2>1
    <2> QED
      BY <1>1, <1>2, <2>1, <2>2
  <1>3. ASSUME gates[1][2], ~gates[2][2]
        PROVE  FirstRefusal(gates) = gates[2][1]
    <2>1. 2 \in 1..8 /\ \A j \in 1..(2 - 1) : j = 1
      OBVIOUS
    <2>2. \A j \in 1..(2 - 1) : gates[j][2]
      BY <1>3, <2>1
    <2> QED
      BY <1>1, <1>3, <2>1, <2>2
  <1>4. ASSUME gates[1][2], gates[2][2], ~gates[3][2]
        PROVE  FirstRefusal(gates) = gates[3][1]
    <2>1. 3 \in 1..8 /\ \A j \in 1..(3 - 1) : j = 1 \/ j = 2
      OBVIOUS
    <2>2. \A j \in 1..(3 - 1) : gates[j][2]
      BY <1>4, <2>1
    <2> QED
      BY <1>1, <1>4, <2>1, <2>2
  <1>5. ASSUME gates[1][2], gates[2][2], gates[3][2], ~gates[4][2]
        PROVE  FirstRefusal(gates) = gates[4][1]
    <2>1. 4 \in 1..8 /\ \A j \in 1..(4 - 1) : j = 1 \/ j = 2 \/ j = 3
      OBVIOUS
    <2>2. \A j \in 1..(4 - 1) : gates[j][2]
      BY <1>5, <2>1
    <2> QED
      BY <1>1, <1>5, <2>1, <2>2
  <1>6. ASSUME gates[1][2], gates[2][2], gates[3][2], gates[4][2], ~gates[5][2]
        PROVE  FirstRefusal(gates) = gates[5][1]
    <2>1. 5 \in 1..8 /\ \A j \in 1..(5 - 1) : j = 1 \/ j = 2 \/ j = 3 \/ j = 4
      OBVIOUS
    <2>2. \A j \in 1..(5 - 1) : gates[j][2]
      BY <1>6, <2>1
    <2> QED
      BY <1>1, <1>6, <2>1, <2>2
  <1>7. ASSUME gates[1][2], gates[2][2], gates[3][2], gates[4][2], gates[5][2], ~gates[6][2]
        PROVE  FirstRefusal(gates) = gates[6][1]
    <2>1. 6 \in 1..8 /\ \A j \in 1..(6 - 1) : j = 1 \/ j = 2 \/ j = 3 \/ j = 4 \/ j = 5
      OBVIOUS
    <2>2. \A j \in 1..(6 - 1) : gates[j][2]
      BY <1>7, <2>1
    <2> QED
      BY <1>1, <1>7, <2>1, <2>2
  <1>8. ASSUME gates[1][2], gates[2][2], gates[3][2], gates[4][2], gates[5][2], gates[6][2], ~gates[7][2]
        PROVE  FirstRefusal(gates) = gates[7][1]
    <2>1. 7 \in 1..8 /\ \A j \in 1..(7 - 1) : j = 1 \/ j = 2 \/ j = 3 \/ j = 4 \/ j = 5 \/ j = 6
      OBVIOUS
    <2>2. \A j \in 1..(7 - 1) : gates[j][2]
      BY <1>8, <2>1
    <2> QED
      BY <1>1, <1>8, <2>1, <2>2
  <1>9. ASSUME gates[1][2], gates[2][2], gates[3][2], gates[4][2], gates[5][2], gates[6][2], gates[7][2], ~gates[8][2]
        PROVE  FirstRefusal(gates) = gates[8][1]
    <2>1. 8 \in 1..8 /\ \A j \in 1..(8 - 1) : j = 1 \/ j = 2 \/ j = 3 \/ j = 4 \/ j = 5 \/ j = 6 \/ j = 7
      OBVIOUS
    <2>2. \A j \in 1..(8 - 1) : gates[j][2]
      BY <1>9, <2>1
    <2> QED
      BY <1>1, <1>9, <2>1, <2>2
  <1>10. ASSUME gates[1][2], gates[2][2], gates[3][2], gates[4][2], gates[5][2], gates[6][2], gates[7][2], gates[8][2]
        PROVE  FirstRefusal(gates) = None
    <2>1. \A j \in 1..8 : j = 1 \/ j = 2 \/ j = 3 \/ j = 4 \/ j = 5 \/ j = 6 \/ j = 7 \/ j = 8
      OBVIOUS
    <2>2. \A j \in 1..8 : gates[j][2]
      BY <1>10, <2>1
    <2> QED
      BY <1>1, <2>2
  <1> QED
    BY <1>2, <1>3, <1>4, <1>5, <1>6, <1>7, <1>8, <1>9, <1>10

\* The dry run and the trade itself ask the same questions in the same order.
LEMMA SimulatedAsMet ==
    ASSUME NEW b, DOMAIN b = BookFields, b.balance \in [CopyUsers \X Tokens -> Int],
           tx.fee \in Nat,
           NEW u \in CopyUsers, NEW k \in Tokens, NEW a \in Int, NEW p \in TradePcts,
           NEW met, met = execute_market_copy_trade(b, u, k, a, p).error,
           met # "NotInitialized", met # "PositionLimitReached"
    PROVE  simulate_market_copy_trade(b, u, k, a, p) = met
  <1>1. PICK seen : seen = market_circuit_breaker_active(b)
    OBVIOUS
  <1>2. SameBooks(b, seen) /\ seen.oi = b.oi
    BY <1>1, BreakerKeeps
  <1>3. market_circuit_breaker_active_readonly(seen) <=> market_circuit_breaker_active_readonly(b)
    BY <1>1, BreakerRead DEF BookFields
  <1>4. PICK G : G = early_gates(seen, u, k, a)
    OBVIOUS
  <1>5. PICK H : H = late_gates(seen, u, k, a, p)
    OBVIOUS
  <1>6. PICK early : early = FirstRefusal(G)
    OBVIOUS
  <1>7. PICK late : late = FirstRefusal(H)
    OBVIOUS
  <1>8. met = IF early # None THEN early ELSE late
    BY <1>1, <1>4, <1>5, <1>6, <1>7, ErrorIs
  <1>9. PICK size : size = resolve_trade_amount(b, u, k, a, p)
    OBVIOUS
  <1>10. PICK effective : effective = IF p = NoPct \/ p <= MAX_POSITION_PCT_BPS THEN size ELSE a
    OBVIOUS
  <1>11. PICK S : S =
        << <<"InvalidAmount", a > 0>>,
           <<"BelowMinimumTradeSize", a >= tx.min_size[k]>>,
           <<"CircuitBreakerActive", ~market_circuit_breaker_active_readonly(b)>>,
           <<"OpenInterestLimitReached", check_open_interest_limit(b, k, a)>>,
           <<"DailyVolumeLimitExceeded", daily_volume_ok(b, u, a)>>,
           <<"TooManyOpenPositions", check_position_cap(b, u)>>,
           <<"PositionPctTooHigh", p = NoPct \/ p <= MAX_POSITION_PCT_BPS>>,
           <<"InsufficientBalance", \/ check_user_balance(b, u, k, effective, tx.fee)
                                    \/ check_user_balance(b, u, k, effective, 0)>> >>
    BY Zenon
  <1>12. simulate_market_copy_trade(b, u, k, a, p) = FirstRefusal(S)
    BY <1>9, <1>10, <1>11 DEF simulate_market_copy_trade
  <1>13. /\ check_open_interest_limit(seen, k, a) <=> check_open_interest_limit(b, k, a)
         /\ within_daily_limit(seen, u, a) <=> daily_volume_ok(b, u, a)
    BY <1>2 DEF SameBooks, SameVolume, check_open_interest_limit, within_daily_limit,
       current_volume, daily_volume_ok
  <1>14. /\ check_position_cap(seen, u) <=> check_position_cap(b, u)
         /\ resolve_trade_amount(seen, u, k, a, p) = size
         /\ check_user_balance(seen, u, k, size, 0) <=> check_user_balance(b, u, k, size, 0)
    BY <1>2, <1>9 DEF SameBooks, check_position_cap, resolve_trade_amount, check_user_balance
  <1>15. size \in Int
    <2>1. b.balance[<<u, k>>] \in Int
      OBVIOUS
    <2>2. p # NoPct => p \in Int
      BY GateConstants
    <2>3. \A x \in Int, y \in Int : (x * y) \div 10000 \in Int
      OBVIOUS
    <2> QED
      BY <1>9, <2>1, <2>2, <2>3 DEF resolve_trade_amount
  <1>16. check_user_balance(b, u, k, size, tx.fee) => check_user_balance(b, u, k, size, 0)
    <2>1. b.balance[<<u, k>>] \in Int
      OBVIOUS
    <2>2. \A x \in Int, y \in Int, f \in Nat : x >= y + f => x >= y + 0
      OBVIOUS
    <2> QED
      BY <1>15, <2>1, <2>2 DEF check_user_balance
  <1>17. /\ DOMAIN G = 1..5 /\ G[1][1] = "InvalidAmount" /\ G[2][1] = "BelowMinimumTradeSize"
         /\ G[3][1] = "CircuitBreakerActive" /\ G[4][1] = "OpenInterestLimitReached"
         /\ G[5][1] = "DailyVolumeLimitExceeded"
    BY <1>4 DEF early_gates
  <1>18. /\ DOMAIN H = 1..5 /\ H[1][1] = "NotInitialized" /\ H[2][1] = "TooManyOpenPositions"
         /\ H[3][1] = "PositionPctTooHigh" /\ H[4][1] = "InsufficientBalance"
         /\ H[5][1] = "PositionLimitReached"
    BY <1>5 DEF late_gates
  <1>19. /\ DOMAIN S = 1..8 /\ S[1][1] = "InvalidAmount" /\ S[2][1] = "BelowMinimumTradeSize"
         /\ S[3][1] = "CircuitBreakerActive" /\ S[4][1] = "OpenInterestLimitReached"
         /\ S[5][1] = "DailyVolumeLimitExceeded" /\ S[6][1] = "TooManyOpenPositions"
         /\ S[7][1] = "PositionPctTooHigh" /\ S[8][1] = "InsufficientBalance"
    BY <1>11
  <1>20. /\ G[1][2] <=> a > 0
         /\ G[2][2] <=> a >= tx.min_size[k]
         /\ G[3][2] <=> ~market_circuit_breaker_active_readonly(seen)
         /\ G[4][2] <=> check_open_interest_limit(seen, k, a)
         /\ G[5][2] <=> within_daily_limit(seen, u, a)
    BY Zenon, <1>4 DEF early_gates
  <1>21. /\ H[2][2] <=> check_position_cap(seen, u)
         /\ H[3][2] <=> (p = NoPct \/ p <= MAX_POSITION_PCT_BPS)
         /\ H[4][2] <=> check_user_balance(seen, u, k, size, 0)
    BY Zenon, <1>5, <1>14 DEF late_gates
  <1>22. /\ S[1][2] <=> a > 0
         /\ S[2][2] <=> a >= tx.min_size[k]
         /\ S[3][2] <=> ~market_circuit_breaker_active_readonly(b)
         /\ S[4][2] <=> check_open_interest_limit(b, k, a)
         /\ S[5][2] <=> daily_volume_ok(b, u, a)
         /\ S[6][2] <=> check_position_cap(b, u)
         /\ S[7][2] <=> (p = NoPct \/ p <= MAX_POSITION_PCT_BPS)
    BY Zenon, <1>11
  <1>23. S[8][2] <=> (\/ check_user_balance(b, u, k, effective, tx.fee)
                      \/ check_user_balance(b, u, k, effective, 0))
    BY <1>11
  <1>24. /\ G[1][2] <=> S[1][2]
         /\ G[2][2] <=> S[2][2]
         /\ G[3][2] <=> S[3][2]
         /\ G[4][2] <=> S[4][2]
         /\ G[5][2] <=> S[5][2]
         /\ H[2][2] <=> S[6][2]
         /\ H[3][2] <=> S[7][2]
    BY <1>3, <1>13, <1>14, <1>20, <1>21, <1>22
  <1>25. S[7][2] => (H[4][2] <=> S[8][2])
    <2>1. S[7][2] => effective = size
      BY <1>10, <1>22
    <2> QED
      BY <1>14, <1>16, <1>21, <1>23, <2>1
  <1>26. ASSUME G[1][2], G[2][2], G[3][2], G[4][2], G[5][2]
         PROVE  FirstRefusal(S) = met
    <2>1. met = late
      BY <1>6, <1>8, <1>17, <1>26, First5
    <2>2. H[1][2]
      BY <1>7, <1>18, <2>1, First5
    <2>3. CASE ~H[2][2]
      BY <1>7, <1>18, <1>19, <1>24, <1>26, <2>1, <2>2, <2>3, First5, First8
    <2>4. CASE H[2][2] /\ ~H[3][2]
      BY <1>7, <1>18, <1>19, <1>24, <1>26, <2>1, <2>2, <2>4, First5, First8
    <2>5. CASE H[2][2] /\ H[3][2] /\ ~H[4][2]
      BY <1>7, <1>18, <1>19, <1>24, <1>25, <1>26, <2>1, <2>2, <2>5, First5, First8
    <2>6. CASE H[2][2] /\ H[3][2] /\ H[4][2]
      <3>1. H[5][2]
        BY <1>7, <1>18, <2>1, <2>2, <2>6, First5
      <3>2. late = None
        BY <1>7, <1>18, <2>2, <2>6, <3>1, First5
      <3> QED
        BY <1>19, <1>24, <1>25, <1>26, <2>1, <2>6, <3>2, First8
    <2> QED
      BY <2>3, <2>4, <2>5, <2>6
  <1>27. ASSUME NEW i \in 1..5, ~G[i][2], \A j \in 1..(i - 1) : G[j][2]
         PROVE  FirstRefusal(S) = met
    <2>1. early = G[i][1]
      <3>1. DOMAIN G = 1..5 /\ 5 \in Nat
        BY <1>17
      <3>2. \A n \in 1..5 : (~G[n][2] /\ \A j \in 1..(n - 1) : G[j][2])
                => FirstRefusal(G) = G[n][1]
        BY Zenon, <3>1, FirstRefusalIs
      <3> QED
        BY <1>6, <1>27, <3>2
    <2>2. i \in 1..8 /\ \A j \in 1..(i - 1) : j \in 1..5
      OBVIOUS
    <2>3. \A j \in 1..5 : j = 1 \/ j = 2 \/ j = 3 \/ j = 4 \/ j = 5
      OBVIOUS
    <2>4. \A j \in 1..5 : G[j][1] # None /\ G[j][1] = S[j][1] /\ (G[j][2] <=> S[j][2])
      BY <1>17, <1>19, <1>24, <2>3 DEF None
    <2>5. met = S[i][1]
      BY <1>8, <2>1, <2>4
    <2>6. FirstRefusal(S) = S[i][1]
      <3>1. DOMAIN S = 1..8 /\ 8 \in Nat
        BY <1>19
      <3>2. \A n \in 1..8 : (~S[n][2] /\ \A j \in 1..(n - 1) : S[j][2])
                => FirstRefusal(S) = S[n][1]
        BY Zenon, <3>1, FirstRefusalIs
      <3>3. ~S[i][2] /\ \A j \in 1..(i - 1) : S[j][2]
        BY <1>27, <2>2, <2>4
      <3> QED
        BY <2>2, <3>2, <3>3
    <2> QED
      BY <2>5, <2>6
  <1>28. \/ G[1][2] /\ G[2][2] /\ G[3][2] /\ G[4][2] /\ G[5][2]
         \/ \E i \in 1..5 : ~G[i][2] /\ \A j \in 1..(i - 1) : G[j][2]
    <2>1. /\ \A j \in 1..(1 - 1) : FALSE
          /\ \A j \in 1..(2 - 1) : j = 1
          /\ \A j \in 1..(3 - 1) : j = 1 \/ j = 2
          /\ \A j \in 1..(4 - 1) : j = 1 \/ j = 2 \/ j = 3
          /\ \A j \in 1..(5 - 1) : j = 1 \/ j = 2 \/ j = 3 \/ j = 4
          /\ 1 \in 1..5 /\ 2 \in 1..5 /\ 3 \in 1..5 /\ 4 \in 1..5 /\ 5 \in 1..5
      OBVIOUS
    <2> QED
      BY <2>1
  <1> QED
    BY <1>12, <1>26, <1>27, <1>28

-----------------------------------------------------------------------------
\* The executor's books.

Counted(b, d, u) == IF b.day[u] = d THEN b.volume[u] ELSE 0

\* What is executed on day d under a limit, less what percentages added, is counted against
\* the user, within the limit of the last charge.
VolumeOK(b, d) ==
    /\ b.day \in [CopyUsers -> Nat] /\ b.volume \in [CopyUsers -> Nat]
    /\ b.done \in [CopyUsers -> Int] /\ b.done_day \in [CopyUsers -> Nat]
    /\ b.beyond \in [CopyUsers -> Int] /\ DOMAIN b.cap = CopyUsers
    /\ \A u \in CopyUsers :
           /\ b.done_day[u] <= d
           /\ b.done_day[u] = d => b.done[u] <= Counted(b, d, u) + b.beyond[u]
           /\ b.volume[u] <= b.cap[u]

\* n counted positions, c open ones, o closed by the user and p from plans.
CountsBetween(n, c, o, p) == (c + o) - p <= n /\ n <= c + o

\* A user's count follows the open positions, whose ids were given out.
CountOK(b) ==
    /\ b.count \in [CopyUsers -> Nat] /\ b.opened \in Nat /\ IsFiniteSet(b.open)
    /\ b.own \in [CopyUsers -> Nat] /\ b.planned \in [CopyUsers -> Nat]
    /\ b.open \subseteq CopyUsers \X (1..b.opened)
    /\ \A u \in CopyUsers :
           CountsBetween(b.count[u], Cardinality(open_positions(b, u)), b.own[u], b.planned[u])

BooksOK(b, d) ==
    /\ DOMAIN b = BookFields /\ VolumeOK(b, d) /\ CountOK(b)
    /\ b.balance \in [CopyUsers \X Tokens -> Int]

\* Books that are left alone stay right.
LEMMA SameBooksOK ==
    ASSUME NEW b, NEW c, NEW d, BooksOK(b, d), SameBooks(b, c)
    PROVE  BooksOK(c, d)
  <1>1. VolumeOK(c, d)
    BY DEF BooksOK, VolumeOK, SameBooks, SameVolume, Counted
  <1>2. CountOK(c)
    BY DEF BooksOK, CountOK, SameBooks, open_positions
  <1> QED
    BY <1>1, <1>2 DEF BooksOK, SameBooks

\* The day is a number.
LEMMA TodayType ==
    ASSUME now \in Nat
    PROVE  trade_today \in Nat
  <1>1. DaySeconds \in Nat \ {0}
    BY GateConstants
  <1> QED
    BY <1>1 DEF trade_today

\* A charged trade is counted.
LEMMA ChargeKeeps ==
    ASSUME NEW b, NEW d \in Nat, d = trade_today, BooksOK(b, d), NEW u \in CopyUsers,
           NEW a \in Nat, NEW c, c = charge_volume(b, u, a),
           tx.daily_limit # 0 => Counted(b, d, u) + a <= tx.daily_limit
    PROVE  /\ BooksOK(c, d) /\ c.done = b.done /\ c.done_day = b.done_day /\ c.beyond = b.beyond
           /\ tx.daily_limit # 0 => Counted(c, d, u) = Counted(b, d, u) + a
           /\ tx.daily_limit = 0 => Counted(c, d, u) = Counted(b, d, u)
  <1>1. DOMAIN b = BookFields /\ VolumeOK(b, d) /\ CountOK(b)
    BY DEF BooksOK
  <1>2. CASE tx.daily_limit = 0
    BY <1>2 DEF charge_volume
  <1>3. CASE tx.daily_limit # 0
    <2>1. PICK v \in Nat : v = Counted(b, d, u)
      BY <1>1 DEF VolumeOK, Counted
    <2>2. c = [b EXCEPT !.volume[u] = v + a, !.day[u] = d, !.cap[u] = tx.daily_limit]
      BY <1>3, <2>1 DEF charge_volume, current_volume, Counted
    <2>3. /\ DOMAIN c = BookFields /\ c.volume = [b.volume EXCEPT ![u] = v + a]
          /\ c.day = [b.day EXCEPT ![u] = d] /\ c.done = b.done /\ c.done_day = b.done_day
          /\ c.beyond = b.beyond /\ c.cap = [b.cap EXCEPT ![u] = tx.daily_limit]
          /\ c.count = b.count /\ c.open = b.open /\ c.opened = b.opened /\ c.balance = b.balance
          /\ c.own = b.own /\ c.planned = b.planned
      BY <1>1, <2>2 DEF BookFields
    <2>10. /\ DOMAIN c.cap = CopyUsers /\ c.cap[u] = tx.daily_limit
           /\ \A w \in CopyUsers \ {u} : c.cap[w] = b.cap[w]
      BY <1>1, <2>3 DEF VolumeOK
    <2>4. /\ c.day \in [CopyUsers -> Nat] /\ c.volume \in [CopyUsers -> Nat]
          /\ c.day[u] = d /\ c.volume[u] = v + a
          /\ \A w \in CopyUsers \ {u} : c.day[w] = b.day[w] /\ c.volume[w] = b.volume[w]
      BY <1>1, <2>3 DEF VolumeOK
    <2>5. Counted(c, d, u) = v + a /\ \A w \in CopyUsers \ {u} : Counted(c, d, w) = Counted(b, d, w)
      BY <2>4 DEF Counted
    <2>6. b.done_day[u] = d => b.done[u] <= (v + a) + b.beyond[u]
      <3>1. b.done_day[u] = d => b.done[u] <= v + b.beyond[u]
        BY <1>1, <2>1 DEF VolumeOK
      <3>2. b.done[u] \in Int /\ b.beyond[u] \in Int
        BY <1>1 DEF VolumeOK
      <3> QED
        BY <3>1, <3>2
    <2>7. VolumeOK(c, d)
      <3>1. ASSUME NEW w \in CopyUsers
            PROVE  /\ c.done_day[w] <= d
                   /\ c.done_day[w] = d => c.done[w] <= Counted(c, d, w) + c.beyond[w]
                   /\ c.volume[w] <= c.cap[w]
        <4>1. CASE w = u
          BY <1>1, <1>3, <2>1, <2>3, <2>4, <2>5, <2>6, <2>10, <4>1 DEF VolumeOK
        <4>2. CASE w # u
          BY <1>1, <2>3, <2>4, <2>5, <2>10, <4>2 DEF VolumeOK
        <4> QED
          BY <4>1, <4>2
      <3> QED
        BY <1>1, <2>3, <2>4, <2>10, <3>1 DEF VolumeOK
    <2>8. CountOK(c)
      BY <1>1, <2>3 DEF CountOK, open_positions
    <2>9. BooksOK(c, d)
      BY <2>3, <2>7, <2>8 DEF BooksOK
    <2> QED
      BY <1>3, <2>1, <2>3, <2>5, <2>9
  <1> QED
    BY <1>2, <1>3

OneMore(b, c, u) ==
    /\ c.opened \in Nat /\ IsFiniteSet(c.open) /\ c.open \subseteq CopyUsers \X (1..c.opened)
    /\ Cardinality(open_positions(c, u)) = Cardinality(open_positions(b, u)) + 1
    /\ \A w \in CopyUsers \ {u} : open_positions(c, w) = open_positions(b, w)
    /\ \A w \in CopyUsers : Cardinality(open_positions(b, w)) \in Nat

\* A new position is one more of its user.
LEMMA RecordKeeps ==
    ASSUME NEW b, NEW c, CountOK(b), NEW u \in CopyUsers,
           c.opened = b.opened + 1, c.open = b.open \cup {<<u, b.opened + 1>>}
    PROVE  OneMore(b, c, u)
  <1>1. PICK n \in Nat : n = b.opened
    BY DEF CountOK
  <1>2. IsFiniteSet(b.open) /\ b.open \subseteq CopyUsers \X (1..n)
    BY <1>1 DEF CountOK
  <1>3. PICK p : p = <<u, n + 1>>
    BY Zenon
  <1>4. c.open = b.open \cup {p} /\ c.opened = n + 1
    BY <1>1, <1>3
  <1>5. p \notin b.open
    <2>1. n + 1 \notin 1..n
      OBVIOUS
    <2> QED
      BY <1>2, <1>3, <2>1
  <1>6. p[1] = u /\ p \in CopyUsers \X (1..(n + 1))
    BY <1>3
  <1>7. c.open \subseteq CopyUsers \X (1..(n + 1))
    <2>1. 1..n \subseteq 1..(n + 1)
      OBVIOUS
    <2> QED
      BY <1>2, <1>4, <1>6, <2>1
  <1>8. IsFiniteSet(c.open)
    BY <1>2, <1>4, FS_AddElement
  <1>9. \A w \in CopyUsers : IsFiniteSet(open_positions(b, w)) /\ Cardinality(open_positions(b, w)) \in Nat
    <2>1. \A w \in CopyUsers : open_positions(b, w) \in SUBSET b.open
      BY DEF open_positions
    <2> QED
      BY <1>2, <2>1, FS_Subset, FS_CardinalityType
  <1>10. open_positions(c, u) = open_positions(b, u) \cup {p} /\ p \notin open_positions(b, u)
    BY <1>4, <1>5, <1>6 DEF open_positions
  <1>11. Cardinality(open_positions(c, u)) = Cardinality(open_positions(b, u)) + 1
    BY Zenon, <1>9, <1>10, FS_AddElement
  <1>12. \A w \in CopyUsers \ {u} : open_positions(c, w) = open_positions(b, w)
    BY <1>4, <1>6 DEF open_positions
  <1> QED
    BY <1>4, <1>7, <1>8, <1>9, <1>11, <1>12 DEF OneMore

Today(b, h, d, u) == IF b.done_day[u] = d THEN h[u] ELSE 0
Limited(n) == IF tx.daily_limit = 0 THEN 0 ELSE n
Settled(b, f, d, u, a, eff) ==
    /\ DOMAIN f = BookFields /\ f.day = b.day /\ f.volume = b.volume /\ f.balance = b.balance
    /\ f.cap = b.cap /\ f.own = b.own /\ f.planned = b.planned
    /\ f.count = [b.count EXCEPT ![u] = b.count[u] + 1]
    /\ f.opened = b.opened + 1 /\ f.open = b.open \cup {<<u, b.opened + 1>>}
    /\ f.done = [b.done EXCEPT ![u] = Today(b, b.done, d, u) + Limited(eff)]
    /\ f.beyond = [b.beyond EXCEPT ![u] = Today(b, b.beyond, d, u) + Limited(eff - a)]
    /\ f.done_day = [b.done_day EXCEPT ![u] = d]

\* What a settled trade writes.
LEMMA SettleWrites ==
    ASSUME NEW b, DOMAIN b = BookFields, NEW u, NEW k, NEW a, NEW p, NEW d, d = trade_today,
           NEW f, f = settle_trade(b, u, k, a, p)
    PROVE  Settled(b, f, d, u, a, resolve_trade_amount(b, u, k, a, p))
  <1> DEFINE Fresh(r) ==
                 /\ DOMAIN r = BookFields /\ r.day = b.day /\ r.volume = b.volume
                 /\ r.balance = b.balance /\ r.done = b.done /\ r.done_day = b.done_day
                 /\ r.beyond = b.beyond /\ r.cap = b.cap /\ r.own = b.own /\ r.planned = b.planned
                 /\ r.opened = b.opened + 1 /\ r.open = b.open \cup {<<u, b.opened + 1>>}
  <1>1. PICK r1 : r1 = [validate_and_record(b, u) EXCEPT !.short = @ \ {u}]
    BY Zenon
  <1>2. Fresh(r1) /\ r1.count = b.count
    BY <1>1 DEF validate_and_record, BookFields
  <1>3. PICK r2 : r2 = increase_open_interest(r1, k, a)
    OBVIOUS
  <1>4. Fresh(r2) /\ r2.count = b.count
    BY <1>2, <1>3 DEF increase_open_interest, BookFields
  <1>5. PICK r3 : r3 = increment_user_position_count(r2, u)
    OBVIOUS
  <1>6. Fresh(r3) /\ r3.count = [b.count EXCEPT ![u] = b.count[u] + 1]
    BY <1>4, <1>5 DEF increment_user_position_count, BookFields
  <1>7. PICK r4 : r4 = IF check_user_balance(b, u, k, resolve_trade_amount(b, u, k, a, p), tx.fee) \/ tx.fee = 0
                       THEN r3 ELSE [r3 EXCEPT !.deducted[u] = @ + 1]
    BY Zenon
  <1>8. Fresh(r4) /\ r4.count = r3.count
    BY <1>6, <1>7 DEF BookFields
  <1>9. PICK r5 : r5 = record_trade_receipt(r4)
    OBVIOUS
  <1>10. Fresh(r5) /\ r5.count = r3.count
    BY <1>8, <1>9 DEF record_trade_receipt, BookFields
  <1>11. PICK r6 : r6 = [r5 EXCEPT !.pending =
                      [execution_ledger |-> seq, trade_id |-> r5.receipts, user |-> u,
                       status |-> "ExecutedAwaitingConfirmation"]]
    BY Zenon
  <1>12. Fresh(r6) /\ r6.count = r3.count
    BY <1>10, <1>11 DEF BookFields
  <1>17. PICK eff : eff = resolve_trade_amount(b, u, k, a, p)
    OBVIOUS
  <1>13. f = note_done(r6, u, a, eff)
    BY <1>1, <1>3, <1>5, <1>7, <1>9, <1>11, <1>17 DEF settle_trade
  <1>14. PICK dn, by : dn = Today(b, b.done, d, u) + Limited(eff)
                       /\ by = Today(b, b.beyond, d, u) + Limited(eff - a)
    OBVIOUS
  <1>15. f = [r6 EXCEPT !.done[u] = dn, !.beyond[u] = by, !.done_day[u] = d]
    BY <1>12, <1>13, <1>14 DEF note_done, Today, Limited
  <1>16. /\ DOMAIN f = BookFields /\ f.day = r6.day /\ f.volume = r6.volume /\ f.balance = r6.balance
         /\ f.count = r6.count /\ f.opened = r6.opened /\ f.open = r6.open
         /\ f.cap = r6.cap /\ f.own = r6.own /\ f.planned = r6.planned
         /\ f.done = [r6.done EXCEPT ![u] = dn] /\ f.beyond = [r6.beyond EXCEPT ![u] = by]
         /\ f.done_day = [r6.done_day EXCEPT ![u] = d]
    BY <1>12, <1>15 DEF BookFields
  <1> QED
    BY <1>6, <1>12, <1>14, <1>16, <1>17 DEF Settled

\* A settled trade keeps the books right.
LEMMA SettleKeeps ==
    ASSUME NEW b, NEW d \in Nat, d = trade_today, BooksOK(b, d), NEW u \in CopyUsers, NEW k,
           NEW a \in Nat, NEW p, NEW f, f = settle_trade(b, u, k, a, p),
           NEW eff \in Int, eff = resolve_trade_amount(b, u, k, a, p),
           tx.daily_limit # 0 =>
               (b.done_day[u] = d => b.done[u] + a <= Counted(b, d, u) + b.beyond[u]),
           tx.daily_limit # 0 => a <= Counted(b, d, u)
    PROVE  BooksOK(f, d)
  <1>1. DOMAIN b = BookFields /\ VolumeOK(b, d) /\ CountOK(b) /\ b.balance \in [CopyUsers \X Tokens -> Int]
    BY DEF BooksOK
  <1>0. Settled(b, f, d, u, a, eff)
    BY <1>1, SettleWrites
  <1>2. /\ DOMAIN f = BookFields /\ f.day = b.day /\ f.volume = b.volume /\ f.balance = b.balance
        /\ f.count = [b.count EXCEPT ![u] = b.count[u] + 1]
        /\ f.opened = b.opened + 1 /\ f.open = b.open \cup {<<u, b.opened + 1>>}
        /\ f.cap = b.cap /\ f.own = b.own /\ f.planned = b.planned
    BY <1>0 DEF Settled
  <1>3. PICK dn, by, earlier, over :
            /\ earlier = (IF b.done_day[u] = d THEN b.done[u] ELSE 0)
            /\ over = (IF b.done_day[u] = d THEN b.beyond[u] ELSE 0)
            /\ dn = earlier + Limited(eff) /\ by = over + Limited(eff - a)
            /\ f.done = [b.done EXCEPT ![u] = dn] /\ f.beyond = [b.beyond EXCEPT ![u] = by]
            /\ f.done_day = [b.done_day EXCEPT ![u] = d]
    BY Zenon, <1>0 DEF Settled, Today
  <1>4. PICK v \in Nat : v = Counted(b, d, u)
    BY <1>1 DEF VolumeOK, Counted
  <1>5. dn \in Int /\ by \in Int /\ dn <= v + by
    <2>1. earlier \in Int /\ over \in Int
      BY <1>1, <1>3 DEF VolumeOK
    <2>2. b.done_day[u] = d => b.done[u] <= v + b.beyond[u]
      BY <1>1, <1>4 DEF VolumeOK
    <2>3. earlier <= v + over
      BY <1>3, <1>4, <2>2
    <2>4. tx.daily_limit # 0 => earlier + a <= v + over
      BY <1>3, <1>4
    <2>5. CASE tx.daily_limit = 0
      <3>1. dn = earlier + 0 /\ by = over + 0
        BY <1>3, <2>5 DEF Limited
      <3> QED
        BY <2>1, <2>3, <3>1
    <2>6. CASE tx.daily_limit # 0
      <3>1. dn = earlier + eff /\ by = over + (eff - a)
        BY <1>3, <2>6 DEF Limited
      <3> QED
        BY <2>1, <2>4, <2>6, <3>1
    <2> QED
      BY <2>5, <2>6
  <1>6. \A w \in CopyUsers : Counted(f, d, w) = Counted(b, d, w)
    BY <1>2 DEF Counted
  <1>7. /\ f.done \in [CopyUsers -> Int] /\ f.done_day \in [CopyUsers -> Nat]
        /\ f.beyond \in [CopyUsers -> Int]
        /\ f.done[u] = dn /\ f.beyond[u] = by /\ f.done_day[u] = d
        /\ \A w \in CopyUsers \ {u} : f.done[w] = b.done[w] /\ f.done_day[w] = b.done_day[w]
                                     /\ f.beyond[w] = b.beyond[w]
    BY <1>1, <1>3, <1>5 DEF VolumeOK
  <1>8. VolumeOK(f, d)
    <2>1. ASSUME NEW w \in CopyUsers
          PROVE  /\ f.done_day[w] <= d
                 /\ f.done_day[w] = d => f.done[w] <= Counted(f, d, w) + f.beyond[w]
                 /\ f.volume[w] <= f.cap[w]
      <3>1. CASE w = u
        BY <1>1, <1>2, <1>4, <1>5, <1>6, <1>7, <3>1 DEF VolumeOK
      <3>2. CASE w # u
        BY <1>1, <1>2, <1>6, <1>7, <3>2 DEF VolumeOK
      <3> QED
        BY <3>1, <3>2
    <2> QED
      BY <1>1, <1>2, <1>7, <2>1 DEF VolumeOK
  <1>9. CountOK(f)
    <2>1. /\ f.opened \in Nat /\ IsFiniteSet(f.open) /\ f.open \subseteq CopyUsers \X (1..f.opened)
          /\ Cardinality(open_positions(f, u)) = Cardinality(open_positions(b, u)) + 1
          /\ \A w \in CopyUsers \ {u} : open_positions(f, w) = open_positions(b, w)
          /\ \A w \in CopyUsers : Cardinality(open_positions(b, w)) \in Nat
      <3>1. OneMore(b, f, u)
        BY <1>1, <1>2, RecordKeeps
      <3> QED
        BY <3>1 DEF OneMore
    <2>2. /\ f.count \in [CopyUsers -> Nat] /\ f.count[u] = b.count[u] + 1
          /\ \A w \in CopyUsers \ {u} : f.count[w] = b.count[w]
      BY <1>1, <1>2 DEF CountOK
    <2>3. \A w \in CopyUsers : b.count[w] \in Nat /\ b.own[w] \in Nat /\ b.planned[w] \in Nat
              /\ CountsBetween(b.count[w], Cardinality(open_positions(b, w)), b.own[w], b.planned[w])
      BY <1>1 DEF CountOK
    <2>4. CountsBetween(f.count[u], Cardinality(open_positions(f, u)), f.own[u], f.planned[u])
      BY <1>2, <2>1, <2>2, <2>3 DEF CountsBetween
    <2>5. \A w \in CopyUsers \ {u} :
              CountsBetween(f.count[w], Cardinality(open_positions(f, w)), f.own[w], f.planned[w])
      BY <1>2, <2>1, <2>2, <2>3
    <2>6. f.own \in [CopyUsers -> Nat] /\ f.planned \in [CopyUsers -> Nat]
      BY <1>1, <1>2 DEF CountOK
    <2> QED
      BY <2>1, <2>2, <2>4, <2>5, <2>6 DEF CountOK
  <1> QED
    BY <1>1, <1>2, <1>8, <1>9 DEF BooksOK

\* A market copy trade keeps the books right, whatever becomes of it.
LEMMA ExecuteKeeps ==
    ASSUME NEW b, NEW d \in Nat, d = trade_today, BooksOK(b, d), NEW u \in CopyUsers, NEW k,
           NEW a \in Int, NEW p \in Int \cup {NoPct}, k \in Tokens
    PROVE  BooksOK(execute_market_copy_trade(b, u, k, a, p).books, d)
  <1>1. PICK seen : seen = market_circuit_breaker_active(b)
    OBVIOUS
  <1>2. BooksOK(seen, d)
    BY Zenon, <1>1, BreakerKeeps, SameBooksOK DEF BooksOK
  <1>3. PICK G : G = early_gates(seen, u, k, a)
    OBVIOUS
  <1>4. PICK early : early = FirstRefusal(G)
    OBVIOUS
  <1>5. PICK late : late = FirstRefusal(late_gates(seen, u, k, a, p))
    OBVIOUS
  <1>6. PICK c : c = charge_volume(seen, u, a)
    OBVIOUS
  <1>7. CASE early # None
    BY <1>1, <1>2, <1>3, <1>4, <1>7 DEF execute_market_copy_trade
  <1>8. CASE early = None
    <2>1. a > 0
      <3>1. DOMAIN G = 1..5
        BY <1>3 DEF early_gates
      <3>2. G[1][1] = "InvalidAmount"
        BY <1>3 DEF early_gates
      <3>3. G[1][2] <=> a > 0
        BY Zenon, <1>3 DEF early_gates
      <3> QED
        BY Zenon, <1>4, <1>8, <3>1, <3>2, <3>3, First5 DEF None
    <2>2. a \in Nat
      BY <2>1
    <2>9. tx.daily_limit # 0 => Counted(seen, d, u) + a <= tx.daily_limit
      <3>1. DOMAIN G = 1..5
        BY <1>3 DEF early_gates
      <3>2. /\ G[1][1] = "InvalidAmount" /\ G[2][1] = "BelowMinimumTradeSize"
            /\ G[3][1] = "CircuitBreakerActive" /\ G[4][1] = "OpenInterestLimitReached"
            /\ G[5][1] = "DailyVolumeLimitExceeded"
        BY <1>3 DEF early_gates
      <3>3. G[5][2] <=> within_daily_limit(seen, u, a)
        BY Zenon, <1>3 DEF early_gates
      <3>4. G[5][2]
        BY Zenon, <1>4, <1>8, <3>1, <3>2, First5 DEF None
      <3> QED
        BY <3>3, <3>4 DEF within_daily_limit, current_volume, Counted
    <2>3. /\ BooksOK(c, d) /\ c.done = seen.done /\ c.done_day = seen.done_day
          /\ c.beyond = seen.beyond
          /\ tx.daily_limit # 0 => Counted(c, d, u) = Counted(seen, d, u) + a
      BY <1>2, <1>6, <2>2, <2>9, ChargeKeeps
    <2>4. DOMAIN c = BookFields
      BY <2>3 DEF BooksOK
    <2>5. CASE late = "InsufficientBalance"
      <3>1. SameBooks(c, [c EXCEPT !.short = c.short \cup {u}])
        BY <2>4 DEF SameBooks, SameVolume, BookFields
      <3>2. BooksOK([c EXCEPT !.short = c.short \cup {u}], d)
        BY <2>3, <3>1, SameBooksOK
      <3> QED
        BY <1>1, <1>3, <1>4, <1>5, <1>6, <1>8, <2>5, <3>2 DEF execute_market_copy_trade, None
    <2>6. CASE late = "PositionLimitReached"
      <3>1. SameBooks(c, [c EXCEPT !.short = c.short \ {u}])
        BY <2>4 DEF SameBooks, SameVolume, BookFields
      <3>2. BooksOK([c EXCEPT !.short = c.short \ {u}], d)
        BY <2>3, <3>1, SameBooksOK
      <3> QED
        BY <1>1, <1>3, <1>4, <1>5, <1>6, <1>8, <2>6, <3>2 DEF execute_market_copy_trade, None
    <2>7. CASE late \notin {None, "InsufficientBalance", "PositionLimitReached"}
      BY <1>1, <1>3, <1>4, <1>5, <1>6, <1>8, <2>3, <2>7 DEF execute_market_copy_trade, None
    <2>8. CASE late = None
      <3>1. PICK v \in Nat : v = Counted(seen, d, u)
        BY <1>2 DEF BooksOK, VolumeOK, Counted
      <3>2. /\ seen.done_day[u] = d => seen.done[u] <= v + seen.beyond[u]
            /\ seen.done[u] \in Int /\ seen.beyond[u] \in Int
        BY <1>2, <3>1 DEF BooksOK, VolumeOK
      <3>3. tx.daily_limit # 0 => Counted(c, d, u) = v + a
        BY <2>3, <3>1
      <3>4. /\ tx.daily_limit # 0 =>
                   (c.done_day[u] = d => c.done[u] + a <= Counted(c, d, u) + c.beyond[u])
            /\ tx.daily_limit # 0 => a <= Counted(c, d, u)
        BY <2>2, <2>3, <3>1, <3>2, <3>3
      <3>7. PICK eff \in Int : eff = resolve_trade_amount(c, u, k, a, p)
        <4>1. PICK held \in Int : held = c.balance[<<u, k>>]
          <5>1. c.balance \in [CopyUsers \X Tokens -> Int] /\ <<u, k>> \in CopyUsers \X Tokens
            BY <2>3 DEF BooksOK
          <5> QED
            BY <5>1
        <4>2. CASE p = NoPct
          BY <4>1, <4>2 DEF resolve_trade_amount
        <4>3. CASE p \in Int /\ p # NoPct
          <5>1. PICK m \in Int : m = (held * p) \div 10000
            <6>1. held * p \in Int
              BY <4>3
            <6> QED
              BY <6>1
          <5> QED
            BY <4>1, <4>3, <5>1 DEF resolve_trade_amount
        <4> QED
          BY <4>2, <4>3
      <3>5. BooksOK(settle_trade(c, u, k, a, p), d)
        BY <2>2, <2>3, <3>4, <3>7, SettleKeeps
      <3>6. execute_market_copy_trade(b, u, k, a, p).books = settle_trade(c, u, k, a, p)
        BY <1>1, <1>3, <1>4, <1>5, <1>6, <1>8, <2>8 DEF execute_market_copy_trade, None
      <3> QED
        BY <3>5, <3>6
    <2> QED
      BY <2>5, <2>6, <2>7, <2>8
  <1> QED
    BY <1>7, <1>8

-----------------------------------------------------------------------------
\* The queue, the dead letters and the limit orders.

QueueFields ==
    {"queued", "ids", "next", "dead", "dead_of", "dead_all", "orders", "order_ids", "next_order"}

\* A stored trade is one somebody asked for.
Row(t) ==
    /\ {"user", "token", "amount", "pct"} \subseteq DOMAIN t /\ t.user \in CopyUsers
    /\ t.amount \in Int /\ t.token \in Tokens /\ t.pct \in Int \cup {NoPct}

DeadOf(q, u) == {i \in DOMAIN q.dead : q.dead[i].user = u}

\* Every letter is in the list of all and in that of its user.
LettersOK(q) ==
    /\ ListOf(q.dead_all, DOMAIN q.dead) /\ DOMAIN q.dead_of = CopyUsers
    /\ \A u \in CopyUsers : ListOf(q.dead_of[u], DeadOf(q, u))
    /\ \A i \in DOMAIN q.dead : Row(q.dead[i])

\* The list names every queued trade but those a walk has yet to visit.
WaitingOK(q, rest) ==
    /\ rest \subseteq DOMAIN q.queued /\ ListOf(q.ids, DOMAIN q.queued \ rest)
    /\ DOMAIN q.queued \cap DOMAIN q.dead = {}
    /\ \A i \in DOMAIN q.queued : Row(q.queued[i])

\* Ids come from the counters.
NumbersOK(q) ==
    /\ q.next \in Nat /\ \A i \in DOMAIN q.queued \cup DOMAIN q.dead : i \in Nat /\ i < q.next
    /\ q.next_order \in Nat /\ \A i \in DOMAIN q.orders : i \in Nat /\ i < q.next_order

LimitsOK(q) ==
    /\ ListOf(q.order_ids, DOMAIN q.orders)
    /\ \A i \in DOMAIN q.orders : Row(q.orders[i]) /\ q.orders[i].expires_at_ledger \in Int

QueueAt(q, rest) ==
    DOMAIN q = QueueFields /\ LettersOK(q) /\ WaitingOK(q, rest) /\ NumbersOK(q) /\ LimitsOK(q)

\* A letter leaves both lists with its record.
LEMMA LetterRemoved ==
    ASSUME NEW q, NEW rest, QueueAt(q, rest), NEW id \in DOMAIN q.dead,
           NEW t, t = remove_dead_letter(q, id)
    PROVE  /\ QueueAt(t, rest) /\ DOMAIN t.dead = DOMAIN q.dead \ {id}
           /\ t.queued = q.queued /\ t.ids = q.ids /\ t.next = q.next
           /\ \A i \in DOMAIN t.dead : t.dead[i] = q.dead[i]
  <1>1. DOMAIN q = QueueFields /\ LettersOK(q) /\ WaitingOK(q, rest) /\ NumbersOK(q) /\ LimitsOK(q)
    BY DEF QueueAt
  <1>2. PICK u \in CopyUsers : u = q.dead[id].user
    BY <1>1 DEF LettersOK, Row
  <1>3. t = [q EXCEPT !.dead = Drop(q.dead, id), !.dead_all = Without(q.dead_all, id),
                      !.dead_of[u] = Without(q.dead_of[u], id)]
    BY <1>2 DEF remove_dead_letter
  <1>4. /\ DOMAIN t = QueueFields /\ t.dead = Drop(q.dead, id) /\ t.dead_all = Without(q.dead_all, id)
        /\ t.dead_of = [q.dead_of EXCEPT ![u] = Without(q.dead_of[u], id)]
        /\ t.queued = q.queued /\ t.ids = q.ids /\ t.next = q.next
        /\ t.orders = q.orders /\ t.order_ids = q.order_ids /\ t.next_order = q.next_order
    BY <1>1, <1>3 DEF QueueFields
  <1>5. /\ DOMAIN t.dead = DOMAIN q.dead \ {id}
        /\ \A i \in DOMAIN t.dead : t.dead[i] = q.dead[i]
    BY <1>4 DEF Drop
  <1>6. ListOf(t.dead_all, DOMAIN t.dead)
    BY <1>1, <1>4, <1>5, WithoutDrops DEF LettersOK
  <1>7. DOMAIN t.dead_of = CopyUsers /\ t.dead_of[u] = Without(q.dead_of[u], id)
        /\ \A w \in CopyUsers \ {u} : t.dead_of[w] = q.dead_of[w]
    BY <1>1, <1>4 DEF LettersOK
  <1>8. DeadOf(t, u) = DeadOf(q, u) \ {id} /\ \A w \in CopyUsers \ {u} : DeadOf(t, w) = DeadOf(q, w)
    BY <1>2, <1>5 DEF DeadOf
  <1>9. ASSUME NEW w \in CopyUsers
        PROVE  ListOf(t.dead_of[w], DeadOf(t, w))
    <2>1. ListOf(q.dead_of[w], DeadOf(q, w))
      BY <1>1 DEF LettersOK
    <2>2. CASE w = u
      BY <1>7, <1>8, <2>1, <2>2, WithoutDrops
    <2>3. CASE w # u
      BY <1>7, <1>8, <2>1, <2>3
    <2> QED
      BY <2>2, <2>3
  <1>10. LettersOK(t)
    BY <1>1, <1>5, <1>6, <1>7, <1>9 DEF LettersOK
  <1>11. WaitingOK(t, rest)
    BY <1>1, <1>4, <1>5 DEF WaitingOK
  <1>12. NumbersOK(t)
    BY <1>1, <1>4, <1>5 DEF NumbersOK
  <1>13. LimitsOK(t)
    BY <1>1, <1>4 DEF LimitsOK
  <1>14. QueueAt(t, rest)
    BY <1>4, <1>10, <1>11, <1>12, <1>13 DEF QueueAt
  <1> QED
    BY <1>4, <1>5, <1>14

\* A new entry of the queue.
LEMMA QueuedStored ==
    ASSUME NEW q, QueueAt(q, {}), NEW id \in Nat, id < q.next,
           id \notin DOMAIN q.queued, id \notin DOMAIN q.dead, NEW row, Row(row),
           NEW t, t = store_queued_trade(q, id, row)
    PROVE  QueueAt(t, {})
  <1>1. DOMAIN q = QueueFields /\ LettersOK(q) /\ WaitingOK(q, {}) /\ NumbersOK(q) /\ LimitsOK(q)
    BY DEF QueueAt
  <1>2. t = [q EXCEPT !.queued = Put(q.queued, id, row), !.ids = Append(q.ids, id)]
    BY DEF store_queued_trade
  <1>3. /\ DOMAIN t = QueueFields /\ t.queued = Put(q.queued, id, row) /\ t.ids = Append(q.ids, id)
        /\ t.dead = q.dead /\ t.dead_of = q.dead_of /\ t.dead_all = q.dead_all /\ t.next = q.next
        /\ t.orders = q.orders /\ t.order_ids = q.order_ids /\ t.next_order = q.next_order
    BY <1>1, <1>2 DEF QueueFields
  <1>4. /\ DOMAIN t.queued = DOMAIN q.queued \cup {id} /\ t.queued[id] = row
        /\ \A i \in DOMAIN q.queued : t.queued[i] = q.queued[i]
    BY <1>3 DEF Put
  <1>5. ListOf(t.ids, DOMAIN t.queued \ {})
    <2>1. PICK D : D = DOMAIN q.queued
      OBVIOUS
    <2>2. ListOf(q.ids, D)
      <3>1. D \ {} = D
        OBVIOUS
      <3> QED
        BY <1>1, <2>1, <3>1 DEF WaitingOK
    <2>3. ListOf(Append(q.ids, id), D \cup {id})
      BY <2>1, <2>2, ListAppends
    <2>4. DOMAIN t.queued \ {} = D \cup {id}
      BY <1>4, <2>1
    <2> QED
      BY <1>3, <2>3, <2>4
  <1>6. WaitingOK(t, {})
    <2>1. DOMAIN t.queued \cap DOMAIN t.dead = {}
      BY <1>1, <1>3, <1>4 DEF WaitingOK
    <2>2. \A i \in DOMAIN t.queued : Row(t.queued[i])
      BY <1>1, <1>4 DEF WaitingOK
    <2> QED
      BY <1>5, <2>1, <2>2 DEF WaitingOK
  <1>7. LettersOK(t)
    BY Zenon, <1>1, <1>3 DEF LettersOK, DeadOf
  <1>8. NumbersOK(t)
    BY <1>1, <1>3, <1>4 DEF NumbersOK
  <1>9. LimitsOK(t)
    BY <1>1, <1>3 DEF LimitsOK
  <1> QED
    BY <1>3, <1>6, <1>7, <1>8, <1>9 DEF QueueAt

\* A queued trade that is done leaves the queue.
LEMMA QueuedDropped ==
    ASSUME NEW q, NEW rest, QueueAt(q, rest), NEW id \in rest,
           NEW t, t = [q EXCEPT !.queued = Drop(q.queued, id)]
    PROVE  QueueAt(t, rest \ {id})
  <1>1. DOMAIN q = QueueFields /\ LettersOK(q) /\ WaitingOK(q, rest) /\ NumbersOK(q) /\ LimitsOK(q)
    BY DEF QueueAt
  <1>2. /\ DOMAIN t = QueueFields /\ t.queued = Drop(q.queued, id) /\ t.ids = q.ids
        /\ t.dead = q.dead /\ t.dead_of = q.dead_of /\ t.dead_all = q.dead_all /\ t.next = q.next
        /\ t.orders = q.orders /\ t.order_ids = q.order_ids /\ t.next_order = q.next_order
    BY <1>1 DEF QueueFields
  <1>3. /\ DOMAIN t.queued = DOMAIN q.queued \ {id}
        /\ \A i \in DOMAIN t.queued : t.queued[i] = q.queued[i]
    BY <1>2 DEF Drop
  <1>4. DOMAIN t.queued \ (rest \ {id}) = DOMAIN q.queued \ rest
    BY <1>3
  <1>5. WaitingOK(t, rest \ {id})
    <2>1. rest \ {id} \subseteq DOMAIN t.queued /\ DOMAIN t.queued \cap DOMAIN t.dead = {}
      BY <1>1, <1>2, <1>3 DEF WaitingOK
    <2>2. \A i \in DOMAIN t.queued : Row(t.queued[i])
      BY <1>1, <1>3 DEF WaitingOK
    <2>3. ListOf(t.ids, DOMAIN t.queued \ (rest \ {id}))
      BY <1>1, <1>2, <1>4 DEF WaitingOK
    <2> QED
      BY <2>1, <2>2, <2>3 DEF WaitingOK
  <1>6. LettersOK(t)
    BY Zenon, <1>1, <1>2 DEF LettersOK, DeadOf
  <1>7. NumbersOK(t)
    BY <1>1, <1>2, <1>3 DEF NumbersOK
  <1>8. LimitsOK(t)
    BY <1>1, <1>2 DEF LimitsOK
  <1> QED
    BY <1>2, <1>5, <1>6, <1>7, <1>8 DEF QueueAt

\* A trade stays in the queue, perhaps tried once more.
Stays(q, t, id) ==
    /\ DOMAIN t = QueueFields /\ t.ids = Append(q.ids, id)
    /\ DOMAIN t.queued = DOMAIN q.queued /\ \A i \in DOMAIN t.queued : Row(t.queued[i])
    /\ t.dead = q.dead /\ t.dead_of = q.dead_of /\ t.dead_all = q.dead_all /\ t.next = q.next
    /\ t.orders = q.orders /\ t.order_ids = q.order_ids /\ t.next_order = q.next_order

\* A queued trade that stays is listed again.
LEMMA QueuedKept ==
    ASSUME NEW q, NEW rest, QueueAt(q, rest), NEW id \in rest, NEW t, Stays(q, t, id)
    PROVE  QueueAt(t, rest \ {id})
  <1>1. DOMAIN q = QueueFields /\ LettersOK(q) /\ WaitingOK(q, rest) /\ NumbersOK(q) /\ LimitsOK(q)
    BY DEF QueueAt
  <1>2. /\ DOMAIN t = QueueFields /\ t.ids = Append(q.ids, id)
        /\ t.dead = q.dead /\ t.dead_of = q.dead_of /\ t.dead_all = q.dead_all /\ t.next = q.next
        /\ t.orders = q.orders /\ t.order_ids = q.order_ids /\ t.next_order = q.next_order
    BY DEF Stays
  <1>3. /\ DOMAIN t.queued = DOMAIN q.queued
        /\ \A i \in DOMAIN t.queued : Row(t.queued[i])
    BY DEF Stays
  <1>4. PICK D : D = DOMAIN q.queued \ rest
    BY Zenon
  <1>5. id \notin D /\ DOMAIN t.queued \ (rest \ {id}) = D \cup {id}
    BY <1>1, <1>3, <1>4 DEF WaitingOK
  <1>6. ListOf(q.ids, D)
    BY <1>1, <1>4 DEF WaitingOK
  <1>7. ListOf(Append(q.ids, id), D \cup {id})
    BY <1>5, <1>6, ListAppends
  <1>8. WaitingOK(t, rest \ {id})
    <2>1. rest \ {id} \subseteq DOMAIN t.queued /\ DOMAIN t.queued \cap DOMAIN t.dead = {}
      BY <1>1, <1>2, <1>3 DEF WaitingOK
    <2>2. ListOf(t.ids, DOMAIN t.queued \ (rest \ {id}))
      BY Zenon, <1>2, <1>5, <1>7
    <2> QED
      BY <1>3, <2>1, <2>2 DEF WaitingOK
  <1>9. LettersOK(t)
    BY Zenon, <1>1, <1>2 DEF LettersOK, DeadOf
  <1>10. NumbersOK(t)
    BY <1>1, <1>2, <1>3 DEF NumbersOK
  <1>11. LimitsOK(t)
    BY <1>1, <1>2 DEF LimitsOK
  <1> QED
    BY <1>2, <1>8, <1>9, <1>10, <1>11 DEF QueueAt

\* A queued trade that was tried too often becomes a letter.
LEMMA LetterStored ==
    ASSUME NEW q, NEW rest, QueueAt(q, rest), NEW id \in rest, NEW code,
           NEW t, t = dead_letter_trade_internal(q, id, q.queued[id], code)
    PROVE  QueueAt(t, rest \ {id})
  <1>1. DOMAIN q = QueueFields /\ LettersOK(q) /\ WaitingOK(q, rest) /\ NumbersOK(q) /\ LimitsOK(q)
    BY DEF QueueAt
  <1>2. PICK u \in CopyUsers : u = q.queued[id].user /\ q.queued[id].amount \in Int
            /\ q.queued[id].token \in Tokens /\ q.queued[id].pct \in Int \cup {NoPct}
    BY <1>1 DEF WaitingOK, Row
  <1>3. PICK row : row = [user |-> q.queued[id].user, token |-> q.queued[id].token,
                          amount |-> q.queued[id].amount, pct |-> q.queued[id].pct,
                          failure_code |-> code, dead_lettered_at_ledger |-> seq]
    BY Zenon
  <1>4. Row(row) /\ row.user = u
    BY <1>2, <1>3 DEF Row
  <1>5. id \notin DOMAIN q.dead /\ id \in DOMAIN q.queued /\ id \in Nat /\ id < q.next
    BY <1>1 DEF WaitingOK, NumbersOK
  <1>6. PICK s : s = [q EXCEPT !.queued = Drop(q.queued, id)]
    BY Zenon
  <1>7. QueueAt(s, rest \ {id})
    BY <1>6, QueuedDropped
  <1>8. /\ LettersOK(s) /\ WaitingOK(s, rest \ {id}) /\ NumbersOK(s) /\ LimitsOK(s)
        /\ DOMAIN s = QueueFields
    BY <1>7 DEF QueueAt
  <1>9. s.dead = q.dead /\ s.queued = Drop(q.queued, id) /\ s.next = q.next
    BY <1>1, <1>6 DEF QueueFields
  <1>10. id \notin DOMAIN s.queued
    BY <1>9 DEF Drop
  <1>11. t = [q EXCEPT !.queued = Drop(q.queued, id), !.dead = Put(q.dead, id, row),
                       !.dead_of[u] = Append(q.dead_of[u], id), !.dead_all = Append(q.dead_all, id)]
    BY <1>2, <1>3 DEF dead_letter_trade_internal
  <1>12. /\ DOMAIN t = QueueFields /\ t.queued = s.queued /\ t.ids = s.ids
         /\ t.dead = Put(s.dead, id, row) /\ t.dead_all = Append(s.dead_all, id)
         /\ t.dead_of = [s.dead_of EXCEPT ![u] = Append(s.dead_of[u], id)] /\ t.next = s.next
         /\ t.orders = s.orders /\ t.order_ids = s.order_ids /\ t.next_order = s.next_order
    BY <1>1, <1>6, <1>11 DEF QueueFields
  <1>13. /\ DOMAIN t.dead = DOMAIN s.dead \cup {id} /\ t.dead[id] = row
         /\ \A i \in DOMAIN s.dead : t.dead[i] = s.dead[i] /\ i # id
    BY <1>5, <1>9, <1>12 DEF Put
  <1>14. ListOf(t.dead_all, DOMAIN t.dead)
    BY <1>5, <1>8, <1>9, <1>12, <1>13, ListAppends DEF LettersOK
  <1>15. DOMAIN t.dead_of = CopyUsers /\ t.dead_of[u] = Append(s.dead_of[u], id)
         /\ \A w \in CopyUsers \ {u} : t.dead_of[w] = s.dead_of[w]
    BY <1>8, <1>12 DEF LettersOK
  <1>16. /\ DeadOf(t, u) = DeadOf(s, u) \cup {id} /\ id \notin DeadOf(s, u)
         /\ \A w \in CopyUsers \ {u} : DeadOf(t, w) = DeadOf(s, w)
    BY <1>4, <1>13 DEF DeadOf
  <1>17. ASSUME NEW w \in CopyUsers
         PROVE  ListOf(t.dead_of[w], DeadOf(t, w))
    <2>1. ListOf(s.dead_of[w], DeadOf(s, w))
      BY <1>8 DEF LettersOK
    <2>2. CASE w = u
      <3>1. ListOf(Append(s.dead_of[u], id), DeadOf(s, u) \cup {id})
        BY <1>16, <2>1, <2>2, ListAppends
      <3> QED
        BY Zenon, <1>15, <1>16, <2>2, <3>1
    <2>3. CASE w # u
      BY <1>15, <1>16, <2>1, <2>3
    <2> QED
      BY <2>2, <2>3
  <1>18. LettersOK(t)
    <2>1. \A i \in DOMAIN t.dead : Row(t.dead[i])
      BY <1>4, <1>8, <1>13 DEF LettersOK
    <2> QED
      BY <1>14, <1>15, <1>17, <2>1 DEF LettersOK
  <1>19. WaitingOK(t, rest \ {id})
    BY <1>8, <1>10, <1>12, <1>13 DEF WaitingOK
  <1>20. NumbersOK(t)
    BY <1>5, <1>8, <1>9, <1>12, <1>13 DEF NumbersOK
  <1>21. LimitsOK(t)
    BY <1>8, <1>12 DEF LimitsOK
  <1> QED
    BY <1>12, <1>18, <1>19, <1>20, <1>21 DEF QueueAt

\* One queued trade of a walk.
LEMMA VisitKeeps ==
    ASSUME NEW d \in Nat, d = trade_today, NEW run, NEW rest, DOMAIN run = {"books", "queue"},
           BooksOK(run.books, d), QueueAt(run.queue, rest), NEW id \in rest,
           NEW t, t = visit_queued(run, id)
    PROVE  DOMAIN t = {"books", "queue"} /\ BooksOK(t.books, d) /\ QueueAt(t.queue, rest \ {id})
  <1>1. PICK q : q = run.queue
    OBVIOUS
  <1>2. PICK row : row = q.queued[id]
    OBVIOUS
  <1>3. Row(row) /\ DOMAIN q = QueueFields /\ id \in DOMAIN q.queued
    BY <1>1, <1>2 DEF QueueAt, WaitingOK
  <1>4. PICK outcome : outcome = execute_market_copy_trade(run.books, row.user, row.token,
                                                           row.amount, row.pct)
    OBVIOUS
  <1>5. BooksOK(outcome.books, d)
    BY <1>3, <1>4, ExecuteKeeps DEF Row
  <1>6. PICK kept : kept = [q EXCEPT !.ids = Append(q.ids, id)]
    BY Zenon
  <1>7. CASE ~grace_period_elapsed(row.queued_at_ledger)
    <2>1. t = [run EXCEPT !.queue = kept]
      BY <1>1, <1>2, <1>6, <1>7 DEF visit_queued
    <2>2. \A i \in DOMAIN q.queued : Row(q.queued[i])
      BY <1>1 DEF QueueAt, WaitingOK
    <2>3. Stays(q, kept, id)
      BY <1>3, <1>6, <2>2 DEF Stays, QueueFields
    <2>4. QueueAt(kept, rest \ {id})
      BY <1>1, <2>3, QueuedKept
    <2> QED
      BY <2>1, <2>4
  <1>8. CASE grace_period_elapsed(row.queued_at_ledger) /\ outcome.error = None
    <2>1. t = [books |-> outcome.books, queue |-> [q EXCEPT !.queued = Drop(q.queued, id)]]
      BY <1>1, <1>2, <1>4, <1>8 DEF visit_queued
    <2>2. QueueAt([q EXCEPT !.queued = Drop(q.queued, id)], rest \ {id})
      BY <1>1, QueuedDropped
    <2> QED
      BY <1>5, <2>1, <2>2
  <1>9. CASE grace_period_elapsed(row.queued_at_ledger) /\ outcome.error # None
             /\ row.retry_count + 1 >= tx.max_retries
    <2>1. t = [books |-> outcome.books,
               queue |-> dead_letter_trade_internal(q, id, row, outcome.error)]
      BY <1>1, <1>2, <1>4, <1>9 DEF visit_queued
    <2>2. QueueAt(dead_letter_trade_internal(q, id, row, outcome.error), rest \ {id})
      BY Zenon, <1>1, <1>2, LetterStored
    <2> QED
      BY <1>5, <2>1, <2>2
  <1>10. CASE grace_period_elapsed(row.queued_at_ledger) /\ outcome.error # None
              /\ ~ (row.retry_count + 1 >= tx.max_retries)
    <2>1. PICK again : again = [row EXCEPT !.retry_count = row.retry_count + 1]
      BY Zenon
    <2>2. Row(again)
      BY <1>3, <2>1 DEF Row
    <2>3. kept.queued = q.queued /\ DOMAIN kept = QueueFields
      BY <1>3, <1>6 DEF QueueFields
    <2>4. PICK s : s = [kept EXCEPT !.queued[id].retry_count = @ + 1]
      BY Zenon
    <2>5. s = [kept EXCEPT !.queued = [q.queued EXCEPT ![id] = again]]
      BY <1>2, <2>1, <2>3, <2>4
    <2>6. Stays(q, s, id)
      <3>1. \A i \in DOMAIN q.queued : Row(q.queued[i])
        BY <1>1 DEF QueueAt, WaitingOK
      <3>2. s.queued = [q.queued EXCEPT ![id] = again] /\ DOMAIN s = QueueFields
        BY <2>3, <2>5 DEF QueueFields
      <3>3. DOMAIN s.queued = DOMAIN q.queued /\ \A i \in DOMAIN s.queued : Row(s.queued[i])
        BY <2>2, <3>1, <3>2
      <3>4. /\ s.ids = Append(q.ids, id) /\ s.dead = q.dead /\ s.dead_of = q.dead_of
            /\ s.dead_all = q.dead_all /\ s.next = q.next /\ s.orders = q.orders
            /\ s.order_ids = q.order_ids /\ s.next_order = q.next_order
        BY <1>3, <1>6, <2>5 DEF QueueFields
      <3> QED
        BY <3>2, <3>3, <3>4 DEF Stays
    <2>7. QueueAt(s, rest \ {id})
      BY <1>1, <2>6, QueuedKept
    <2>8. t = [books |-> outcome.books, queue |-> s]
      BY <1>1, <1>2, <1>4, <1>6, <1>10, <2>4 DEF visit_queued
    <2> QED
      BY <1>5, <2>7, <2>8
  <1> QED
    BY <1>7, <1>8, <1>9, <1>10

-----------------------------------------------------------------------------
\* The walks over the queue, a batch, the limit orders and the letters to prune.

\* The ids from the n-th on are still to be visited.
Unvisited(list, n) == {list[j] : j \in (n + 1)..Len(list)}
WalkSoFar(e, n, run) ==
    /\ DOMAIN run = {"books", "queue"} /\ BooksOK(run.books, e.day)
    /\ QueueAt(run.queue, Unvisited(e.ids, n))
VisitOne(e, run, id) == visit_queued(run, id)
QueueFold == INSTANCE FoldTheorems WITH Op <- VisitOne, P <- WalkSoFar

\* execute_queued_trades: every queued trade is visited once and ends in one place.
LEMMA WalkKeeps ==
    ASSUME NEW d \in Nat, d = trade_today, NEW b, BooksOK(b, d), NEW q, QueueAt(q, {}),
           NEW run, run = FoldLeft(visit_queued, [books |-> b, queue |-> [q EXCEPT !.ids = <<>>]], q.ids)
    PROVE  BooksOK(run.books, d) /\ QueueAt(run.queue, {})
  <1>1. DOMAIN q = QueueFields /\ LettersOK(q) /\ WaitingOK(q, {}) /\ NumbersOK(q) /\ LimitsOK(q)
    BY DEF QueueAt
  <1>2. PICK D : D = DOMAIN q.queued /\ ListOf(q.ids, D)
    <2>1. DOMAIN q.queued \ {} = DOMAIN q.queued
      OBVIOUS
    <2> QED
      BY <1>1, <2>1 DEF WaitingOK
  <1>3. PICK ids \in Seq(D) : ids = q.ids /\ ToSet(ids) = D /\ IsInjective(ids)
    BY <1>2 DEF ListOf
  <1>4. PICK len \in Nat : len = Len(ids) /\ DOMAIN ids = 1..len
    BY <1>3
  <1>5. PICK e : e = [ids |-> ids, day |-> d]
    BY Zenon
  <1>6. e.ids = ids /\ e.day = d
    BY <1>5
  <1>7. PICK q0 : q0 = [q EXCEPT !.ids = <<>>]
    OBVIOUS
  <1>8. PICK base : base = [books |-> b, queue |-> q0]
    BY Zenon
  <1>9. Unvisited(ids, 0) = D
    <2>1. Unvisited(ids, 0) = {ids[j] : j \in 1..len}
      BY <1>4 DEF Unvisited
    <2> QED
      BY Zenon, <1>3, <1>4, <2>1 DEF ToSet
  <1>10. QueueAt(q0, D)
    <2>1. /\ DOMAIN q0 = QueueFields /\ q0.queued = q.queued /\ q0.ids = <<>>
          /\ q0.dead = q.dead /\ q0.dead_of = q.dead_of /\ q0.dead_all = q.dead_all
          /\ q0.next = q.next /\ q0.orders = q.orders /\ q0.order_ids = q.order_ids
          /\ q0.next_order = q.next_order
      BY <1>1, <1>7 DEF QueueFields
    <2>2. ListOf(<<>>, {}) /\ D \ D = {}
      BY DEF ListOf, ToSet, IsInjective
    <2>3. WaitingOK(q0, D)
      BY Zenon, <1>1, <1>2, <2>1, <2>2 DEF WaitingOK
    <2>4. LettersOK(q0)
      BY Zenon, <1>1, <2>1 DEF LettersOK, DeadOf
    <2>5. NumbersOK(q0)
      BY <1>1, <2>1 DEF NumbersOK
    <2>6. LimitsOK(q0)
      BY <1>1, <2>1 DEF LimitsOK
    <2> QED
      BY <2>1, <2>3, <2>4, <2>5, <2>6 DEF QueueAt
  <1>11. WalkSoFar(e, 0, base)
    BY <1>6, <1>8, <1>9, <1>10 DEF WalkSoFar
  <1>12. ASSUME NEW i \in 1..len, NEW r, WalkSoFar(e, i - 1, r)
         PROVE  WalkSoFar(e, i, VisitOne(e, r, ids[i]))
    <2>1. PICK rest : rest = Unvisited(ids, i - 1)
      OBVIOUS
    <2>2. i \in Nat /\ (i - 1) + 1 = i /\ i..len = {i} \cup ((i + 1)..len)
          /\ \A j \in (i + 1)..len : j # i /\ j \in 1..len
      BY <1>4
    <2>3. rest = {ids[j] : j \in i..len} /\ Unvisited(ids, i) = {ids[j] : j \in (i + 1)..len}
      BY <1>4, <2>1, <2>2 DEF Unvisited
    <2>4. ids[i] \in rest
      BY <2>2, <2>3
    <2>5. \A j \in (i + 1)..len : ids[j] # ids[i]
      BY <1>3, <1>4, <2>2 DEF IsInjective
    <2>6. rest \ {ids[i]} = Unvisited(ids, i)
      BY <2>2, <2>3, <2>5
    <2>7. DOMAIN r = {"books", "queue"} /\ BooksOK(r.books, d) /\ QueueAt(r.queue, rest)
      BY <1>6, <1>12, <2>1 DEF WalkSoFar
    <2>8. PICK t : t = visit_queued(r, ids[i])
      OBVIOUS
    <2>9. DOMAIN t = {"books", "queue"} /\ BooksOK(t.books, d) /\ QueueAt(t.queue, rest \ {ids[i]})
      BY Zenon, <2>4, <2>7, <2>8, VisitKeeps
    <2> QED
      BY Zenon, <1>6, <2>6, <2>8, <2>9 DEF WalkSoFar, VisitOne
  <1>13. WalkSoFar(e, len, QueueFold!Folded(e, base, ids))
    BY <1>4, <1>11, <1>12, QueueFold!FoldInduction
  <1>14. QueueFold!Folded(e, base, ids) = run
    BY <1>3, <1>7, <1>8 DEF QueueFold!Folded, VisitOne, FoldLeft, QueueFold!FoldLeft,
       MapThenFoldSet, QueueFold!MapThenFoldSet, Max, QueueFold!Max
  <1>15. Unvisited(ids, len) = {}
    <2>1. (len + 1)..len = {}
      OBVIOUS
    <2> QED
      BY <1>4, <2>1 DEF Unvisited
  <1> QED
    BY <1>6, <1>13, <1>14, <1>15 DEF WalkSoFar

BatchSoFar(e, n, run) == BooksOK(run.books, e.day)
BatchOne(e, r, t) ==
    LET outcome == execute_market_copy_trade(r.books, t.user, t.token, t.amount, NoPct)
    IN  [books |-> outcome.books, ok |-> r.ok /\ outcome.error = None]
BatchFold == INSTANCE FoldTheorems WITH Op <- BatchOne, P <- BatchSoFar

\* The entries of a list.
LEMMA EntryIn ==
    ASSUME NEW S, NEW list \in Seq(S), NEW i \in DOMAIN list
    PROVE  list[i] \in S
  OBVIOUS

\* A batch keeps the books right, whichever of its trades are refused.
LEMMA BatchKeeps ==
    ASSUME NEW d \in Nat, d = trade_today, BooksOK(tb, d), NEW trades \in BatchInputs
    PROVE  BooksOK(run_batch(trades).books, d)
  <1>1. trades \in Seq([user : CopyUsers, token : Tokens, amount : Int])
    BY Zenon, TradeQueueConstants
  <1>2. PICK len \in Nat : len = Len(trades) /\ DOMAIN trades = 1..len
    BY <1>1
  <1>3. PICK e : e = [day |-> d]
    BY Zenon
  <1>4. e.day = d
    BY <1>3
  <1>5. PICK base : base = [books |-> market_circuit_breaker_active(tb), ok |-> TRUE]
    BY Zenon
  <1>6. BatchSoFar(e, 0, base)
    <2>1. BooksOK(market_circuit_breaker_active(tb), d)
      BY Zenon, BreakerKeeps, SameBooksOK DEF BooksOK
    <2> QED
      BY <1>4, <1>5, <2>1 DEF BatchSoFar
  <1>7. ASSUME NEW i \in 1..len, NEW r, BatchSoFar(e, i - 1, r)
        PROVE  BatchSoFar(e, i, BatchOne(e, r, trades[i]))
    <2>1. trades[i] \in [user : CopyUsers, token : Tokens, amount : Int]
      BY Zenon, <1>1, <1>2, EntryIn
    <2>2. PICK u \in CopyUsers, k \in Tokens, a \in Int :
              u = trades[i].user /\ k = trades[i].token /\ a = trades[i].amount
      BY <2>1
    <2>3. BooksOK(execute_market_copy_trade(r.books, u, k, a, NoPct).books, d)
      BY <1>4, <1>7, ExecuteKeeps DEF BatchSoFar
    <2> QED
      BY <1>4, <2>2, <2>3 DEF BatchSoFar, BatchOne
  <1>8. BatchSoFar(e, len, BatchFold!Folded(e, base, trades))
    BY <1>2, <1>6, <1>7, BatchFold!FoldInduction
  <1>9. BatchFold!Folded(e, base, trades) = run_batch(trades)
    BY <1>5 DEF BatchFold!Folded, BatchOne, run_batch, FoldLeft, BatchFold!FoldLeft,
       MapThenFoldSet, BatchFold!MapThenFoldSet, Max, BatchFold!Max
  <1> QED
    BY <1>4, <1>8, <1>9 DEF BatchSoFar

\* After n orders, unless a trade was refused, every order visited was kept or is gone.
Visited(list, n) == {list[j] : j \in 1..n}
OrdersSoFar(e, n, run) ==
    /\ DOMAIN run = {"books", "kept", "gone", "failed"} /\ run.failed \in BOOLEAN
    /\ ~run.failed =>
           /\ BooksOK(run.books, e.day)
           /\ run.gone \subseteq Visited(e.ids, n)
           /\ ListOf(run.kept, Visited(e.ids, n) \ run.gone)
OrderOne(e, run, id) == visit_order(e.token, run, id)
OrderFold == INSTANCE FoldTheorems WITH Op <- OrderOne, P <- OrdersSoFar

\* One order of the walk.
LEMMA OrderVisited ==
    ASSUME NEW e, e.day \in Nat, e.day = trade_today, NEW n \in Nat \ {0}, NEW run,
           OrdersSoFar(e, n - 1, run), NEW id, id = e.ids[n], id \notin Visited(e.ids, n - 1),
           Row(tq.orders[id]), tq.orders[id].expires_at_ledger \in Int, seq \in Nat,
           NEW t, t = OrderOne(e, run, id)
    PROVE  OrdersSoFar(e, n, t)
  <1>1. PICK V : V = Visited(e.ids, n - 1)
    OBVIOUS
  <1>2. Visited(e.ids, n) = V \cup {id} /\ id \notin V
    <2>1. 1..n = (1..(n - 1)) \cup {n}
      OBVIOUS
    <2> QED
      BY <1>1, <2>1 DEF Visited
  <1>3. DOMAIN run = {"books", "kept", "gone", "failed"} /\ run.failed \in BOOLEAN
    BY DEF OrdersSoFar
  <1>4. PICK o : o = tq.orders[id]
    OBVIOUS
  <1>5. PICK outcome : outcome = execute_market_copy_trade(run.books, o.user, o.token, o.amount, o.pct)
    OBVIOUS
  <1>6. CASE run.failed
    <2>1. t = run
      BY <1>6 DEF OrderOne, visit_order
    <2> QED
      BY Zenon, <1>3, <1>6, <2>1 DEF OrdersSoFar
  <1>7. ASSUME ~run.failed
        PROVE  BooksOK(run.books, e.day) /\ run.gone \subseteq V /\ ListOf(run.kept, V \ run.gone)
    BY <1>1, <1>7 DEF OrdersSoFar
  <1>8. ASSUME ~run.failed, t = [run EXCEPT !.kept = Append(run.kept, id)]
        PROVE  OrdersSoFar(e, n, t)
    <2>1. /\ DOMAIN t = {"books", "kept", "gone", "failed"} /\ t.failed = run.failed
          /\ t.books = run.books /\ t.gone = run.gone /\ t.kept = Append(run.kept, id)
      BY <1>3, <1>8
    <2>2. id \notin V \ run.gone /\ (V \cup {id}) \ run.gone = (V \ run.gone) \cup {id}
      BY <1>2, <1>7, <1>8
    <2>3. ListOf(Append(run.kept, id), (V \ run.gone) \cup {id})
      BY <1>7, <1>8, <2>2, ListAppends
    <2> QED
      BY Zenon, <1>2, <1>3, <1>7, <1>8, <2>1, <2>2, <2>3 DEF OrdersSoFar
  <1>9. ASSUME ~run.failed, NEW b, NEW f \in BOOLEAN, ~f => BooksOK(b, e.day),
               t = [run EXCEPT !.books = b, !.gone = run.gone \cup {id}, !.failed = f]
        PROVE  OrdersSoFar(e, n, t)
    <2>1. /\ DOMAIN t = {"books", "kept", "gone", "failed"} /\ t.failed = f
          /\ t.books = b /\ t.gone = run.gone \cup {id} /\ t.kept = run.kept
      BY <1>3, <1>9
    <2>2. (V \cup {id}) \ (run.gone \cup {id}) = V \ run.gone
      BY <1>2, <1>7, <1>9
    <2> QED
      BY Zenon, <1>2, <1>7, <1>9, <2>1, <2>2 DEF OrdersSoFar
  <1>10. CASE ~run.failed /\ o.token # e.token
    <2>1. t = [run EXCEPT !.kept = Append(run.kept, id)]
      BY <1>4, <1>10 DEF OrderOne, visit_order
    <2> QED
      BY <1>8, <1>10, <2>1
  <1>11. CASE ~run.failed /\ o.token = e.token /\ seq >= o.expires_at_ledger
    <2>0. ~(seq < o.expires_at_ledger)
      BY <1>4, <1>11
    <2>1. t = [run EXCEPT !.gone = run.gone \cup {id}]
      BY <1>4, <1>11, <2>0 DEF OrderOne, visit_order
    <2>2. t = [run EXCEPT !.books = run.books, !.gone = run.gone \cup {id}, !.failed = run.failed]
      BY Zenon, <1>3, <2>1
    <2> QED
      BY Zenon, <1>3, <1>7, <1>9, <1>11, <2>2
  <1>12. CASE ~run.failed /\ o.token = e.token /\ ~(seq >= o.expires_at_ledger)
              /\ seq < o.expires_at_ledger /\ tx.price[e.token] > o.limit_price
    <2>1. t = [run EXCEPT !.kept = Append(run.kept, id)]
      BY <1>4, <1>12 DEF OrderOne, visit_order
    <2> QED
      BY <1>8, <1>12, <2>1
  <1>13. CASE ~run.failed /\ o.token = e.token /\ ~(seq >= o.expires_at_ledger)
              /\ ~(seq < o.expires_at_ledger /\ tx.price[e.token] > o.limit_price)
    <2>1. PICK f \in BOOLEAN : f = (outcome.error # None)
      BY Zenon
    <2>2. t = [run EXCEPT !.books = outcome.books, !.gone = run.gone \cup {id}, !.failed = f]
      BY Zenon, <1>4, <1>5, <1>13, <2>1 DEF OrderOne, visit_order
    <2>3. BooksOK(outcome.books, e.day)
      BY <1>4, <1>5, <1>7, <1>13, ExecuteKeeps DEF Row
    <2> QED
      BY Zenon, <1>9, <1>13, <2>2, <2>3
  <1> QED
    BY <1>6, <1>10, <1>11, <1>12, <1>13

\* The walk over the limit orders keeps the books and the orders' list right.
LEMMA OrdersKeep ==
    ASSUME NEW d \in Nat, d = trade_today, seq \in Nat, BooksOK(tb, d), QueueAt(tq, {}),
           NEW k \in Tokens, check_pending_limit_orders(k)
    PROVE  BooksOK(tb', d) /\ QueueAt(tq', {})
  <1>1. DOMAIN tq = QueueFields /\ LettersOK(tq) /\ WaitingOK(tq, {}) /\ NumbersOK(tq) /\ LimitsOK(tq)
    BY DEF QueueAt
  <1>2. PICK D : D = DOMAIN tq.orders /\ ListOf(tq.order_ids, D)
    BY <1>1 DEF LimitsOK
  <1>3. PICK ids \in Seq(D) : ids = tq.order_ids /\ ToSet(ids) = D /\ IsInjective(ids)
    BY <1>2 DEF ListOf
  <1>4. PICK len \in Nat : len = Len(ids) /\ DOMAIN ids = 1..len
    BY <1>3
  <1>5. PICK e : e = [ids |-> ids, day |-> d, token |-> k]
    BY Zenon
  <1>6. e.ids = ids /\ e.day = d /\ e.token = k
    BY <1>5
  <1>7. PICK base : base = [books |-> tb, kept |-> <<>>, gone |-> {}, failed |-> FALSE]
    BY Zenon
  <1>8. OrdersSoFar(e, 0, base)
    <2>1. Visited(ids, 0) = {}
      BY DEF Visited
    <2>2. ListOf(<<>>, {})
      BY DEF ListOf, ToSet, IsInjective
    <2>3. /\ DOMAIN base = {"books", "kept", "gone", "failed"} /\ base.failed = FALSE
          /\ base.books = tb /\ base.gone = {} /\ base.kept = <<>>
      BY <1>7
    <2>4. {} \ {} = {}
      OBVIOUS
    <2> QED
      BY Zenon, <1>6, <2>1, <2>2, <2>3, <2>4 DEF OrdersSoFar
  <1>9. ASSUME NEW i \in 1..len, NEW r, OrdersSoFar(e, i - 1, r)
        PROVE  OrdersSoFar(e, i, OrderOne(e, r, ids[i]))
    <2>1. ids[i] \in D
      BY <1>3, <1>4
    <2>2. Row(tq.orders[ids[i]]) /\ tq.orders[ids[i]].expires_at_ledger \in Int
      BY <1>1, <1>2, <2>1 DEF LimitsOK
    <2>3. ids[i] \notin Visited(ids, i - 1)
      <3>1. \A j \in 1..(i - 1) : j \in 1..len /\ j # i
        BY <1>4
      <3> QED
        BY <1>3, <1>4, <3>1 DEF Visited, IsInjective
    <2>4. i \in Nat \ {0} /\ ids[i] = e.ids[i] /\ e.day \in Nat
      BY <1>6
    <2> QED
      BY <1>6, <1>9, <2>2, <2>3, <2>4, OrderVisited
  <1>10. OrdersSoFar(e, len, OrderFold!Folded(e, base, ids))
    BY <1>4, <1>8, <1>9, OrderFold!FoldInduction
  <1>11. PICK run : run = OrderFold!Folded(e, base, ids)
    OBVIOUS
  <1>12. run = FoldLeft(LAMBDA r, id : visit_order(k, r, id), base, ids)
    BY <1>6, <1>11 DEF OrderFold!Folded, OrderOne, FoldLeft, OrderFold!FoldLeft,
       MapThenFoldSet, OrderFold!MapThenFoldSet, Max, OrderFold!Max
  <1>13. /\ ~run.failed /\ tb' = run.books
         /\ tq' = [tq EXCEPT !.order_ids = run.kept,
                             !.orders = [i \in DOMAIN tq.orders \ run.gone |-> tq.orders[i]]]
    BY Zenon, <1>3, <1>7, <1>12 DEF check_pending_limit_orders
  <1>14. Visited(ids, len) = D
    BY Zenon, <1>3, <1>4 DEF Visited, ToSet
  <1>15. BooksOK(run.books, d) /\ ListOf(run.kept, D \ run.gone)
    BY <1>6, <1>10, <1>11, <1>13, <1>14 DEF OrdersSoFar
  <1>16. /\ DOMAIN tq' = QueueFields /\ tq'.order_ids = run.kept
         /\ tq'.orders = [i \in D \ run.gone |-> tq.orders[i]]
         /\ tq'.queued = tq.queued /\ tq'.ids = tq.ids /\ tq'.dead = tq.dead
         /\ tq'.dead_of = tq.dead_of /\ tq'.dead_all = tq.dead_all /\ tq'.next = tq.next
         /\ tq'.next_order = tq.next_order
    BY <1>1, <1>2, <1>13 DEF QueueFields
  <1>17. DOMAIN tq'.orders = D \ run.gone /\ \A i \in DOMAIN tq'.orders : tq'.orders[i] = tq.orders[i]
    BY <1>16
  <1>18. LimitsOK(tq')
    BY <1>1, <1>2, <1>15, <1>16, <1>17 DEF LimitsOK
  <1>19. NumbersOK(tq')
    BY <1>1, <1>2, <1>16, <1>17 DEF NumbersOK
  <1>20. WaitingOK(tq', {})
    BY <1>1, <1>16 DEF WaitingOK
  <1>21. LettersOK(tq')
    BY Zenon, <1>1, <1>16 DEF LettersOK, DeadOf
  <1> QED
    BY <1>13, <1>15, <1>16, <1>18, <1>19, <1>20, <1>21 DEF QueueAt

\* After n letters of a prune, the letters left are those not yet taken.
PrunedSoFar(e, n, q) == QueueAt(q, {}) /\ DOMAIN q.dead = e.dead \ Visited(e.list, n)
PruneOne(e, q, id) == remove_dead_letter(q, id)
PruneFold == INSTANCE FoldTheorems WITH Op <- PruneOne, P <- PrunedSoFar

\* Pruning takes each letter once, out of all its places.
LEMMA PruneKeeps ==
    ASSUME QueueAt(tq, {}), NEW E \in SUBSET DOMAIN tq.dead, NEW ids, ListOf(ids, E), NEW m \in Int,
           prune_dead_letter_queue(ids, m)
    PROVE  QueueAt(tq', {})
  <1>1. PICK T : T = {i \in DOMAIN tq.dead : seq - tq.dead[i].dead_lettered_at_ledger >= tx.retention}
    BY Zenon
  <1>2. PICK old : old = Only(ids, T)
    OBVIOUS
  <1>3. PICK K : K = E \cap T
    BY Zenon
  <1>4. old \in Seq(K) /\ IsInjective(old)
    BY Zenon, <1>2, <1>3, OnlyKeeps DEF ListOf
  <1>5. PICK len \in Nat : len = Len(old) /\ DOMAIN old = 1..len
    BY <1>4
  <1>6. PICK n \in Int : n = Min({m, len}) /\ n <= len
    <2>1. m <= len => Min({m, len}) = m
      BY DEF Min
    <2>2. ~ (m <= len) => Min({m, len}) = len
      BY DEF Min
    <2> QED
      BY <2>1, <2>2
  <1>7. PICK list : list = SubSeq(old, 1, n)
    BY Zenon
  <1>8. PICK size \in Nat : DOMAIN list = 1..size /\ size <= len /\ \A i \in 1..size : list[i] = old[i]
    <2>1. \A i \in 1..n : old[i] \in K
      BY <1>4, <1>5, <1>6
    <2>2. 1 \in Int
      OBVIOUS
    <2>3. /\ list \in Seq(K)
          /\ Len(list) = IF 1 <= n THEN n - 1 + 1 ELSE 0
          /\ \A i \in 1 .. n - 1 + 1 : list[i] = old[1 + i - 1]
      BY <1>7, <2>1, <2>2, SubSeqProperties
    <2>4. PICK size \in Nat : size = Len(list) /\ DOMAIN list = 1..size
      BY <2>3
    <2>5. size <= len /\ \A i \in 1..size : i \in 1 .. n - 1 + 1 /\ 1 + i - 1 = i
      BY <1>6, <2>3, <2>4
    <2> QED
      BY <2>3, <2>4, <2>5
  <1>9. /\ \A i \in 1..size : list[i] \in DOMAIN tq.dead
        /\ \A i, j \in 1..size : list[i] = list[j] => i = j
    <2>1. \A i \in 1..size : i \in 1..len
      BY <1>8
    <2>2. \A i \in 1..len : old[i] \in DOMAIN tq.dead
      BY <1>3, <1>4, <1>5
    <2> QED
      BY <1>4, <1>5, <1>8, <2>1, <2>2 DEF IsInjective
  <1>10. PICK e : e = [list |-> list, dead |-> DOMAIN tq.dead]
    BY Zenon
  <1>11. e.list = list /\ e.dead = DOMAIN tq.dead
    BY <1>10
  <1>12. PrunedSoFar(e, 0, tq)
    <2>1. Visited(list, 0) = {}
      BY DEF Visited
    <2> QED
      BY <1>11, <2>1 DEF PrunedSoFar
  <1>13. ASSUME NEW i \in 1..size, NEW q, PrunedSoFar(e, i - 1, q)
         PROVE  PrunedSoFar(e, i, PruneOne(e, q, list[i]))
    <2>1. PICK V : V = Visited(list, i - 1)
      OBVIOUS
    <2>2. i \in Nat /\ 1..i = (1..(i - 1)) \cup {i} /\ \A j \in 1..(i - 1) : j \in 1..size /\ j # i
      BY <1>8
    <2>3. Visited(list, i) = V \cup {list[i]} /\ list[i] \notin V
      BY <1>9, <2>1, <2>2 DEF Visited
    <2>4. QueueAt(q, {}) /\ DOMAIN q.dead = DOMAIN tq.dead \ V
      BY <1>11, <1>13, <2>1 DEF PrunedSoFar
    <2>5. list[i] \in DOMAIN q.dead
      BY <1>9, <2>3, <2>4
    <2>6. PICK t : t = remove_dead_letter(q, list[i])
      OBVIOUS
    <2>7. QueueAt(t, {}) /\ DOMAIN t.dead = DOMAIN q.dead \ {list[i]}
      BY <2>4, <2>5, <2>6, LetterRemoved
    <2>8. DOMAIN t.dead = DOMAIN tq.dead \ (V \cup {list[i]})
      BY <2>4, <2>7
    <2> QED
      BY <1>11, <2>3, <2>6, <2>7, <2>8 DEF PrunedSoFar, PruneOne
  <1>14. PrunedSoFar(e, size, PruneFold!Folded(e, tq, list))
    BY <1>8, <1>12, <1>13, PruneFold!FoldInduction
  <1>15. PruneFold!Folded(e, tq, list) = FoldLeft(remove_dead_letter, tq, list)
    BY DEF PruneFold!Folded, PruneOne, FoldLeft, PruneFold!FoldLeft,
       MapThenFoldSet, PruneFold!MapThenFoldSet, Max, PruneFold!Max
  <1>16. tq' = FoldLeft(remove_dead_letter, tq, list)
    BY <1>1, <1>2, <1>5, <1>6, <1>7 DEF prune_dead_letter_queue
  <1> QED
    BY <1>14, <1>15, <1>16 DEF PrunedSoFar

-----------------------------------------------------------------------------
\* What the calls do to the settings and the books.

SettingFields ==
    {"min_size", "fee", "daily_limit", "max_oi", "max_open", "exempt", "oracle", "listed",
     "portfolio", "paused", "flags", "price", "grace", "max_retries", "retention", "depth",
     "nonce", "hash_at", "purge"}
SettingsOK(s) == DOMAIN s = SettingFields /\ s.fee \in Nat

\* The admin's calls keep the fee a number that is not negative.
LEMMA SettingsKept ==
    ASSUME SettingsOK(tx), AmountSettingStep \/ LedgerSettingStep \/ SwitchStep
    PROVE  SettingsOK(tx')
  <1>1. DOMAIN tx = SettingFields /\ tx.fee \in Nat
    BY DEF SettingsOK
  <1>2. CASE AmountSettingStep
    <2>1. PICK v \in SettingInputs :
              \/ set_copy_trade_estimated_fee(v) \/ set_max_open_positions(v)
              \/ set_daily_volume_limit(v) \/ set_max_open_interest_per_pair(v)
              \/ \E k \in Tokens : set_min_trade_size(k, v)
      BY <1>2 DEF AmountSettingStep
    <2>2. v \in Int
      BY GateConstants
    <2>3. CASE set_copy_trade_estimated_fee(v)
      <3>1. v \in Nat /\ tx' = [tx EXCEPT !.fee = v]
        BY <2>2, <2>3 DEF set_copy_trade_estimated_fee
      <3> QED
        BY <1>1, <3>1 DEF SettingsOK, SettingFields
    <2>4. CASE set_max_open_positions(v)
      BY <1>1, <2>4 DEF SettingsOK, SettingFields, set_max_open_positions
    <2>5. CASE set_daily_volume_limit(v)
      BY <1>1, <2>5 DEF SettingsOK, SettingFields, set_daily_volume_limit
    <2>6. CASE set_max_open_interest_per_pair(v)
      BY <1>1, <2>6 DEF SettingsOK, SettingFields, set_max_open_interest_per_pair
    <2>7. ASSUME NEW k \in Tokens, set_min_trade_size(k, v)
          PROVE  SettingsOK(tx')
      BY <1>1, <2>7 DEF SettingsOK, SettingFields, set_min_trade_size
    <2> QED
      BY <2>1, <2>3, <2>4, <2>5, <2>6, <2>7
  <1>3. CASE LedgerSettingStep
    <2>1. PICK v \in SettingInputs :
              \/ set_trade_grace_period(v) \/ set_max_retry_count(v)
              \/ set_dead_letter_retention(v) \/ set_depth(v)
      BY <1>3 DEF LedgerSettingStep
    <2> QED
      BY <1>1, <2>1 DEF SettingsOK, SettingFields, set_trade_grace_period, set_max_retry_count,
         set_dead_letter_retention, set_depth
  <1>4. CASE SwitchStep
    <2>1. ASSUME NEW on \in BOOLEAN,
                 \/ apply_governance_pause(on)
                 \/ \E f \in {"copy", "dca"} : set_feature_flag(f, on)
                 \/ \E u \in CopyUsers : set_position_limit_exempt(u, on)
          PROVE  SettingsOK(tx')
      BY <1>1, <2>1 DEF SettingsOK, SettingFields, apply_governance_pause, set_feature_flag,
         set_position_limit_exempt
    <2>2. CASE set_user_portfolio
      BY <1>1, <2>2 DEF SettingsOK, SettingFields, set_user_portfolio
    <2>3. ASSUME NEW o \in Oracles, add_oracle(o) \/ remove_oracle(o) \/ set_oracle(o)
          PROVE  SettingsOK(tx')
      BY <1>1, <2>3 DEF SettingsOK, SettingFields, add_oracle, remove_oracle, set_oracle
    <2> QED
      BY <1>4, <2>1, <2>2, <2>3 DEF SwitchStep
  <1> QED
    BY <1>2, <1>3, <1>4

\* A signed call leaves the fee alone.
LEMMA CommitKeeps ==
    ASSUME SettingsOK(tx), NEW u, NEW h, NEW x
    PROVE  SettingsOK(verify_and_commit(tx, u, h, x))
  BY DEF SettingsOK, SettingFields, verify_and_commit

\* A position leaves the open ones of its user.
LEMMA OneLess ==
    ASSUME NEW b, CountOK(b), NEW p \in b.open, NEW u \in CopyUsers, u = p[1], NEW f, f.open = b.open \ {p}
    PROVE  /\ IsFiniteSet(f.open)
           /\ Cardinality(open_positions(b, u)) \in Nat /\ Cardinality(open_positions(b, u)) >= 1
           /\ Cardinality(open_positions(f, u)) = Cardinality(open_positions(b, u)) - 1
           /\ \A w \in CopyUsers \ {u} : open_positions(f, w) = open_positions(b, w)
  <1>1. IsFiniteSet(b.open) /\ IsFiniteSet(f.open)
    BY FS_RemoveElement DEF CountOK
  <1>2. IsFiniteSet(open_positions(b, u)) /\ Cardinality(open_positions(b, u)) \in Nat
    <2>1. open_positions(b, u) \in SUBSET b.open
      BY DEF open_positions
    <2> QED
      BY <1>1, <2>1, FS_Subset, FS_CardinalityType
  <1>3. open_positions(f, u) = open_positions(b, u) \ {p} /\ p \in open_positions(b, u)
        /\ \A w \in CopyUsers \ {u} : open_positions(f, w) = open_positions(b, w)
    BY DEF open_positions
  <1>4. Cardinality(open_positions(f, u)) = Cardinality(open_positions(b, u)) - 1
    BY Zenon, <1>2, <1>3, FS_RemoveElement
  <1>5. Cardinality(open_positions(b, u)) # 0
    BY <1>2, <1>3, FS_EmptySet
  <1> QED
    BY <1>1, <1>2, <1>3, <1>4, <1>5

\* The volume of books that differ elsewhere.
LEMMA SameVolumeOK ==
    ASSUME NEW b, NEW d, VolumeOK(b, d), NEW f, SameVolume(b, f)
    PROVE  VolumeOK(f, d)
  BY DEF VolumeOK, SameVolume, Counted

\* A count one lower, not below zero, follows one position less.
LEMMA CountsLess ==
    ASSUME NEW n \in Nat, NEW c \in Nat, c >= 1, NEW o \in Nat, NEW p \in Nat, CountsBetween(n, c, o, p)
    PROVE  CountsBetween(IF n > 0 THEN n - 1 ELSE 0, c - 1, o, p)
  BY DEF CountsBetween

\* A position that is closed is one less of its user, and of its count.
LEMMA PositionGone ==
    ASSUME NEW b, NEW d, BooksOK(b, d), NEW p \in b.open, NEW u \in CopyUsers, u = p[1], NEW f,
           DOMAIN f = BookFields, SameVolume(b, f), f.balance = b.balance, f.opened = b.opened,
           f.own = b.own, f.planned = b.planned, f.open = b.open \ {p},
           f.count = [b.count EXCEPT ![u] = IF b.count[u] > 0 THEN b.count[u] - 1 ELSE 0]
    PROVE  BooksOK(f, d)
  <1>1. CountOK(b) /\ VolumeOK(b, d) /\ b.balance \in [CopyUsers \X Tokens -> Int]
    BY DEF BooksOK
  <1>2. /\ IsFiniteSet(f.open)
        /\ Cardinality(open_positions(b, u)) \in Nat /\ Cardinality(open_positions(b, u)) >= 1
        /\ Cardinality(open_positions(f, u)) = Cardinality(open_positions(b, u)) - 1
        /\ \A w \in CopyUsers \ {u} : open_positions(f, w) = open_positions(b, w)
    <2>1. IsFiniteSet(f.open)
      BY <1>1, FS_RemoveElement DEF CountOK
    <2>2. Cardinality(open_positions(b, u)) \in Nat /\ Cardinality(open_positions(b, u)) >= 1
      BY SMT, <1>1, OneLess
    <2>3. Cardinality(open_positions(f, u)) = Cardinality(open_positions(b, u)) - 1
      BY SMT, <1>1, OneLess
    <2>4. \A w \in CopyUsers \ {u} : open_positions(f, w) = open_positions(b, w)
      BY SMT, <1>1, OneLess
    <2> QED
      BY <2>1, <2>2, <2>3, <2>4
  <1>3. PICK n \in Nat, c \in Nat, o \in Nat, q \in Nat :
            /\ n = b.count[u] /\ c = Cardinality(open_positions(b, u)) /\ c >= 1
            /\ o = b.own[u] /\ q = b.planned[u] /\ CountsBetween(n, c, o, q)
    BY <1>1, <1>2 DEF CountOK
  <1>4. PICK less \in Nat : less = (IF n > 0 THEN n - 1 ELSE 0) /\ CountsBetween(less, c - 1, o, q)
    BY <1>3, CountsLess
  <1>5. f.count \in [CopyUsers -> Nat] /\ f.count[u] = less
        /\ \A w \in CopyUsers \ {u} : f.count[w] = b.count[w]
    BY <1>1, <1>3, <1>4 DEF CountOK
  <1>6. ASSUME NEW w \in CopyUsers
        PROVE  CountsBetween(f.count[w], Cardinality(open_positions(f, w)), f.own[w], f.planned[w])
    <2>1. CASE w = u
      BY <1>2, <1>3, <1>4, <1>5, <2>1
    <2>2. CASE w # u
      <3>1. CountsBetween(b.count[w], Cardinality(open_positions(b, w)), b.own[w], b.planned[w])
        BY <1>1 DEF CountOK
      <3> QED
        BY <1>2, <1>5, <2>2, <3>1
    <2> QED
      BY <2>1, <2>2
  <1>7. CountOK(f)
    BY <1>1, <1>2, <1>5, <1>6 DEF CountOK
  <1>8. VolumeOK(f, d)
    BY <1>1, SameVolumeOK
  <1> QED
    BY <1>1, <1>7, <1>8 DEF BooksOK

\* A keeper's close.
LEMMA KeeperCloses ==
    ASSUME NEW d, BooksOK(tb, d), NEW p, close_position_keeper(p)
    PROVE  BooksOK(tb', d) /\ tx' = tx /\ tq' = tq
  <1>1. p \in tb.open /\ tx' = tx /\ tq' = tq
    BY DEF close_position_keeper, KeepQueue
  <1>2. PICK u \in CopyUsers : u = p[1]
    BY <1>1 DEF BooksOK, CountOK
  <1>3. DOMAIN tb = BookFields
    BY DEF BooksOK
  <1>4. PICK s : s = [tb EXCEPT !.open = tb.open \ {p}]
    BY Zenon
  <1>5. /\ DOMAIN s = BookFields /\ s.open = tb.open \ {p} /\ s.count = tb.count
        /\ SameVolume(tb, s) /\ s.balance = tb.balance /\ s.opened = tb.opened
        /\ s.own = tb.own /\ s.planned = tb.planned
    BY <1>3, <1>4 DEF BookFields, SameVolume
  <1>6. tb' = [s EXCEPT !.count[u] = IF s.count[u] > 0 THEN s.count[u] - 1 ELSE 0]
    BY <1>2, <1>4 DEF close_position_keeper, decrement_user_position_count
  <1>7. /\ DOMAIN tb' = BookFields /\ tb'.open = s.open
        /\ SameVolume(s, tb') /\ tb'.balance = s.balance /\ tb'.opened = s.opened
        /\ tb'.own = s.own /\ tb'.planned = s.planned
        /\ tb'.count = [s.count EXCEPT ![u] = IF s.count[u] > 0 THEN s.count[u] - 1 ELSE 0]
    BY <1>5, <1>6 DEF BookFields, SameVolume
  <1>8. SameVolume(tb, tb')
    BY <1>5, <1>7 DEF SameVolume
  <1>9. BooksOK(tb', d)
    BY <1>1, <1>2, <1>5, <1>7, <1>8, PositionGone
  <1> QED
    BY <1>1, <1>9

\* The user's close through the executor.
LEMMA CancelCloses ==
    ASSUME NEW d, BooksOK(tb, d), SettingsOK(tx), NEW u \in CopyUsers, NEW p, NEW k, NEW a, NEW m,
           NEW answer, NEW h, NEW x, cancel_copy_trade(u, p, k, a, m, answer, h, x)
    PROVE  BooksOK(tb', d) /\ SettingsOK(tx') /\ tq' = tq /\ tc' = tc
  <1>1. p \in tb.open /\ u = p[1] /\ tq' = tq /\ tc' = tc
    BY DEF cancel_copy_trade, open_positions
  <1>2. SettingsOK(tx')
    BY CommitKeeps DEF cancel_copy_trade
  <1>3. DOMAIN tb = BookFields
    BY DEF BooksOK
  <1>4. PICK s : s = [tb EXCEPT !.open = tb.open \ {p}]
    BY Zenon
  <1>5. PICK r : r = decrease_open_interest(s, k, a)
    OBVIOUS
  <1>6. DOMAIN s = BookFields
    BY <1>3, <1>4 DEF BookFields
  <1>7. /\ DOMAIN r = BookFields /\ r.open = tb.open \ {p} /\ r.count = tb.count
        /\ SameVolume(tb, r) /\ r.balance = tb.balance /\ r.opened = tb.opened
        /\ r.own = tb.own /\ r.planned = tb.planned
    BY <1>3, <1>4, <1>5, <1>6 DEF BookFields, SameVolume, decrease_open_interest
  <1>8. tb' = [r EXCEPT !.count[u] = IF r.count[u] > 0 THEN r.count[u] - 1 ELSE 0]
    BY <1>4, <1>5 DEF cancel_copy_trade, decrement_user_position_count
  <1>9. /\ DOMAIN tb' = BookFields /\ tb'.open = r.open
        /\ SameVolume(r, tb') /\ tb'.balance = r.balance /\ tb'.opened = r.opened
        /\ tb'.own = r.own /\ tb'.planned = r.planned
        /\ tb'.count = [r.count EXCEPT ![u] = IF r.count[u] > 0 THEN r.count[u] - 1 ELSE 0]
    BY <1>7, <1>8 DEF BookFields, SameVolume
  <1>10. SameVolume(tb, tb')
    BY <1>7, <1>9 DEF SameVolume
  <1>11. BooksOK(tb', d)
    BY <1>1, <1>7, <1>9, <1>10, PositionGone
  <1> QED
    BY <1>1, <1>2, <1>11

\* The user's close at the portfolio.
LEMMA OwnCloses ==
    ASSUME NEW d, BooksOK(tb, d), NEW p, close_at_portfolio(p)
    PROVE  BooksOK(tb', d) /\ tx' = tx /\ tq' = tq /\ tc' = tc
  <1>1. p \in tb.open /\ tx' = tx /\ tq' = tq /\ tc' = tc
    BY DEF close_at_portfolio
  <1>2. PICK u \in CopyUsers : u = p[1]
    BY <1>1 DEF BooksOK, CountOK
  <1>3. /\ DOMAIN tb = BookFields /\ CountOK(tb) /\ VolumeOK(tb, d)
        /\ tb.balance \in [CopyUsers \X Tokens -> Int]
    BY DEF BooksOK
  <1>4. tb' = [tb EXCEPT !.open = tb.open \ {p}, !.own[u] = tb.own[u] + 1]
    BY <1>2 DEF close_at_portfolio
  <1>5. /\ DOMAIN tb' = BookFields /\ tb'.open = tb.open \ {p} /\ tb'.count = tb.count
        /\ SameVolume(tb, tb') /\ tb'.balance = tb.balance /\ tb'.opened = tb.opened
        /\ tb'.own = [tb.own EXCEPT ![u] = tb.own[u] + 1] /\ tb'.planned = tb.planned
    BY <1>3, <1>4 DEF BookFields, SameVolume
  <1>6. PICK f : f = tb'
    BY Zenon
  <1>7. /\ IsFiniteSet(f.open)
        /\ Cardinality(open_positions(tb, u)) \in Nat /\ Cardinality(open_positions(tb, u)) >= 1
        /\ Cardinality(open_positions(f, u)) = Cardinality(open_positions(tb, u)) - 1
        /\ \A w \in CopyUsers \ {u} : open_positions(f, w) = open_positions(tb, w)
    BY <1>1, <1>2, <1>3, <1>5, <1>6, OneLess
  <1>8. PICK n \in Nat, c \in Nat, o \in Nat, q \in Nat :
            /\ n = tb.count[u] /\ c = Cardinality(open_positions(tb, u)) /\ c >= 1
            /\ o = tb.own[u] /\ q = tb.planned[u] /\ CountsBetween(n, c, o, q)
    BY <1>3, <1>7 DEF CountOK
  <1>9. CountsBetween(n, c - 1, o + 1, q)
    BY <1>8 DEF CountsBetween
  <1>10. f.own \in [CopyUsers -> Nat] /\ f.own[u] = o + 1
         /\ \A w \in CopyUsers \ {u} : f.own[w] = tb.own[w]
    BY <1>3, <1>5, <1>6, <1>8 DEF CountOK
  <1>11. ASSUME NEW w \in CopyUsers
         PROVE  CountsBetween(f.count[w], Cardinality(open_positions(f, w)), f.own[w], f.planned[w])
    <2>1. CASE w = u
      BY <1>5, <1>6, <1>7, <1>8, <1>9, <1>10, <2>1
    <2>2. CASE w # u
      <3>1. CountsBetween(tb.count[w], Cardinality(open_positions(tb, w)), tb.own[w], tb.planned[w])
        BY <1>3 DEF CountOK
      <3> QED
        BY <1>5, <1>6, <1>7, <1>10, <2>2, <3>1
    <2> QED
      BY <2>1, <2>2
  <1>12. CountOK(f)
    BY <1>3, <1>5, <1>6, <1>7, <1>10, <1>11 DEF CountOK
  <1>13. VolumeOK(f, d)
    BY <1>3, <1>5, <1>6, SameVolumeOK
  <1>14. BooksOK(f, d)
    BY <1>3, <1>5, <1>6, <1>12, <1>13 DEF BooksOK
  <1> QED
    BY <1>1, <1>6, <1>14

\* A position that a plan records.
LEMMA RecordedByPlan ==
    ASSUME NEW b, NEW d, BooksOK(b, d), NEW u \in CopyUsers, NEW f,
           f = [validate_and_record(b, u) EXCEPT !.planned[u] = @ + 1]
    PROVE  BooksOK(f, d)
  <1>1. DOMAIN b = BookFields /\ CountOK(b) /\ VolumeOK(b, d) /\ b.balance \in [CopyUsers \X Tokens -> Int]
    BY DEF BooksOK
  <1>2. PICK s : s = validate_and_record(b, u)
    OBVIOUS
  <1>3. /\ DOMAIN s = BookFields /\ SameVolume(b, s) /\ s.balance = b.balance /\ s.count = b.count
        /\ s.own = b.own /\ s.planned = b.planned
        /\ s.opened = b.opened + 1 /\ s.open = b.open \cup {<<u, b.opened + 1>>}
    BY <1>1, <1>2 DEF validate_and_record, BookFields, SameVolume
  <1>4. /\ DOMAIN f = BookFields /\ SameVolume(s, f) /\ f.balance = s.balance /\ f.count = s.count
        /\ f.own = s.own /\ f.planned = [s.planned EXCEPT ![u] = s.planned[u] + 1]
        /\ f.opened = s.opened /\ f.open = s.open
    BY <1>2, <1>3 DEF BookFields, SameVolume
  <1>11. f.opened = b.opened + 1 /\ f.open = b.open \cup {<<u, b.opened + 1>>}
    BY <1>3, <1>4
  <1>5. OneMore(b, f, u)
    BY Zenon, <1>1, <1>11, RecordKeeps
  <1>6. f.planned \in [CopyUsers -> Nat] /\ f.planned[u] = b.planned[u] + 1
        /\ \A w \in CopyUsers \ {u} : f.planned[w] = b.planned[w]
    <2>1. b.planned \in [CopyUsers -> Nat] /\ f.planned = [b.planned EXCEPT ![u] = b.planned[u] + 1]
      BY <1>1, <1>3, <1>4 DEF CountOK
    <2>2. PICK more \in Nat : more = b.planned[u] + 1
      BY <2>1
    <2> QED
      BY <2>1, <2>2
  <1>7. ASSUME NEW w \in CopyUsers
        PROVE  CountsBetween(f.count[w], Cardinality(open_positions(f, w)), f.own[w], f.planned[w])
    <2>1. PICK n \in Nat, c \in Nat, o \in Nat, q \in Nat :
              /\ n = b.count[w] /\ c = Cardinality(open_positions(b, w))
              /\ o = b.own[w] /\ q = b.planned[w] /\ CountsBetween(n, c, o, q)
      BY <1>1, <1>5 DEF CountOK, OneMore
    <2>2. f.count[w] = n /\ f.own[w] = o
      BY <1>3, <1>4, <2>1
    <2>3. CASE w = u
      <3>1. CountsBetween(n, c + 1, o, q + 1)
        BY <2>1 DEF CountsBetween
      <3> QED
        BY <1>5, <1>6, <2>1, <2>2, <2>3, <3>1 DEF OneMore
    <2>4. CASE w # u
      BY <1>5, <1>6, <2>1, <2>2, <2>4 DEF OneMore
    <2> QED
      BY <2>3, <2>4
  <1>8. CountOK(f)
    BY <1>1, <1>3, <1>4, <1>5, <1>6, <1>7 DEF CountOK, OneMore
  <1>9. SameVolume(b, f)
    BY <1>3, <1>4 DEF SameVolume
  <1>10. VolumeOK(f, d)
    BY <1>1, <1>9, SameVolumeOK
  <1> QED
    BY <1>1, <1>3, <1>4, <1>8, <1>10 DEF BooksOK

\* The market calls.
LEMMA MarketKeeps ==
    ASSUME NEW d \in Nat, d = trade_today, BooksOK(tb, d), SettingsOK(tx), MarketStep
    PROVE  BooksOK(tb', d) /\ SettingsOK(tx')
  <1> DEFINE Goal == BooksOK(tb', d) /\ SettingsOK(tx')
  <1> SUFFICES Goal
    OBVIOUS
  <1>1. DOMAIN tb = BookFields
    BY DEF BooksOK
  <1>2. ASSUME SameBooks(tb, tb'), tx' = tx
        PROVE  Goal
    BY <1>2, SameBooksOK
  <1> HIDE DEF Goal
  <1>3. ASSUME NEW u \in CopyUsers, NEW k \in Tokens, NEW a \in TradeAmounts, NEW p \in TradePcts,
               NEW h \in Hashes, NEW x, execute_copy_trade_market(u, k, a, p, h, x)
        PROVE  Goal
    <2>1. a \in Int /\ p \in Int \cup {NoPct}
      BY GateConstants
    <2>2. BooksOK(execute_market_copy_trade(tb, u, k, a, p).books, d)
      BY <2>1, ExecuteKeeps
    <2>3. SettingsOK(verify_and_commit(tx, u, h, x))
      BY CommitKeeps
    <2> QED
      BY <1>3, <2>2, <2>3 DEF execute_copy_trade_market, Goal
  <1>4. CASE finalize_trade
    <2>1. SameBooks(tb, tb') /\ tx' = tx
      BY <1>1, <1>4 DEF finalize_trade, SameBooks, SameVolume, BookFields
    <2> QED
      BY <1>2, <2>1
  <1>5. ASSUME NEW u, NEW n, NEW r, NEW f, record_partial_fill(u, n, r, f)
        PROVE  Goal
    <2>1. SameBooks(tb, tb') /\ tx' = tx
      BY <1>1, <1>5 DEF record_partial_fill, SameBooks, SameVolume, BookFields
    <2> QED
      BY <1>2, <2>1
  <1>6. CASE activate_market_circuit_breaker \/ reset_market_circuit_breaker
    <2>1. SameBooks(tb, tb') /\ tx' = tx
      BY <1>1, <1>6 DEF activate_market_circuit_breaker, reset_market_circuit_breaker,
         reset_circuit_breaker, SameBooks, SameVolume, BookFields
    <2> QED
      BY <1>2, <2>1
  <1>7. ASSUME NEW u \in CopyUsers, NEW k \in Tokens, NEW a \in Balances, balance_moves(u, k, a)
        PROVE  Goal
    <2>1. a \in Int
      BY GateConstants
    <2>2. tb' = [tb EXCEPT !.balance[<<u, k>>] = a] /\ tx' = tx
      BY <1>7 DEF balance_moves
    <2>3. /\ DOMAIN tb' = BookFields /\ SameVolume(tb, tb') /\ tb'.count = tb.count /\ tb'.open = tb.open
          /\ tb'.own = tb.own /\ tb'.planned = tb.planned
          /\ tb'.opened = tb.opened /\ tb'.balance = [tb.balance EXCEPT ![<<u, k>>] = a]
      BY <1>1, <2>2 DEF BookFields, SameVolume
    <2>4. tb'.balance \in [CopyUsers \X Tokens -> Int]
      BY <2>1, <2>3 DEF BooksOK
    <2>5. VolumeOK(tb', d) /\ CountOK(tb')
      <3>1. PICK f : f = tb'
        BY Zenon
      <3>2. VolumeOK(tb, d) /\ SameVolume(tb, f) /\ CountOK(tb)
        BY <2>3, <3>1 DEF BooksOK
      <3>3. VolumeOK(f, d)
        BY <3>2, SameVolumeOK
      <3>4. CountOK(f)
        BY <2>3, <3>1, <3>2 DEF CountOK, open_positions
      <3> QED
        BY <3>1, <3>3, <3>4
    <2> QED
      BY <2>2, <2>3, <2>4, <2>5 DEF BooksOK, Goal
  <1>8. ASSUME NEW m \in SettingInputs, purge_expired_nonces(m)
        PROVE  Goal
    <2>1. tb' = tb
      BY <1>8 DEF purge_expired_nonces
    <2>2. \E s, r : tx' = [tx EXCEPT !.purge = s, !.hash_at = r]
      BY Zenon, <1>8 DEF purge_expired_nonces
    <2>3. SettingsOK(tx')
      BY <2>2 DEF SettingsOK, SettingFields
    <2> QED
      BY <2>1, <2>3 DEF Goal
  <1> QED
    BY <1>3, <1>4, <1>5, <1>6, <1>7, <1>8 DEF MarketStep

\* Orders, the queue and batches.
LEMMA LimitKeeps ==
    ASSUME NEW d \in Nat, d = trade_today, seq \in Nat, BooksOK(tb, d), SettingsOK(tx),
           QueueAt(tq, {}), LimitStep
    PROVE  BooksOK(tb', d) /\ SettingsOK(tx') /\ QueueAt(tq', {})
  <1> DEFINE Goal == BooksOK(tb', d) /\ SettingsOK(tx') /\ QueueAt(tq', {})
  <1> SUFFICES Goal
    OBVIOUS
  <1> HIDE DEF Goal
  <1>1. ASSUME NEW u \in CopyUsers, NEW k \in Tokens, NEW a \in TradeAmounts, NEW price, NEW h, NEW x,
               execute_copy_trade_limit(u, k, a, NoPct, price, h, x)
        PROVE  Goal
    <2>1. DOMAIN tq = QueueFields /\ LettersOK(tq) /\ WaitingOK(tq, {}) /\ NumbersOK(tq) /\ LimitsOK(tq)
      BY DEF QueueAt
    <2>2. PICK id \in Nat : id = tq.next_order
      BY <2>1 DEF NumbersOK
    <2>3. PICK order : order = [user |-> u, token |-> k, amount |-> a, pct |-> NoPct,
                                limit_price |-> price,
                                expires_at_ledger |-> seq + TRADE_TIMEOUT_LEDGERS]
      BY Zenon
    <2>4. Row(order) /\ order.expires_at_ledger \in Int
      <3>1. a \in Int /\ TRADE_TIMEOUT_LEDGERS \in Nat
        BY GateConstants
      <3> QED
        BY <2>3, <3>1 DEF Row
    <2>5. /\ tb' = [tb EXCEPT !.short = tb.short \ {u}]
          /\ tq' = [tq EXCEPT !.orders = Put(tq.orders, id, order),
                              !.order_ids = Append(tq.order_ids, id), !.next_order = id + 1]
      BY <1>1, <2>2, <2>3 DEF execute_copy_trade_limit
    <2>6. SettingsOK(tx')
      BY <1>1, CommitKeeps DEF execute_copy_trade_limit
    <2>7. BooksOK(tb', d)
      <3>1. SameBooks(tb, tb')
        BY <2>5 DEF BooksOK, SameBooks, SameVolume, BookFields
      <3> QED
        BY <3>1, SameBooksOK
    <2>8. /\ DOMAIN tq' = QueueFields /\ tq'.orders = Put(tq.orders, id, order)
          /\ tq'.order_ids = Append(tq.order_ids, id) /\ tq'.next_order = id + 1
          /\ tq'.queued = tq.queued /\ tq'.ids = tq.ids /\ tq'.dead = tq.dead
          /\ tq'.dead_of = tq.dead_of /\ tq'.dead_all = tq.dead_all /\ tq'.next = tq.next
      BY <2>1, <2>5 DEF QueueFields
    <2>9. /\ DOMAIN tq'.orders = DOMAIN tq.orders \cup {id} /\ tq'.orders[id] = order
          /\ \A i \in DOMAIN tq.orders : i # id => tq'.orders[i] = tq.orders[i]
      BY <2>8 DEF Put
    <2>10. \A i \in DOMAIN tq.orders : i \in Nat /\ i < id
      BY <2>1, <2>2 DEF NumbersOK
    <2>11. id \notin DOMAIN tq.orders
      BY <2>10
    <2>12. NumbersOK(tq')
      <3>1. \A i \in DOMAIN tq'.orders : i \in Nat /\ i < id + 1
        BY <2>9, <2>10
      <3> QED
        BY <2>1, <2>8, <3>1 DEF NumbersOK
    <2>13. LimitsOK(tq')
      <3>1. ListOf(tq'.order_ids, DOMAIN tq'.orders)
        BY <2>1, <2>8, <2>9, <2>11, ListAppends DEF LimitsOK
      <3>2. \A i \in DOMAIN tq'.orders : Row(tq'.orders[i]) /\ tq'.orders[i].expires_at_ledger \in Int
        BY <2>1, <2>4, <2>9 DEF LimitsOK
      <3> QED
        BY <3>1, <3>2 DEF LimitsOK
    <2>14. WaitingOK(tq', {})
      BY <2>1, <2>8 DEF WaitingOK
    <2>15. LettersOK(tq')
      BY Zenon, <2>1, <2>8 DEF LettersOK, DeadOf
    <2> QED
      BY <2>6, <2>7, <2>8, <2>12, <2>13, <2>14, <2>15 DEF Goal, QueueAt
  <1>2. ASSUME NEW k \in Tokens, check_pending_limit_orders(k)
        PROVE  Goal
    <2>1. tx' = tx
      BY Zenon, <1>2 DEF check_pending_limit_orders
    <2>2. BooksOK(tb', d) /\ QueueAt(tq', {})
      BY <1>2, OrdersKeep
    <2> QED
      BY <2>1, <2>2 DEF Goal
  <1>3. ASSUME NEW k \in Tokens, NEW v, set_sdex_price(k, v), UNCHANGED <<tb, tq>>
        PROVE  Goal
    <2>1. SettingsOK(tx')
      BY <1>3 DEF set_sdex_price, SettingsOK, SettingFields
    <2>2. tb' = tb /\ tq' = tq
      BY <1>3
    <2> QED
      BY <2>1, <2>2 DEF Goal
  <1> QED
    BY <1>1, <1>2, <1>3 DEF LimitStep

\* The calls on the queue.
LEMMA QueuedKeeps ==
    ASSUME NEW d \in Nat, d = trade_today, BooksOK(tb, d), QueueAt(tq, {}), QueuedStep
    PROVE  BooksOK(tb', d) /\ tx' = tx /\ QueueAt(tq', {})
  <1> DEFINE Goal == BooksOK(tb', d) /\ tx' = tx /\ QueueAt(tq', {})
  <1> SUFFICES Goal
    OBVIOUS
  <1>1. ASSUME UNCHANGED <<tx, tb>>, QueueAt(tq', {})
        PROVE  Goal
    <2>1. tx' = tx /\ tb' = tb
      BY <1>1
    <2> QED
      BY <1>1, <2>1
  <1> HIDE DEF Goal
  <1>2. DOMAIN tq = QueueFields /\ LettersOK(tq) /\ WaitingOK(tq, {}) /\ NumbersOK(tq) /\ LimitsOK(tq)
    BY DEF QueueAt
  <1>3. ASSUME NEW i \in QueueInputs, queue_copy_trade(i.user, i.token, i.amount, i.pct)
        PROVE  Goal
    <2>1. i.user \in CopyUsers /\ i.amount \in Int /\ i.token \in Tokens /\ i.pct \in Int \cup {NoPct}
      <3>1. i \in [user : CopyUsers, token : Tokens, amount : Int, pct : Int \cup {NoPct}]
        BY TradeQueueConstants
      <3> QED
        BY <3>1
    <2>2. PICK id \in Nat : id = tq.next
      BY <1>2 DEF NumbersOK
    <2>3. PICK row : row = [user |-> i.user, token |-> i.token, amount |-> i.amount, pct |-> i.pct,
                            queued_at_ledger |-> seq, retry_count |-> 0]
      BY Zenon
    <2>4. Row(row)
      BY <2>1, <2>3 DEF Row
    <2>5. PICK q : q = [tq EXCEPT !.next = id + 1]
      BY Zenon
    <2>6. tq' = store_queued_trade(q, id, row) /\ UNCHANGED <<tx, tb>>
      BY <1>3, <2>2, <2>3, <2>5 DEF queue_copy_trade
    <2>7. /\ DOMAIN q = QueueFields /\ q.next = id + 1 /\ q.queued = tq.queued /\ q.ids = tq.ids
          /\ q.dead = tq.dead /\ q.dead_of = tq.dead_of /\ q.dead_all = tq.dead_all
          /\ q.orders = tq.orders /\ q.order_ids = tq.order_ids /\ q.next_order = tq.next_order
      BY <1>2, <2>5 DEF QueueFields
    <2>8. \A n \in DOMAIN tq.queued \cup DOMAIN tq.dead : n \in Nat /\ n < id
      BY <1>2, <2>2 DEF NumbersOK
    <2>9. QueueAt(q, {})
      <3>1. NumbersOK(q)
        <4>1. \A n \in DOMAIN tq.queued \cup DOMAIN tq.dead : n \in Nat /\ n < id + 1
          BY <2>8
        <4> QED
          BY <1>2, <2>7, <4>1 DEF NumbersOK
      <3>2. WaitingOK(q, {})
        BY <1>2, <2>7 DEF WaitingOK
      <3>3. LettersOK(q)
        BY Zenon, <1>2, <2>7 DEF LettersOK, DeadOf
      <3>4. LimitsOK(q)
        BY <1>2, <2>7 DEF LimitsOK
      <3> QED
        BY <2>7, <3>1, <3>2, <3>3, <3>4 DEF QueueAt
    <2>10. id \notin DOMAIN q.queued /\ id \notin DOMAIN q.dead /\ id < q.next
      BY <2>7, <2>8
    <2>11. QueueAt(tq', {})
      BY <2>4, <2>6, <2>9, <2>10, QueuedStored
    <2> QED
      BY <1>1, <2>6, <2>11
  <1>4. ASSUME NEW u, NEW id, cancel_queued_trade(u, id)
        PROVE  Goal
    <2>1. id \in DOMAIN tq.queued /\ UNCHANGED <<tx, tb>>
          /\ tq' = [tq EXCEPT !.queued = Drop(tq.queued, id), !.ids = Without(tq.ids, id)]
      BY <1>4 DEF cancel_queued_trade
    <2>2. /\ DOMAIN tq' = QueueFields /\ tq'.queued = Drop(tq.queued, id)
          /\ tq'.ids = Without(tq.ids, id) /\ tq'.next = tq.next
          /\ tq'.dead = tq.dead /\ tq'.dead_of = tq.dead_of /\ tq'.dead_all = tq.dead_all
          /\ tq'.orders = tq.orders /\ tq'.order_ids = tq.order_ids /\ tq'.next_order = tq.next_order
      BY <1>2, <2>1 DEF QueueFields
    <2>3. /\ DOMAIN tq'.queued = DOMAIN tq.queued \ {id}
          /\ \A n \in DOMAIN tq'.queued : tq'.queued[n] = tq.queued[n]
      BY <2>2 DEF Drop
    <2>4. PICK D : D = DOMAIN tq.queued /\ ListOf(tq.ids, D)
      <3>1. DOMAIN tq.queued \ {} = DOMAIN tq.queued
        OBVIOUS
      <3> QED
        BY <1>2, <3>1 DEF WaitingOK
    <2>5. ListOf(Without(tq.ids, id), D \ {id}) /\ DOMAIN tq'.queued \ {} = D \ {id}
      BY <2>3, <2>4, WithoutDrops
    <2>6. WaitingOK(tq', {})
      BY <1>2, <2>2, <2>3, <2>5 DEF WaitingOK
    <2>7. LettersOK(tq')
      BY <1>2, <2>2 DEF LettersOK, DeadOf
    <2>8. NumbersOK(tq')
      BY <1>2, <2>2, <2>3 DEF NumbersOK
    <2>9. LimitsOK(tq')
      BY <1>2, <2>2 DEF LimitsOK
    <2>10. QueueAt(tq', {})
      BY <2>2, <2>6, <2>7, <2>8, <2>9 DEF QueueAt
    <2> QED
      BY <1>1, <2>1, <2>10
  <1>5. CASE execute_queued_trades
    <2>1. PICK run : run = FoldLeft(visit_queued, [books |-> tb, queue |-> [tq EXCEPT !.ids = <<>>]], tq.ids)
      OBVIOUS
    <2>2. BooksOK(run.books, d) /\ QueueAt(run.queue, {})
      BY <2>1, WalkKeeps
    <2>3. tb' = run.books /\ tq' = run.queue /\ tx' = tx
      BY <1>5, <2>1 DEF execute_queued_trades
    <2> QED
      BY <2>2, <2>3 DEF Goal
  <1>6. ASSUME NEW id \in DOMAIN tq.dead, requeue_dead_lettered_trade(id)
        PROVE  Goal
    <2>1. PICK q : q = remove_dead_letter(tq, id)
      OBVIOUS
    <2>2. QueueAt(q, {}) /\ DOMAIN q.dead = DOMAIN tq.dead \ {id} /\ q.queued = tq.queued /\ q.next = tq.next
      BY <2>1, LetterRemoved
    <2>3. Row(tq.dead[id]) /\ id \notin DOMAIN tq.queued /\ id \in Nat /\ id < tq.next
      BY <1>2, <1>6 DEF LettersOK, WaitingOK, NumbersOK
    <2>4. PICK row : row = [user |-> tq.dead[id].user, token |-> tq.dead[id].token,
                            amount |-> tq.dead[id].amount, pct |-> tq.dead[id].pct,
                            queued_at_ledger |-> seq, retry_count |-> 0]
      BY Zenon
    <2>5. Row(row)
      BY <2>3, <2>4 DEF Row
    <2>6. tq' = store_queued_trade(q, id, row) /\ UNCHANGED <<tx, tb>>
      BY <1>6, <2>1, <2>4 DEF requeue_dead_lettered_trade
    <2>7. QueueAt(tq', {})
      BY <2>2, <2>3, <2>5, <2>6, QueuedStored
    <2> QED
      BY <1>1, <2>6, <2>7
  <1>7. ASSUME NEW id \in DOMAIN tq.dead, discard_dead_lettered_trade(id)
        PROVE  Goal
    <2>1. tq' = remove_dead_letter(tq, id) /\ UNCHANGED <<tx, tb>>
      BY <1>7 DEF discard_dead_lettered_trade
    <2>2. QueueAt(tq', {})
      BY <2>1, LetterRemoved
    <2> QED
      BY <1>1, <2>1, <2>2
  <1>8. ASSUME NEW m \in SettingInputs, prune_dead_letter_queue(tq.dead_all, m)
        PROVE  Goal
    <2>1. m \in Int /\ ListOf(tq.dead_all, DOMAIN tq.dead) /\ DOMAIN tq.dead \in SUBSET DOMAIN tq.dead
      BY <1>2, GateConstants DEF LettersOK
    <2>2. UNCHANGED <<tx, tb>>
      BY <1>8 DEF prune_dead_letter_queue
    <2>3. QueueAt(tq', {})
      BY <1>8, <2>1, PruneKeeps
    <2> QED
      BY <1>1, <2>2, <2>3
  <1>9. ASSUME NEW m \in SettingInputs, NEW u \in CopyUsers, prune_dead_letter_queue(tq.dead_of[u], m)
        PROVE  Goal
    <2>1. m \in Int /\ ListOf(tq.dead_of[u], DeadOf(tq, u))
      BY <1>2, GateConstants DEF LettersOK
    <2>2. DeadOf(tq, u) \in SUBSET DOMAIN tq.dead
      BY DEF DeadOf
    <2>3. UNCHANGED <<tx, tb>>
      BY <1>9 DEF prune_dead_letter_queue
    <2>4. QueueAt(tq', {})
      BY <1>9, <2>1, <2>2, PruneKeeps
    <2> QED
      BY <1>1, <2>3, <2>4
  <1> QED
    BY <1>3, <1>4, <1>5, <1>6, <1>7, <1>8, <1>9 DEF QueuedStep

\* Batches.
LEMMA BatchStepKeeps ==
    ASSUME NEW d \in Nat, d = trade_today, BooksOK(tb, d), BatchStep
    PROVE  BooksOK(tb', d) /\ tx' = tx /\ tq' = tq
  <1>1. PICK trades \in BatchInputs : batch_execute(trades) \/ batch_execute_atomic(trades)
    BY DEF BatchStep
  <1>2. tb' = run_batch(trades).books /\ tx' = tx /\ tq' = tq
    BY <1>1 DEF batch_execute, batch_execute_atomic
  <1> QED
    BY <1>2, BatchKeeps

-----------------------------------------------------------------------------
\* The settlement orders.

CloseFields ==
    {"callbacks", "plans", "stop", "take", "trail", "watch", "keeper", "price", "price_at",
     "router", "orders", "user_orders", "window", "counter"}
OrderFields == {"user", "requested", "settled", "status", "fills", "min_output", "max_input"}

\* An order's fills add up to what is settled, which is all only when the order says so.
OrderOK(o) ==
    /\ DOMAIN o = OrderFields /\ o.user \in CopyUsers /\ o.requested \in Int
    /\ o.settled \in Int /\ o.fills \in Seq(Int) /\ o.settled = SumSeq(o.fills)
    /\ o.settled <= o.requested
    /\ (o.settled = o.requested) <=> (o.status = "FullySettled")

\* Every order is right and in the list of its user.
SettleOK(c) ==
    /\ DOMAIN c = CloseFields
    /\ Len(c.orders) \in Nat /\ DOMAIN c.orders = 1..Len(c.orders)
    /\ \E S : c.orders \in Seq(S)
    /\ c.user_orders \in [CopyUsers -> Seq(Nat)]
    /\ \A id \in DOMAIN c.orders :
           OrderOK(c.orders[id]) /\ id \in ToSet(c.user_orders[c.orders[id].user])

\* Orders that are left alone stay right.
LEMMA OrdersLeftAlone ==
    ASSUME SettleOK(tc), DOMAIN tc' = CloseFields, tc'.orders = tc.orders,
           tc'.user_orders = tc.user_orders
    PROVE  SettleOK(tc')
  BY Zenon DEF SettleOK

\* What is appended is in the list, with what was there.
LEMMA AppendedTo ==
    ASSUME NEW list \in Seq(Nat), NEW n \in Nat
    PROVE  /\ Append(list, n) \in Seq(Nat) /\ n \in ToSet(Append(list, n))
           /\ ToSet(list) \subseteq ToSet(Append(list, n))
  <1> DEFINE more == Append(list, n)
  <1>1. more \in Seq(Nat) /\ Len(more) = Len(list) + 1 /\ Len(list) \in Nat
    OBVIOUS
  <1>2. more[Len(list) + 1] = n /\ \A i \in 1..Len(list) : more[i] = list[i]
    OBVIOUS
  <1>3. DOMAIN more = 1..(Len(list) + 1) /\ DOMAIN list = 1..Len(list)
    BY <1>1
  <1> HIDE DEF more
  <1>4. n \in ToSet(more) /\ ToSet(list) \subseteq ToSet(more)
    BY <1>1, <1>2, <1>3 DEF ToSet
  <1> QED
    BY <1>1, <1>4 DEF more

\* A new order has nothing settled and is listed.
LEMMA OrderCreated ==
    ASSUME SettleOK(tc), NEW u \in CopyUsers, NEW a \in Int, NEW bounds,
           create_settlement_order(u, a, bounds)
    PROVE  SettleOK(tc')
  <1>1. PICK c : c = tc
    OBVIOUS
  <1>2. /\ DOMAIN c = CloseFields /\ Len(c.orders) \in Nat /\ DOMAIN c.orders = 1..Len(c.orders)
        /\ c.user_orders \in [CopyUsers -> Seq(Nat)]
        /\ \A id \in DOMAIN c.orders :
               OrderOK(c.orders[id]) /\ id \in ToSet(c.user_orders[c.orders[id].user])
    BY Zenon, <1>1 DEF SettleOK
  <1>3. PICK S : c.orders \in Seq(S)
    BY <1>1 DEF SettleOK
  <1>4. PICK o : o = [user |-> u, requested |-> a, settled |-> 0, status |-> "Open", fills |-> <<>>,
                      min_output |-> bounds.min_output, max_input |-> bounds.max_input]
    BY Zenon
  <1>5. PICK n \in Nat : n = Len(c.orders)
    BY <1>2
  <1>6. a > 0 /\ tc' = [c EXCEPT !.orders = Append(c.orders, o),
                                !.user_orders[u] = Append(c.user_orders[u], n + 1)]
    BY <1>1, <1>4, <1>5 DEF create_settlement_order
  <1>7. /\ DOMAIN tc' = CloseFields /\ tc'.orders = Append(c.orders, o)
        /\ tc'.user_orders = [c.user_orders EXCEPT ![u] = Append(c.user_orders[u], n + 1)]
    BY <1>2, <1>6 DEF CloseFields
  <1>8. OrderOK(o)
    <2>1. /\ DOMAIN o = OrderFields /\ o.user = u /\ o.requested = a /\ o.settled = 0
          /\ o.fills = <<>> /\ o.status = "Open"
      BY <1>4 DEF OrderFields
    <2>2. <<>> \in Seq(Int)
      OBVIOUS
    <2> QED
      BY <1>6, <2>1, <2>2, SumOfNone DEF OrderOK
  <1>9. PICK more : more = Append(c.orders, o)
    BY Zenon
  <1>10. /\ more \in Seq(S \cup {o}) /\ Len(more) = n + 1 /\ DOMAIN more = 1..(n + 1)
         /\ more[n + 1] = o /\ \A id \in 1..n : more[id] = c.orders[id]
    <2>1. c.orders \in Seq(S \cup {o}) /\ o \in S \cup {o}
      BY <1>3
    <2> QED
      BY <1>5, <1>9, <2>1
  <1>11. PICK l \in Seq(Nat) : l = c.user_orders[u]
    BY <1>2
  <1>12. PICK m : m = Append(l, n + 1)
    BY Zenon
  <1>13. m \in Seq(Nat) /\ n + 1 \in ToSet(m) /\ ToSet(l) \subseteq ToSet(m)
    BY <1>5, <1>12, AppendedTo
  <1>14. tc'.user_orders \in [CopyUsers -> Seq(Nat)] /\ tc'.user_orders[u] = m
         /\ \A w \in CopyUsers : ToSet(c.user_orders[w]) \subseteq ToSet(tc'.user_orders[w])
    BY <1>2, <1>7, <1>11, <1>12, <1>13
  <1>15. ASSUME NEW id \in 1..(n + 1)
         PROVE  OrderOK(more[id]) /\ id \in ToSet(tc'.user_orders[more[id].user])
    <2>1. CASE id = n + 1
      <3>1. more[id] = o /\ o.user = u
        BY <1>4, <1>10, <2>1
      <3> QED
        BY <1>8, <1>13, <1>14, <2>1, <3>1
    <2>2. CASE id # n + 1
      <3>1. id \in 1..n /\ id \in DOMAIN c.orders
        BY <1>2, <1>5, <2>2
      <3>2. more[id] = c.orders[id] /\ OrderOK(c.orders[id])
            /\ id \in ToSet(c.user_orders[c.orders[id].user]) /\ c.orders[id].user \in CopyUsers
        BY Zenon, <1>2, <1>10, <3>1 DEF OrderOK
      <3> QED
        BY Zenon, <1>14, <3>2
    <2> QED
      BY <2>1, <2>2
  <1>16. \E R : tc'.orders \in Seq(R)
    BY <1>7, <1>9, <1>10
  <1> QED
    BY <1>7, <1>9, <1>10, <1>14, <1>15, <1>16 DEF SettleOK

\* One order is replaced by another of the same user.
LEMMA OrderReplaced ==
    ASSUME SettleOK(tc), NEW id \in DOMAIN tc.orders, NEW o, OrderOK(o),
           o.user = tc.orders[id].user, tc' = [tc EXCEPT !.orders = [tc.orders EXCEPT ![id] = o]]
    PROVE  SettleOK(tc')
  <1>1. PICK c : c = tc
    OBVIOUS
  <1>2. /\ DOMAIN c = CloseFields /\ Len(c.orders) \in Nat /\ DOMAIN c.orders = 1..Len(c.orders)
        /\ c.user_orders \in [CopyUsers -> Seq(Nat)]
        /\ \A i \in DOMAIN c.orders :
               OrderOK(c.orders[i]) /\ i \in ToSet(c.user_orders[c.orders[i].user])
    BY Zenon, <1>1 DEF SettleOK
  <1>3. PICK S : c.orders \in Seq(S)
    BY <1>1 DEF SettleOK
  <1>4. /\ DOMAIN tc' = CloseFields /\ tc'.orders = [c.orders EXCEPT ![id] = o]
        /\ tc'.user_orders = c.user_orders
    BY <1>1, <1>2 DEF CloseFields
  <1>5. PICK s : s = [c.orders EXCEPT ![id] = o]
    BY Zenon
  <1>6. s \in Seq(S \cup {o}) /\ Len(s) = Len(c.orders)
    <2>1. c.orders \in Seq(S \cup {o}) /\ o \in S \cup {o} /\ id \in 1..Len(c.orders)
      BY <1>1, <1>2, <1>3
    <2> QED
      BY <1>5, <2>1
  <1>7. DOMAIN s = DOMAIN c.orders /\ \A i \in DOMAIN c.orders : s[i] = IF i = id THEN o ELSE c.orders[i]
    BY <1>1, <1>3, <1>5
  <1>8. \A i \in DOMAIN s : OrderOK(s[i]) /\ i \in ToSet(c.user_orders[s[i].user])
    BY <1>1, <1>2, <1>7
  <1> QED
    BY Zenon, <1>2, <1>4, <1>5, <1>6, <1>7, <1>8 DEF SettleOK

\* A fill is booked.
LEMMA OrderFilled ==
    ASSUME SettleOK(tc), NEW id \in DOMAIN tc.orders, NEW f \in Int, NEW input,
           settle_batch(id, f, input)
    PROVE  SettleOK(tc')
  <1>1. PICK o : o = tc.orders[id]
    OBVIOUS
  <1>2. OrderOK(o)
    BY <1>1 DEF SettleOK
  <1>3. PICK n : n = [o EXCEPT !.settled = o.settled + f, !.fills = Append(o.fills, f),
                           !.status = IF f = remaining(o) THEN "FullySettled"
                                      ELSE "PartiallyFilled"]
    OBVIOUS
  <1>4. f <= remaining(o) /\ tc' = [tc EXCEPT !.orders[id] = n]
    BY <1>1, <1>3 DEF settle_batch
  <1>5. tc' = [tc EXCEPT !.orders = [tc.orders EXCEPT ![id] = n]]
    BY <1>4
  <1>6. /\ DOMAIN n = OrderFields /\ n.user = o.user /\ n.requested = o.requested
        /\ n.settled = o.settled + f /\ n.fills = Append(o.fills, f)
        /\ n.status = IF f = o.requested - o.settled THEN "FullySettled" ELSE "PartiallyFilled"
    BY <1>2, <1>3 DEF OrderOK, OrderFields, remaining
  <1>7. PICK r \in Int, t \in Int : r = o.requested /\ t = o.settled
    BY <1>2 DEF OrderOK
  <1>8. Append(o.fills, f) \in Seq(Int) /\ SumSeq(Append(o.fills, f)) = t + f
    BY <1>2, <1>7, SumOfAppended DEF OrderOK
  <1>9. t + f \in Int /\ t + f <= r /\ ((t + f = r) <=> (f = r - t))
    BY <1>4, <1>7 DEF remaining
  <1>10. (n.settled = n.requested) <=> (n.status = "FullySettled")
    BY <1>6, <1>7, <1>9
  <1>11. OrderOK(n)
    BY <1>2, <1>6, <1>7, <1>8, <1>9, <1>10 DEF OrderOK
  <1> QED
    BY Zenon, <1>1, <1>5, <1>6, <1>11, OrderReplaced

\* An order that fails is not fully settled.
LEMMA OrderFailed ==
    ASSUME SettleOK(tc), NEW id \in DOMAIN tc.orders, fail_settlement_order(id)
    PROVE  SettleOK(tc')
  <1>1. PICK o : o = tc.orders[id]
    OBVIOUS
  <1>2. OrderOK(o)
    BY <1>1 DEF SettleOK
  <1>3. PICK n : n = [o EXCEPT !.status = "Failed"]
    BY Zenon
  <1>4. o.status # "FullySettled" /\ tc' = [tc EXCEPT !.orders[id].status = "Failed"]
    BY <1>1 DEF fail_settlement_order, is_closed
  <1>5. tc' = [tc EXCEPT !.orders = [tc.orders EXCEPT ![id] = n]]
    BY <1>1, <1>3, <1>4
  <1>6. /\ DOMAIN n = OrderFields /\ n.user = o.user /\ n.requested = o.requested
        /\ n.settled = o.settled /\ n.fills = o.fills /\ n.status = "Failed"
    BY <1>2, <1>3 DEF OrderOK, OrderFields
  <1>7. OrderOK(n)
    BY <1>2, <1>4, <1>6 DEF OrderOK
  <1> QED
    BY <1>1, <1>5, <1>6, <1>7, OrderReplaced

-----------------------------------------------------------------------------
\* Plans, closes, callbacks, triggers and settlement.

Kept(d) == BooksOK(tb', d) /\ SettingsOK(tx') /\ QueueAt(tq', {}) /\ SettleOK(tc')

\* A call that touches neither the trades nor the orders.
LEMMA CloseKept ==
    ASSUME NEW d, BooksOK(tb, d), SettingsOK(tx), QueueAt(tq, {}), SettleOK(tc), KeepTrades,
           DOMAIN tc' = CloseFields, tc'.orders = tc.orders, tc'.user_orders = tc.user_orders
    PROVE  Kept(d)
  <1>1. SettleOK(tc')
    BY OrdersLeftAlone
  <1> QED
    BY <1>1 DEF Kept, KeepTrades

\* Dollar-cost plans.
LEMMA PlanKeeps ==
    ASSUME NEW d, BooksOK(tb, d), SettingsOK(tx), QueueAt(tq, {}), SettleOK(tc), PlanStep
    PROVE  Kept(d)
  <1>1. DOMAIN tc = CloseFields
    BY DEF SettleOK
  <1>2. PICK u \in CopyUsers, s \in Signals :
            \/ \E plan \in PlanInputs : execute_dca_copy_trade(u, s, plan)
            \/ execute_dca_interval(u, s) \/ cancel_dca_plan(u, s)
    BY DEF PlanStep
  <1>3. ASSUME NEW v, tc' = [tc EXCEPT !.plans = v]
        PROVE  DOMAIN tc' = CloseFields /\ tc'.orders = tc.orders /\ tc'.user_orders = tc.user_orders
    BY <1>1, <1>3 DEF CloseFields
  <1>4. ASSUME NEW plan \in PlanInputs, execute_dca_copy_trade(u, s, plan)
        PROVE  Kept(d)
    <2>1. (\E v : tc' = [tc EXCEPT !.plans = v]) /\ KeepTrades
      BY Zenon, <1>4 DEF execute_dca_copy_trade
    <2> QED
      BY <1>3, <2>1, CloseKept
  <1>5. CASE cancel_dca_plan(u, s)
    <2>1. (\E v : tc' = [tc EXCEPT !.plans = v]) /\ KeepTrades
      BY Zenon, <1>5 DEF cancel_dca_plan
    <2> QED
      BY <1>3, <2>1, CloseKept
  <1>6. CASE execute_dca_interval(u, s)
    <2>1. (\E v : tc' = [tc EXCEPT !.plans = v]) /\ tx' = tx /\ tq' = tq
      BY Zenon, <1>6 DEF execute_dca_interval, KeepQueue
    <2>2. SettleOK(tc')
      BY <1>3, <2>1, OrdersLeftAlone
    <2>3. BooksOK([validate_and_record(tb, u) EXCEPT !.planned[u] = @ + 1], d)
      BY Zenon, RecordedByPlan
    <2>4. tb' = [validate_and_record(tb, u) EXCEPT !.planned[u] = @ + 1] \/ tb' = tb
      BY Zenon, <1>6 DEF execute_dca_interval
    <2>5. BooksOK(tb', d)
      BY Zenon, <2>3, <2>4
    <2> QED
      BY <2>1, <2>2, <2>5 DEF Kept
  <1> QED
    BY <1>2, <1>4, <1>5, <1>6

\* Cancelled copy trades.
LEMMA CancelKeeps ==
    ASSUME NEW d, BooksOK(tb, d), SettingsOK(tx), QueueAt(tq, {}), SettleOK(tc), CancelStep
    PROVE  Kept(d)
  <1>1. ASSUME NEW u \in CopyUsers, NEW p \in tb.open, NEW k \in Tokens, NEW a \in TradeAmounts,
               NEW h \in Hashes, NEW x \in TxLifetimes, NEW answer \in RouterAnswers,
               cancel_copy_trade(u, p, k, a, min_received_from_slippage(a, 5000), answer, h, now + x)
        PROVE  Kept(d)
    <2>1. BooksOK(tb', d) /\ SettingsOK(tx') /\ tq' = tq /\ tc' = tc
      BY <1>1, CancelCloses
    <2> QED
      BY <2>1 DEF Kept
  <1>2. ASSUME NEW p \in tb.open, close_at_portfolio(p)
        PROVE  Kept(d)
    <2>1. BooksOK(tb', d) /\ tx' = tx /\ tq' = tq /\ tc' = tc
      BY <1>2, OwnCloses
    <2> QED
      BY <2>1 DEF Kept
  <1> QED
    BY <1>1, <1>2 DEF CancelStep

\* Settlement callbacks.
LEMMA CallbackKeeps ==
    ASSUME NEW d, BooksOK(tb, d), SettingsOK(tx), QueueAt(tq, {}), SettleOK(tc), CallbackStep
    PROVE  Kept(d)
  <1>1. DOMAIN tc = CloseFields
    BY DEF SettleOK
  <1>2. PICK t \in {1}, e \in Executors, r \in Routes :
            expect_settlement_callback(t, e, r) \/ accept_settlement_callback(e, t, r)
    BY DEF CallbackStep
  <1>3. (\E v : tc' = [tc EXCEPT !.callbacks = v]) /\ KeepTrades
    BY <1>2 DEF expect_settlement_callback, accept_settlement_callback
  <1>4. DOMAIN tc' = CloseFields /\ tc'.orders = tc.orders /\ tc'.user_orders = tc.user_orders
    BY <1>1, <1>3 DEF CloseFields
  <1> QED
    BY <1>3, <1>4, CloseKept

\* Prices, triggers and the positions they close.
LEMMA TriggerKeeps ==
    ASSUME NEW d, BooksOK(tb, d), SettingsOK(tx), QueueAt(tq, {}), SettleOK(tc), TriggerStep
    PROVE  Kept(d)
  <1> DEFINE Same == DOMAIN tc' = CloseFields /\ tc'.orders = tc.orders /\ tc'.user_orders = tc.user_orders
  <1>1. DOMAIN tc = CloseFields
    BY DEF SettleOK
  <1>2. ASSUME Same, KeepTrades
        PROVE  Kept(d)
    BY <1>2, CloseKept
  <1>3. ASSUME NEW p, Same, close_position_keeper(p)
        PROVE  Kept(d)
    <2>1. BooksOK(tb', d) /\ tx' = tx /\ tq' = tq
      BY <1>3, KeeperCloses
    <2>2. SettleOK(tc')
      BY <1>3, OrdersLeftAlone
    <2> QED
      BY <2>1, <2>2 DEF Kept
  <1>4. ASSUME NEW price \in Prices, oracle_publishes(price)
        PROVE  Kept(d)
    <2>1. Same /\ KeepTrades
      BY <1>1, <1>4 DEF oracle_publishes, CloseFields
    <2> QED
      BY <1>2, <2>1
  <1>5. ASSUME NEW p \in tb.open, NEW price \in Prices,
               set_stop_loss_price(p, price) \/ set_take_profit_price(p, price)
                   \/ set_take_profit_price_with_pair(p, price)
        PROVE  Kept(d)
    <2>1. Same /\ KeepTrades
      BY Zenon, <1>1, <1>5 DEF set_stop_loss_price, set_take_profit_price, set_take_profit_price_with_pair,
         CloseFields
    <2> QED
      BY <1>2, <2>1
  <1>6. ASSUME NEW p \in tb.open, NEW price \in Prices, NEW bps \in TrailBps,
               set_trailing_stop(p, bps, price)
        PROVE  Kept(d)
    <2>1. Same /\ KeepTrades
      BY <1>1, <1>6 DEF set_trailing_stop, CloseFields
    <2> QED
      BY <1>2, <2>1
  <1>7. ASSUME NEW p \in tb.open, check_and_trigger_stop_loss(p) \/ check_and_trigger_take_profit(p)
        PROVE  Kept(d)
    <2>1. close_position_keeper(p) /\ tc' = tc
      BY <1>7 DEF check_and_trigger_stop_loss, check_and_trigger_take_profit
    <2>2. Same
      BY <1>1, <2>1
    <2> QED
      BY <1>3, <2>1, <2>2
  <1>8. ASSUME NEW p \in tb.open, check_and_trigger_trailing_stop(p)
        PROVE  Kept(d)
    <2>1. tc' = [tc EXCEPT !.trail[p].peak =
                       IF tc.price > tc.trail[p].peak THEN tc.price ELSE tc.trail[p].peak]
      BY <1>8 DEF check_and_trigger_trailing_stop
    <2>2. Same
      BY <1>1, <2>1 DEF CloseFields
    <2>3. close_position_keeper(p) \/ KeepTrades
      BY <1>8 DEF check_and_trigger_trailing_stop
    <2> QED
      BY <1>2, <1>3, <2>2, <2>3
  <1>9. CASE set_stop_loss_portfolio \/ set_sdex_router
    <2>1. Same /\ KeepTrades
      BY <1>1, <1>9 DEF set_stop_loss_portfolio, set_sdex_router, CloseFields
    <2> QED
      BY <1>2, <2>1
  <1> QED
    BY <1>4, <1>5, <1>6, <1>7, <1>8, <1>9 DEF TriggerStep

\* Settlement orders and the batch priority.
LEMMA SettlementKeeps ==
    ASSUME NEW d, BooksOK(tb, d), SettingsOK(tx), QueueAt(tq, {}), SettleOK(tc), SettlementStep
    PROVE  Kept(d)
  <1>1. DOMAIN tc = CloseFields
    BY DEF SettleOK
  <1>2. ASSUME KeepTrades, SettleOK(tc')
        PROVE  Kept(d)
    BY <1>2 DEF Kept, KeepTrades
  <1>3. ASSUME NEW u \in CopyUsers, NEW a \in TradeAmounts, NEW b \in BoundInputs,
               create_settlement_order(u, a, b)
        PROVE  Kept(d)
    <2>1. a \in Int
      BY GateConstants
    <2>2. SettleOK(tc')
      BY <1>3, <2>1, OrderCreated
    <2>3. KeepTrades
      BY <1>3 DEF create_settlement_order
    <2> QED
      BY <1>2, <2>2, <2>3
  <1>4. ASSUME NEW id \in DOMAIN tc.orders, fail_settlement_order(id)
        PROVE  Kept(d)
    <2>1. SettleOK(tc')
      BY <1>4, OrderFailed
    <2>2. KeepTrades
      BY <1>4 DEF fail_settlement_order
    <2> QED
      BY <1>2, <2>1, <2>2
  <1>5. ASSUME NEW id \in DOMAIN tc.orders, NEW f \in FillInputs, settle_batch(id, f.fill, f.input)
        PROVE  Kept(d)
    <2>1. f.fill \in Int
      BY CloseConstants
    <2>2. SettleOK(tc')
      BY <1>5, <2>1, OrderFilled
    <2>3. KeepTrades
      BY <1>5 DEF settle_batch
    <2> QED
      BY <1>2, <2>2, <2>3
  <1>6. ASSUME NEW w \in FairnessWindows, set_priority_config(w)
        PROVE  Kept(d)
    <2>1. KeepTrades /\ tc' = [tc EXCEPT !.window = w]
      BY <1>6 DEF set_priority_config
    <2>2. DOMAIN tc' = CloseFields /\ tc'.orders = tc.orders /\ tc'.user_orders = tc.user_orders
      BY <1>1, <2>1 DEF CloseFields
    <2> QED
      BY <2>1, <2>2, CloseKept
  <1>7. ASSUME NEW t \in TierInputs, sort_trades_by_priority(t)
        PROVE  Kept(d)
    <2>1. KeepTrades /\ \E v : tc' = [tc EXCEPT !.counter = v]
      BY Zenon, <1>7 DEF sort_trades_by_priority
    <2>2. DOMAIN tc' = CloseFields /\ tc'.orders = tc.orders /\ tc'.user_orders = tc.user_orders
      BY <1>1, <2>1 DEF CloseFields
    <2> QED
      BY <2>1, <2>2, CloseKept
  <1> QED
    BY <1>3, <1>4, <1>5, <1>6, <1>7 DEF SettlementStep

-----------------------------------------------------------------------------
\* The executor with its entry points in any order.

TradeInv ==
    /\ now \in Nat /\ seq \in Nat
    /\ BooksOK(tb, trade_today) /\ SettingsOK(tx) /\ QueueAt(tq, {}) /\ SettleOK(tc)

\* The deployed executor.
LEMMA TradeInvInit == TradeInit => TradeInv
  <1> SUFFICES ASSUME TradeInit
               PROVE  TradeInv
    OBVIOUS
  <1>1. now \in Nat /\ seq \in Nat
    BY DEF TradeInit, ClockInit
  <1>2. PICK d \in Nat : d = trade_today
    BY <1>1, TodayType
  <1>3. BooksOK(tb, d)
    <2>1. tb = InitialBooks
      BY DEF TradeInit
    <2>2. /\ DOMAIN tb = BookFields /\ tb.day = [u \in CopyUsers |-> 0]
          /\ tb.volume = [u \in CopyUsers |-> 0] /\ tb.done = [u \in CopyUsers |-> 0]
          /\ tb.done_day = [u \in CopyUsers |-> 0] /\ tb.count = [u \in CopyUsers |-> 0]
          /\ tb.beyond = [u \in CopyUsers |-> 0] /\ tb.cap = [u \in CopyUsers |-> 0]
          /\ tb.own = [u \in CopyUsers |-> 0] /\ tb.planned = [u \in CopyUsers |-> 0]
          /\ tb.open = {} /\ tb.opened = 0 /\ tb.balance = [p \in CopyUsers \X Tokens |-> 0]
      BY <2>1 DEF InitialBooks, BookFields
    <2>3. VolumeOK(tb, d)
      BY <1>2, <2>2 DEF VolumeOK, Counted
    <2>4. \A u \in CopyUsers : open_positions(tb, u) = {}
      BY <2>2 DEF open_positions
    <2>5. IsFiniteSet({}) /\ Cardinality({}) = 0
      BY FS_EmptySet
    <2>6. CountOK(tb)
      BY <2>2, <2>4, <2>5 DEF CountOK, CountsBetween
    <2> QED
      BY <2>2, <2>3, <2>6 DEF BooksOK
  <1>4. SettingsOK(tx)
    BY DEF TradeInit, InitialSettings, SettingsOK, SettingFields
  <1>5. QueueAt(tq, {})
    <2>1. tq = InitialQueue
      BY DEF TradeInit
    <2>2. /\ DOMAIN tq = QueueFields /\ tq.queued = <<>> /\ tq.ids = <<>> /\ tq.next = 1
          /\ tq.dead = <<>> /\ tq.dead_of = [u \in CopyUsers |-> <<>>] /\ tq.dead_all = <<>>
          /\ tq.orders = <<>> /\ tq.order_ids = <<>> /\ tq.next_order = 1
      BY <2>1 DEF InitialQueue, QueueFields
    <2>3. ListOf(<<>>, {}) /\ DOMAIN <<>> = {}
      BY DEF ListOf, ToSet, IsInjective
    <2>4. \A u \in CopyUsers : DeadOf(tq, u) = {}
      BY <2>2, <2>3 DEF DeadOf
    <2>5. LettersOK(tq)
      BY Zenon, <2>2, <2>3, <2>4 DEF LettersOK
    <2>6. WaitingOK(tq, {})
      BY <2>2, <2>3 DEF WaitingOK
    <2>7. NumbersOK(tq) /\ LimitsOK(tq)
      BY <2>2, <2>3 DEF NumbersOK, LimitsOK
    <2> QED
      BY <2>2, <2>5, <2>6, <2>7 DEF QueueAt
  <1>6. SettleOK(tc)
    <2>1. tc = InitialCloses
      BY DEF TradeInit
    <2>2. /\ DOMAIN tc = CloseFields /\ tc.orders = <<>>
          /\ tc.user_orders = [u \in CopyUsers |-> <<>>]
      BY <2>1 DEF InitialCloses, CloseFields
    <2>3. <<>> \in Seq(Nat) /\ Len(<<>>) = 0 /\ DOMAIN <<>> = {} /\ 1..0 = {}
      OBVIOUS
    <2> QED
      BY <2>2, <2>3 DEF SettleOK
  <1> QED
    BY <1>1, <1>2, <1>3, <1>4, <1>5, <1>6 DEF TradeInv

\* A later time is not on an earlier day.
LEMMA DaysGrow ==
    ASSUME NEW a \in Nat, NEW b \in Nat, NEW k \in Nat, k > 0, a <= b
    PROVE  b \div k \in Nat /\ a \div k <= b \div k
  OBVIOUS

\* Books that are right on one day are right on a later one.
LEMMA LaterBooks ==
    ASSUME NEW b, NEW d \in Nat, NEW later \in Nat, d <= later, BooksOK(b, d)
    PROVE  BooksOK(b, later)
  <1>1. VolumeOK(b, d)
    BY DEF BooksOK
  <1>2. ASSUME NEW u \in CopyUsers
        PROVE  /\ b.done_day[u] <= later
               /\ b.done_day[u] = later => b.done[u] <= Counted(b, later, u) + b.beyond[u]
               /\ b.volume[u] <= b.cap[u]
    <2>4. b.volume[u] <= b.cap[u]
      BY Zenon, <1>1 DEF VolumeOK
    <2>1. PICK n \in Nat : n = b.done_day[u] /\ n <= d
      BY <1>1 DEF VolumeOK
    <2>2. n = d => b.done[u] <= Counted(b, d, u) + b.beyond[u]
      BY Zenon, <1>1, <2>1 DEF VolumeOK
    <2>3. n <= later /\ (n = later => n = d /\ d = later)
      BY <2>1
    <2> QED
      BY <2>1, <2>2, <2>3, <2>4
  <1>3. VolumeOK(b, later)
    BY <1>1, <1>2 DEF VolumeOK
  <1> QED
    BY <1>3 DEF BooksOK

\* Every step keeps the invariant.
LEMMA TradeInvStep ==
    ASSUME TradeInv, [TradeNext]_<<now, seq, tx, tb, tq, tc>>
    PROVE  TradeInv'
  <1>1. /\ now \in Nat /\ seq \in Nat
        /\ BooksOK(tb, trade_today) /\ SettingsOK(tx) /\ QueueAt(tq, {}) /\ SettleOK(tc)
    BY DEF TradeInv
  <1>2. PICK d \in Nat : d = trade_today
    BY <1>1, TodayType
  <1>3. ASSUME NEW e, Kept(e), trade_today' = e, now' \in Nat, seq' \in Nat
        PROVE  TradeInv'
    <2>1. now' \in Nat /\ seq' \in Nat /\ BooksOK(tb', trade_today') /\ SettingsOK(tx')
          /\ QueueAt(tq', {}) /\ SettleOK(tc')
      BY <1>3 DEF Kept
    <2> QED
      BY Zenon, <2>1 DEF TradeInv, BooksOK, VolumeOK, Counted, CountOK, CountsBetween, open_positions, SettingsOK, QueueAt,
         LettersOK, WaitingOK, NumbersOK, LimitsOK, Row, DeadOf, ListOf, SettleOK, OrderOK
  <1>4. ASSUME Kept(d), now' = now, seq' = seq
        PROVE  TradeInv'
    <2>1. trade_today' = d /\ now' \in Nat /\ seq' \in Nat
      BY <1>1, <1>2, <1>4 DEF trade_today
    <2> QED
      BY <1>3, <1>4, <2>1
  <1>5. CASE CloseLedger /\ UNCHANGED <<tx, tb, tq, tc>>
    <2>1. PICK gap \in LedgerGaps : now' = now + gap /\ seq' = seq + 1
      BY <1>5 DEF CloseLedger
    <2>2. now' \in Nat /\ seq' \in Nat /\ now' >= now
      BY <1>1, <2>1, ClockConstants
    <2>3. DaySeconds \in Nat /\ DaySeconds > 0
      BY GateConstants
    <2>4. PICK then \in Nat : then = now'
      BY <2>2
    <2>5. then \div DaySeconds \in Nat /\ now \div DaySeconds <= then \div DaySeconds
      BY Zenon, <1>1, <2>2, <2>3, <2>4, DaysGrow
    <2>6. PICK later \in Nat : later = then \div DaySeconds
      BY <2>5
    <2>7. trade_today' = later /\ d <= later
      BY <1>2, <2>4, <2>5, <2>6 DEF trade_today
    <2>8. tb' = tb /\ tx' = tx /\ tq' = tq /\ tc' = tc
      BY <1>5
    <2>9. BooksOK(tb, later)
      BY <1>1, <1>2, <2>7, LaterBooks
    <2>10. Kept(later)
      BY <1>1, <2>8, <2>9 DEF Kept
    <2> QED
      BY <1>3, <2>2, <2>7, <2>10
  <1>6. CASE /\ \/ (AmountSettingStep \/ LedgerSettingStep \/ SwitchStep) /\ UNCHANGED <<tb, tq, tc>>
                \/ MarketStep /\ UNCHANGED <<tq, tc>>
                \/ (LimitStep \/ QueuedStep \/ BatchStep) /\ UNCHANGED tc
                \/ PlanStep \/ CancelStep \/ CallbackStep \/ TriggerStep \/ SettlementStep
             /\ UNCHANGED clockVars
    <2>1. now' = now /\ seq' = seq
      BY <1>6 DEF clockVars
    <2>2. CASE (AmountSettingStep \/ LedgerSettingStep \/ SwitchStep) /\ UNCHANGED <<tb, tq, tc>>
      <3>1. SettingsOK(tx')
        BY <1>1, <2>2, SettingsKept
      <3>2. tb' = tb /\ tq' = tq /\ tc' = tc
        BY <2>2
      <3>3. Kept(d)
        BY <1>1, <1>2, <3>1, <3>2 DEF Kept
      <3> QED
        BY <1>2, <1>4, <2>1, <3>3
    <2>3. CASE MarketStep /\ UNCHANGED <<tq, tc>>
      <3>1. BooksOK(tb', d) /\ SettingsOK(tx')
        BY <1>1, <1>2, <2>3, MarketKeeps
      <3>2. tq' = tq /\ tc' = tc
        BY <2>3
      <3>3. Kept(d)
        BY <1>1, <3>1, <3>2 DEF Kept
      <3> QED
        BY <1>2, <1>4, <2>1, <3>3
    <2>4. CASE LimitStep /\ UNCHANGED tc
      <3>1. BooksOK(tb', d) /\ SettingsOK(tx') /\ QueueAt(tq', {})
        BY <1>1, <1>2, <2>4, LimitKeeps
      <3>2. Kept(d)
        BY <1>1, <2>4, <3>1 DEF Kept
      <3> QED
        BY <1>2, <1>4, <2>1, <3>2
    <2>5. CASE QueuedStep /\ UNCHANGED tc
      <3>1. BooksOK(tb', d) /\ SettingsOK(tx') /\ QueueAt(tq', {})
        BY <1>1, <1>2, <2>5, QueuedKeeps
      <3>2. Kept(d)
        BY <1>1, <2>5, <3>1 DEF Kept
      <3> QED
        BY <1>2, <1>4, <2>1, <3>2
    <2>6. CASE BatchStep /\ UNCHANGED tc
      <3>1. BooksOK(tb', d) /\ tx' = tx /\ tq' = tq
        BY <1>1, <1>2, <2>6, BatchStepKeeps
      <3>2. Kept(d)
        BY <1>1, <2>6, <3>1 DEF Kept
      <3> QED
        BY <1>2, <1>4, <2>1, <3>2
    <2>7. CASE PlanStep \/ CancelStep \/ CallbackStep \/ TriggerStep \/ SettlementStep
      <3>1. BooksOK(tb, d)
        BY <1>1, <1>2
      <3>2. Kept(d)
        BY <1>1, <2>7, <3>1, PlanKeeps, CancelKeeps, CallbackKeeps, TriggerKeeps, SettlementKeeps
      <3> QED
        BY <1>2, <1>4, <2>1, <3>2
    <2> QED
      BY <2>2, <2>3, <2>4, <2>5, <2>6, <2>7, <1>6
  <1>7. CASE UNCHANGED <<now, seq, tx, tb, tq, tc>>
    <2>1. now' = now /\ seq' = seq /\ tx' = tx /\ tb' = tb /\ tq' = tq /\ tc' = tc
      BY <1>7
    <2>2. Kept(d)
      BY <1>1, <1>2, <2>1 DEF Kept
    <2> QED
      BY <1>4, <2>1, <2>2
  <1> QED
    BY <1>5, <1>6, <1>7 DEF TradeNext

\* What the dry run of a copy trade tells is what its execution meets, in every state of
\* an executor whose settings, books, queue and orders changed in any order.
THEOREM SimulationFaithfulAlways == TradeSpec => []SimulationFaithful
  <1>1. TradeInv => SimulationFaithful
    <2> SUFFICES ASSUME TradeInv, NEW u \in CopyUsers, NEW k \in Tokens, NEW a \in TradeAmounts,
                        NEW p \in TradePcts
                 PROVE  \/ execute_market_copy_trade(tb, u, k, a, p).error
                               \in {"NotInitialized", "PositionLimitReached"}
                        \/ simulate_market_copy_trade(tb, u, k, a, p)
                               = execute_market_copy_trade(tb, u, k, a, p).error
      BY DEF SimulationFaithful
    <2>1. a \in Int /\ DOMAIN tb = BookFields /\ tb.balance \in [CopyUsers \X Tokens -> Int]
          /\ tx.fee \in Nat
      BY GateConstants DEF TradeInv, BooksOK, SettingsOK
    <2>2. PICK met : met = execute_market_copy_trade(tb, u, k, a, p).error
      OBVIOUS
    <2>3. CASE met \notin {"NotInitialized", "PositionLimitReached"}
      BY Zenon, <2>1, <2>2, <2>3, SimulatedAsMet
    <2> QED
      BY <2>2, <2>3
  <1> QED
    BY <1>1, TradeInvInit, TradeInvStep, PTL DEF TradeSpec

\* The executor's counters cover what they count, and every queued trade, dead letter and
\* limit order is in exactly one place, whichever way and in whichever order trades arrive.
THEOREM TradeBooksAlways == TradeSpec => []TradeBooks
  <1>1. TradeInv => TradeBooks
    <2> SUFFICES ASSUME TradeInv
                 PROVE  TradeBooks
      OBVIOUS
    <2>1. VolumeCovers
      BY DEF TradeInv, BooksOK, VolumeOK, Counted, VolumeCovers, current_volume
    <2>2. CountsCovered
      BY DEF TradeInv, BooksOK, CountOK, CountsBetween, CountsCovered
    <2>3. SettlementAddsUp
      BY DEF TradeInv, SettleOK, OrderOK, SettlementAddsUp
    <2>4. QueuePlacesExact
      <3>1. LettersOK(tq) /\ WaitingOK(tq, {}) /\ LimitsOK(tq)
        BY DEF TradeInv, QueueAt
      <3>2. DOMAIN tq.queued \ {} = DOMAIN tq.queued
        OBVIOUS
      <3> QED
        BY Zenon, <3>1, <3>2 DEF LettersOK, WaitingOK, LimitsOK, ListOf, DeadOf, QueuePlacesExact
    <2> QED
      BY <2>1, <2>2, <2>3, <2>4 DEF TradeBooks
  <1> QED
    BY <1>1, TradeInvInit, TradeInvStep, PTL DEF TradeSpec
=============================================================================
