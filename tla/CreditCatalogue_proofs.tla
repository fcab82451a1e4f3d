------------------------ MODULE CreditCatalogue_proofs ------------------------
(***************************************************************************)
(* What the catalogue promises its clients, for datasets, filters and      *)
(* tables of any size and for synchronisations of any release.             *)
(***************************************************************************)
EXTENDS CreditCatalogue, FiniteSetTheorems, TLAPS

--------------------------------------------------------------------------------
(* The numbers of a set in their order. *)

Below(S, i) == {j \in S : j < i}

(* How many numbers of a set are below one of them. *)
LEMMA Ranks ==
  ASSUME NEW S \in SUBSET Nat, IsFiniteSet(S)
  PROVE  /\ Cardinality(S) \in Nat
         /\ \A i \in S : IsFiniteSet(Below(S, i)) /\ Rank(S, i) \in 0..(Cardinality(S) - 1)
         /\ \A i, j \in S : i < j => Rank(S, i) < Rank(S, j)
<1>1. Cardinality(S) \in Nat
  BY FS_CardinalityType
<1>2. \A i \in S : Rank(S, i) = Cardinality(Below(S, i))
  BY DEF Rank, Below
<1>3. ASSUME NEW i \in S
      PROVE  IsFiniteSet(Below(S, i)) /\ Cardinality(Below(S, i)) \in 0..(Cardinality(S) - 1)
  <2>1. Below(S, i) \subseteq S \ {i}
    BY DEF Below
  <2>2. IsFiniteSet(S \ {i}) /\ Cardinality(S \ {i}) = Cardinality(S) - 1
    BY FS_RemoveElement
  <2>3. IsFiniteSet(Below(S, i)) /\ Cardinality(Below(S, i)) <= Cardinality(S \ {i})
    BY <2>1, <2>2, FS_Subset
  <2>4. Cardinality(Below(S, i)) \in Nat
    BY <2>3, FS_CardinalityType
  <2> QED BY <1>1, <2>2, <2>3, <2>4
<1>4. ASSUME NEW i \in S, NEW j \in S, i < j
      PROVE  Cardinality(Below(S, i)) < Cardinality(Below(S, j))
  <2>1. i \in Below(S, j) /\ Below(S, i) \subseteq Below(S, j) \ {i}
    <3>1. i \in Nat /\ j \in Nat /\ \A x \in S : x \in Nat
      OBVIOUS
    <3>2. \A x \in S : x < i => x < j /\ x # i
      BY <1>4, <3>1
    <3> QED BY <1>4, <3>2, Zenon DEF Below
  <2>2. IsFiniteSet(Below(S, j)) /\ Cardinality(Below(S, j)) \in Nat
    BY <1>3
  <2>3. IsFiniteSet(Below(S, j) \ {i}) /\ Cardinality(Below(S, j) \ {i}) = Cardinality(Below(S, j)) - 1
    BY <2>1, <2>2, FS_RemoveElement
  <2>4. Cardinality(Below(S, i)) <= Cardinality(Below(S, j) \ {i})
    BY <2>1, <2>3, FS_Subset
  <2>5. Cardinality(Below(S, i)) \in Nat
    BY <1>3
  <2> QED BY <2>2, <2>3, <2>4, <2>5
<1> QED BY <1>1, <1>2, <1>3, <1>4

(* No two numbers are at the same place, so every place has its number. *)
LEMMA PlacesTaken ==
  ASSUME NEW S \in SUBSET Nat, IsFiniteSet(S)
  PROVE  /\ \A i, j \in S : Rank(S, i) = Rank(S, j) => i = j
         /\ \A k \in 0..(Cardinality(S) - 1) : \E i \in S : Rank(S, i) = k
<1> DEFINE n == Cardinality(S)
           rank == [i \in S |-> Rank(S, i)]
<1>1. n \in Nat /\ \A i \in S : Rank(S, i) \in 0..(n - 1)
  BY Ranks
<1>2. \A i, j \in S : Rank(S, i) = Rank(S, j) => i = j
  <2> SUFFICES ASSUME NEW i \in S, NEW j \in S, i # j PROVE Rank(S, i) # Rank(S, j)
    OBVIOUS
  <2>1. i \in Nat /\ j \in Nat /\ (i < j \/ j < i)
    OBVIOUS
  <2>2. Rank(S, i) \in Nat /\ Rank(S, j) \in Nat
    BY <1>1
  <2>3. (i < j => Rank(S, i) < Rank(S, j)) /\ (j < i => Rank(S, j) < Rank(S, i))
    BY Ranks
  <2> QED BY <2>1, <2>2, <2>3
<1>3. IsFiniteSet(0..(n - 1)) /\ Cardinality(0..(n - 1)) = n
  <2>1. 0 \in Int /\ n - 1 \in Int
    BY <1>1
  <2> QED BY <1>1, <2>1, FS_Interval
<1>4. rank \in Injection(S, 0..(n - 1))
  <2>1. rank \in [S -> 0..(n - 1)] /\ \A i, j \in S : rank[i] = rank[j] => i = j
    BY <1>1, <1>2
  <2> HIDE DEF rank, n
  <2> QED BY <2>1 DEF Injection, IsInjective
<1>5. rank \in Surjection(S, 0..(n - 1))
  <2> HIDE DEF rank
  <2> QED BY <1>3, <1>4, FS_Injection
<1>6. \A k \in 0..(n - 1) : \E i \in S : rank[i] = k
  <2> HIDE DEF rank, n
  <2> QED BY <1>5 DEF Surjection
<1> QED BY <1>2, <1>6

(* In order, a set is listed without a gap and with nothing but itself. *)
LEMMA AscendingIs ==
  ASSUME NEW S \in SUBSET Nat, IsFiniteSet(S)
  PROVE  /\ Cardinality(S) \in Nat
         /\ DOMAIN Ascending(S) = 1..Cardinality(S) /\ Len(Ascending(S)) = Cardinality(S)
         /\ \A k \in 1..Cardinality(S) : Ascending(S)[k] \in S /\ Rank(S, Ascending(S)[k]) = k - 1
         /\ \A i \in S : Rank(S, i) + 1 \in 1..Cardinality(S) /\ Ascending(S)[Rank(S, i) + 1] = i
<1> DEFINE n == Cardinality(S)
           at(k) == CHOOSE i \in S : Rank(S, i) = k - 1
<1>1. n \in Nat
  BY FS_CardinalityType
<1>2. Ascending(S) = [k \in 1..n |-> at(k)]
  BY DEF Ascending
<1>3. ASSUME NEW k \in 1..n PROVE at(k) \in S /\ Rank(S, at(k)) = k - 1
  <2>1. k - 1 \in 0..(n - 1)
    BY <1>1
  <2>2. \E i \in S : Rank(S, i) = k - 1
    BY <2>1, PlacesTaken
  <2> QED BY <2>2
<1>4. ASSUME NEW i \in S PROVE Rank(S, i) + 1 \in 1..n /\ at(Rank(S, i) + 1) = i
  <2> DEFINE k == Rank(S, i) + 1
  <2>1. k \in 1..n /\ k - 1 = Rank(S, i)
    BY <1>1, Ranks
  <2>2. at(k) \in S /\ Rank(S, at(k)) = Rank(S, i)
    BY <1>3, <2>1
  <2> HIDE DEF at, k
  <2>3. at(k) = i
    BY <2>2, PlacesTaken
  <2> QED BY <2>1, <2>3 DEF k
<1> HIDE DEF at, n
<1>5. DOMAIN Ascending(S) = 1..n /\ Len(Ascending(S)) = n /\ \A k \in 1..n : Ascending(S)[k] = at(k)
  BY <1>1, <1>2
<1> QED BY <1>1, <1>3, <1>4, <1>5 DEF n
(* A list of a set's numbers' members has no others. *)
LEMMA PickedIs ==
  ASSUME NEW T, NEW list \in Seq(T), NEW positions \in SUBSET DOMAIN list
  PROVE  /\ Cardinality(positions) \in Nat /\ IsFiniteSet(positions)
         /\ PickedAt(list, positions) \in Seq(T)
         /\ Len(PickedAt(list, positions)) = Cardinality(positions)
         /\ positions = {} => PickedAt(list, positions) = <<>>
         /\ Ids(PickedAt(list, positions)) = {list[i].id : i \in positions}
<1> DEFINE n == Cardinality(positions)
           picked == PickedAt(list, positions)
<1>1. positions \in SUBSET Nat /\ IsFiniteSet(positions)
  <2>1. IsFiniteSet(1..Len(list))
    BY FS_Interval
  <2> QED BY <2>1, FS_Subset
<1>2. /\ n \in Nat
      /\ \A k \in 1..n : Ascending(positions)[k] \in positions
      /\ \A i \in positions : \E k \in 1..n : Ascending(positions)[k] = i
  BY <1>1, AscendingIs
<1>3. picked = [k \in 1..n |-> list[Ascending(positions)[k]]]
  BY DEF PickedAt
<1>4. positions = {} => n = 0
  BY FS_EmptySet
<1>5. \A i \in positions : list[i] \in T
  OBVIOUS
<1> HIDE DEF n, picked
<1>6. picked \in Seq(T) /\ Len(picked) = n /\ DOMAIN picked = 1..n
  BY <1>2, <1>3, <1>5
<1>7. Ids(picked) = {list[i].id : i \in positions}
  <2>1. \A k \in 1..n : picked[k].id \in {list[i].id : i \in positions}
    BY <1>2, <1>3
  <2>2. \A i \in positions : \E k \in 1..n : picked[k].id = list[i].id
    BY <1>2, <1>3
  <2>3. Ids(picked) = {picked[k].id : k \in 1..n}
    BY <1>6 DEF Ids
  <2>4. {picked[k].id : k \in 1..n} \subseteq {list[i].id : i \in positions}
    BY <2>1
  <2>5. {list[i].id : i \in positions} \subseteq {picked[k].id : k \in 1..n}
    BY <2>2
  <2> QED BY <2>3, <2>4, <2>5
<1>8. positions = {} => picked = <<>>
  BY <1>4, <1>6
<1> QED BY <1>1, <1>2, <1>6, <1>7, <1>8 DEF n, picked

(* A page holds what lies between its first and its last place. *)
LEMMA PageIs ==
  ASSUME NEW T, NEW list \in Seq(T), NEW limit \in Nat, NEW offset \in Nat
  PROVE  /\ Page(list, limit, offset) \in Seq(T)
         /\ Ids(Page(list, limit, offset)) =
              {list[j].id : j \in {i \in DOMAIN list : offset < i /\ i <= offset + limit}}
         /\ Page(list, limit, offset) = <<>> => limit = 0 \/ Len(list) <= offset
<1> DEFINE last == IF offset + limit < Len(list) THEN offset + limit ELSE Len(list)
           size == IF last < offset THEN 0 ELSE last - offset
           page == Page(list, limit, offset)
<1>1. last \in Nat /\ size \in Nat /\ 1..(last - offset) = 1..size /\ last <= Len(list)
  OBVIOUS
<1>2. page = [k \in 1..size |-> list[offset + k]]
  BY <1>1 DEF Page
<1>3. \A k \in 1..size : offset + k \in DOMAIN list /\ offset + k > offset /\ offset + k <= offset + limit
  OBVIOUS
<1>4. \A i \in DOMAIN list : offset < i /\ i <= offset + limit =>
        i - offset \in 1..size /\ offset + (i - offset) = i
  OBVIOUS
<1>5. size = 0 => limit = 0 \/ Len(list) <= offset
  OBVIOUS
<1> HIDE DEF last, size, page
<1>6. page \in Seq(T) /\ Len(page) = size /\ DOMAIN page = 1..size
  <2>1. \A k \in 1..size : list[offset + k] \in T
    BY <1>3
  <2> QED BY <1>1, <1>2, <2>1
<1>7. page = <<>> => size = 0
  BY <1>6
<1>8. Ids(page) = {list[j].id : j \in {i \in DOMAIN list : offset < i /\ i <= offset + limit}}
  <2>1. \A k \in 1..size : page[k].id = list[offset + k].id
    BY <1>2
  <2>2. \A i \in DOMAIN list : offset < i /\ i <= offset + limit => page[i - offset].id = list[i].id
    BY <1>2, <1>4
  <2> DEFINE Shown == {i \in DOMAIN list : offset < i /\ i <= offset + limit}
  <2>3. \A k \in 1..size : offset + k \in Shown
    BY <1>3
  <2>4. \A i \in Shown : i - offset \in 1..size /\ page[i - offset].id = list[i].id
    BY <1>4, <2>2
  <2> HIDE DEF Shown
  <2>5. Ids(page) = {list[j].id : j \in Shown}
    <3>1. Ids(page) = {page[k].id : k \in 1..size}
      BY <1>6 DEF Ids
    <3> QED BY <2>1, <2>3, <2>4, <3>1
  <2> QED BY <2>5 DEF Shown
<1> QED BY <1>5, <1>6, <1>7, <1>8 DEF page

--------------------------------------------------------------------------------
(* The table. *)

(* Credits are finitely many numbers. *)
LEMMA CreditsFinite ==
  \A S \in SUBSET Credit : S \in SUBSET Nat /\ IsFiniteSet(S)
  BY CatalogueAssumption, FS_Subset

(* The rows found, in the order of their ids. *)
LEMMA DbListIs ==
  ASSUME CatalogueTypeOK, NEW f
  PROVE  /\ Matching(f) \in SUBSET Credit /\ IsFiniteSet(Matching(f))
         /\ DbList(f) \in Seq(Row) /\ Len(DbList(f)) = Cardinality(Matching(f))
         /\ \A k \in DOMAIN DbList(f) :
              DbList(f)[k].id \in Matching(f) /\ Rank(Matching(f), DbList(f)[k].id) = k - 1
         /\ \A c \in Matching(f) :
              Rank(Matching(f), c) + 1 \in DOMAIN DbList(f) /\ DbList(f)[Rank(Matching(f), c) + 1].id = c
<1> DEFINE S == Matching(f)
           n == Cardinality(S)
           list == DbList(f)
<1>1. S \in SUBSET Credit /\ \A c \in S : rows[c] \in Row /\ rows[c].id = c
  BY DEF Matching, CatalogueTypeOK
<1>2. S \in SUBSET Nat /\ IsFiniteSet(S)
  BY <1>1, CreditsFinite
<1>3. /\ n \in Nat
      /\ \A k \in 1..n : Ascending(S)[k] \in S /\ Rank(S, Ascending(S)[k]) = k - 1
      /\ \A i \in S : Rank(S, i) + 1 \in 1..n /\ Ascending(S)[Rank(S, i) + 1] = i
  BY <1>2, AscendingIs
<1>4. list = [k \in 1..n |-> rows[Ascending(S)[k]]]
  BY DEF DbList
<1> HIDE DEF S, n, list
<1>5. list \in Seq(Row) /\ Len(list) = n /\ DOMAIN list = 1..n
  BY <1>1, <1>3, <1>4
<1>6. \A k \in 1..n : list[k].id = Ascending(S)[k]
  BY <1>1, <1>3, <1>4
<1>7. \A k \in 1..n : list[k].id \in S /\ Rank(S, list[k].id) = k - 1
  BY <1>3, <1>6
<1>8. \A c \in S : Rank(S, c) + 1 \in 1..n /\ list[Rank(S, c) + 1].id = c
  BY <1>3, <1>6
<1> QED BY <1>1, <1>2, <1>5, <1>7, <1>8 DEF S, n, list

(* What a request for a page is answered with. *)
LEMMA GetCreditsIs ==
  ASSUME CatalogueTypeOK, NEW f, NEW limit \in Nat, NEW offset \in Nat
  PROVE  LET page == getCredits(f, limit, offset)
         IN  /\ page.limit = Clamped(limit) /\ page.limit \in Nat \ {0}
             /\ page.credits \in Seq(Row)
             /\ Ids(page.credits) = {c \in Matching(f) : offset <= Rank(Matching(f), c)
                                                        /\ Rank(Matching(f), c) < offset + page.limit}
             /\ \/ page.total = Cardinality(Matching(f))
                \/ page.total = 0 /\ Cardinality(Matching(f)) <= offset
<1> DEFINE page == getCredits(f, limit, offset)
           S == Matching(f)
           list == DbList(f)
           most == Clamped(limit)
<1>1. most \in Nat \ {0}
  BY CatalogueAssumption DEF Clamped
<1>2. /\ page.limit = most /\ page.credits = Page(list, most, offset)
      /\ page.total = IF page.credits = <<>> THEN 0 ELSE Len(list)
  BY DEF getCredits
<1> HIDE DEF page, most
<1>3. /\ S \in SUBSET Nat /\ IsFiniteSet(S)
      /\ list \in Seq(Row) /\ Len(list) = Cardinality(S)
      /\ \A k \in DOMAIN list : list[k].id \in S /\ Rank(S, list[k].id) = k - 1
      /\ \A c \in S : Rank(S, c) + 1 \in DOMAIN list /\ list[Rank(S, c) + 1].id = c
  BY DbListIs, CreditsFinite
<1> HIDE DEF S, list
<1>4. \A c \in S : Rank(S, c) \in Nat
  BY <1>3, Ranks
<1>5. /\ page.credits \in Seq(Row)
      /\ Ids(page.credits) = {list[j].id : j \in {i \in DOMAIN list : offset < i /\ i <= offset + most}}
      /\ page.credits = <<>> => Cardinality(S) <= offset
  <2> DEFINE p == Page(list, most, offset)
  <2>1. /\ p \in Seq(Row)
        /\ Ids(p) = {list[j].id : j \in {i \in DOMAIN list : offset < i /\ i <= offset + most}}
        /\ p = <<>> => most = 0 \/ Len(list) <= offset
    BY <1>1, <1>3, PageIs
  <2> HIDE DEF p
  <2> QED BY <1>1, <1>2, <1>3, <2>1 DEF p
<1>6. Ids(page.credits) = {c \in S : offset <= Rank(S, c) /\ Rank(S, c) < offset + most}
  <2>1. \A j \in DOMAIN list : offset < j /\ j <= offset + most =>
          list[j].id \in S /\ offset <= Rank(S, list[j].id) /\ Rank(S, list[j].id) < offset + most
    BY <1>1, <1>3
  <2>2. \A c \in S : offset <= Rank(S, c) /\ Rank(S, c) < offset + most =>
          /\ Rank(S, c) + 1 \in DOMAIN list /\ offset < Rank(S, c) + 1 /\ Rank(S, c) + 1 <= offset + most
          /\ list[Rank(S, c) + 1].id = c
    BY <1>1, <1>3, <1>4
  <2> DEFINE Shown == {i \in DOMAIN list : offset < i /\ i <= offset + most}
  <2>3. \A j \in Shown : list[j].id \in S /\ offset <= Rank(S, list[j].id)
                          /\ Rank(S, list[j].id) < offset + most
    BY <2>1
  <2>4. \A c \in S : offset <= Rank(S, c) /\ Rank(S, c) < offset + most =>
          Rank(S, c) + 1 \in Shown /\ list[Rank(S, c) + 1].id = c
    BY <2>2
  <2>5. Ids(page.credits) = {list[j].id : j \in Shown}
    BY <1>5
  <2> HIDE DEF Shown
  <2> QED BY <2>3, <2>4, <2>5
<1> QED BY <1>1, <1>2, <1>3, <1>5, <1>6 DEF page, S, most

(* What a client that walks the list is answered with next. *)
LEMMA WalkedPage ==
  ASSUME CatalogueTypeOK, walk # Nothing
  PROVE  LET page == getCredits(walk.filter, walk.limit, walk.offset)
             S == Matching(walk.filter)
         IN  /\ page.limit \in Nat \ {0}
             /\ Ids(page.credits) = {c \in S : walk.offset <= Rank(S, c)
                                               /\ Rank(S, c) < walk.offset + page.limit}
             /\ \/ page.total = Cardinality(S)
                \/ page.total = 0 /\ Cardinality(S) <= walk.offset
<1>1. walk.limit \in Nat /\ walk.offset \in Nat
  BY DEF CatalogueTypeOK
<1>2. ASSUME NEW f, NEW limit \in Nat, NEW offset \in Nat
      PROVE  /\ getCredits(f, limit, offset).limit \in Nat \ {0}
             /\ Ids(getCredits(f, limit, offset).credits) =
                  {c \in Matching(f) : offset <= Rank(Matching(f), c)
                                        /\ Rank(Matching(f), c) < offset + getCredits(f, limit, offset).limit}
             /\ \/ getCredits(f, limit, offset).total = Cardinality(Matching(f))
                \/ getCredits(f, limit, offset).total = 0 /\ Cardinality(Matching(f)) <= offset
  BY GetCreditsIs
<1> QED BY <1>1, <1>2, Zenon

(* What an upsert does to the table: what a stored row is found by stays.  *)
LEMMA UpsertIs ==
  ASSUME CatalogueTypeOK, NEW credit \in Entry, Upsert(credit)
  PROVE  /\ rows' \in [Credit -> Row \cup {NoRow}]
         /\ \A c \in Credit : c # credit.id => rows'[c] = rows[c]
         /\ \A c \in Credit : rows[c] # NoRow =>
              /\ rows'[c] # NoRow /\ rows'[c].id = rows[c].id
              /\ rows'[c].registry = rows[c].registry /\ rows'[c].vintage = rows[c].vintage
         /\ rows[credit.id] = NoRow =>
              /\ rows'[credit.id] # NoRow /\ rows'[credit.id].id = credit.id
              /\ rows'[credit.id].registry = credit.registry
              /\ rows'[credit.id].vintage = credit.vintage
<1>1. credit.id \in Credit /\ credit.registry \in Registry /\ credit.vintage \in Vintage
  BY DEF Entry
<1> DEFINE c0 == credit.id
           fresh == [id |-> credit.id, registry |-> credit.registry, vintage |-> credit.vintage,
                     credit_hash |-> credit.vintage]
           updated == [rows[c0] EXCEPT !.credit_hash = credit.vintage]
<1>2. rows' = [rows EXCEPT ![c0] = IF rows[c0] = NoRow THEN fresh ELSE updated]
  BY DEF Upsert
<1>3. rows \in [Credit -> Row \cup {NoRow}]
  BY DEF CatalogueTypeOK
<1>4. /\ fresh \in Row /\ fresh.id = c0 /\ fresh.registry = credit.registry
      /\ fresh.vintage = credit.vintage
  BY <1>1 DEF Row
<1>5. rows[c0] # NoRow => /\ updated \in Row /\ updated.id = rows[c0].id
                         /\ updated.registry = rows[c0].registry
                         /\ updated.vintage = rows[c0].vintage
  BY <1>1, <1>3 DEF Row
<1>6. \A row \in Row : row # NoRow
  BY CatalogueAssumption
<1> HIDE DEF c0, fresh, updated
<1>7. c0 \in Credit
  BY <1>1 DEF c0
<1>8. rows' \in [Credit -> Row \cup {NoRow}] /\ \A c \in Credit : c # c0 => rows'[c] = rows[c]
  BY <1>2, <1>3, <1>4, <1>5, <1>7
<1>9. rows'[c0] = IF rows[c0] = NoRow THEN fresh ELSE updated
  BY <1>2, <1>3, <1>7
<1> QED BY <1>4, <1>5, <1>6, <1>7, <1>8, <1>9 DEF c0

(* One synchronised credit after the other. *)
LEMMA SyncNextIs ==
  ASSUME CatalogueTypeOK, SyncNext
  PROVE  \/ UNCHANGED rows /\ syncing' = Nothing
         \/ \E i \in DOMAIN mockCredits :
              mockCredits[i] \in Entry /\ Upsert(mockCredits[i]) /\ syncing' = i
<1>1. mockCredits \in Seq(Entry)
  BY CatalogueAssumption DEF mockCredits, CatalogueTypeOK
<1>2. CASE UNCHANGED rows /\ syncing' = Nothing
  BY <1>2
<1>3. CASE syncing < Len(mockCredits) /\ Upsert(mockCredits[syncing + 1]) /\ syncing' = syncing + 1
  <2>1. syncing \in 0..Len(mockCredits)
    BY DEF SyncNext, CatalogueTypeOK
  <2>2. syncing + 1 \in DOMAIN mockCredits
    BY <1>1, <1>3, <2>1
  <2>3. mockCredits[syncing + 1] \in Entry
    BY <1>1, <2>2
  <2> QED BY <1>3, <2>2, <2>3
<1> QED BY <1>2, <1>3 DEF SyncNext

--------------------------------------------------------------------------------
(* The types. *)

(* The state the pages find is typed. *)
LEMMA InitTyped == Init => CatalogueTypeOK
<1> SUFFICES ASSUME Init PROVE CatalogueTypeOK
  OBVIOUS
<1>1. 1 \in DOMAIN Releases
  <2>1. Releases \in Seq(Seq(Entry)) /\ Releases # <<>>
    BY CatalogueAssumption
  <2> QED BY <2>1
<1> QED BY <1>1 DEF Init, CatalogueTypeOK

(* What is left of a list of rows is a list of rows. *)
LEMMA LeftOfRows ==
  ASSUME NEW list \in Seq(Row)
  PROVE  /\ \A f : Filtered(list, f) \in Seq(Row)
         /\ \A selected : SelectedOf(list, selected) \in Seq(Row)
         /\ \A selected : selected = {} \/ list = <<>> => SelectedOf(list, selected) = <<>>
         /\ \A f : list = <<>> => Filtered(list, f) = <<>>
<1>1. \A positions \in SUBSET DOMAIN list :
        /\ PickedAt(list, positions) \in Seq(Row)
        /\ positions = {} => PickedAt(list, positions) = <<>>
  BY PickedIs
<1>2. ASSUME NEW f
      PROVE  Filtered(list, f) \in Seq(Row) /\ (list = <<>> => Filtered(list, f) = <<>>)
  <2> DEFINE positions == {i \in DOMAIN list : MemoryMatches(list[i], f)}
  <2>1. positions \in SUBSET DOMAIN list /\ (list = <<>> => positions = {})
    OBVIOUS
  <2>2. Filtered(list, f) = PickedAt(list, positions)
    BY DEF Filtered
  <2> HIDE DEF positions
  <2> QED BY <1>1, <2>1, <2>2
<1>3. ASSUME NEW selected
      PROVE  /\ SelectedOf(list, selected) \in Seq(Row)
             /\ selected = {} \/ list = <<>> => SelectedOf(list, selected) = <<>>
  <2> DEFINE positions == {i \in DOMAIN list : list[i].id \in selected}
  <2>1. positions \in SUBSET DOMAIN list /\ (selected = {} \/ list = <<>> => positions = {})
    OBVIOUS
  <2>2. SelectedOf(list, selected) = PickedAt(list, positions)
    BY DEF SelectedOf
  <2> HIDE DEF positions
  <2> QED BY <1>1, <2>1, <2>2
<1> QED BY <1>2, <1>3

(* What a walk that begins now will have to show. *)
LEMMA StoredAtFirst ==
  ASSUME CatalogueTypeOK, NEW f, NEW offset \in Nat
  PROVE  Ids(Page(DbList(f), Len(DbList(f)), offset)) \subseteq
           {c \in Matching(f) : offset <= Rank(Matching(f), c)}
<1> DEFINE list == DbList(f)
           S == Matching(f)
<1>1. /\ list \in Seq(Row) /\ Len(list) \in Nat
      /\ \A k \in DOMAIN list : list[k].id \in S /\ Rank(S, list[k].id) = k - 1
  BY DbListIs
<1> HIDE DEF list, S
<1>2. Ids(Page(list, Len(list), offset)) =
        {list[j].id : j \in {i \in DOMAIN list : offset < i /\ i <= offset + Len(list)}}
  <2> DEFINE limit == Len(list)
             p == Page(list, limit, offset)
  <2>1. /\ p \in Seq(Row)
        /\ Ids(p) = {list[j].id : j \in {i \in DOMAIN list : offset < i /\ i <= offset + limit}}
        /\ p = <<>> => limit = 0 \/ Len(list) <= offset
    <3>1. limit \in Nat
      BY <1>1
    <3> HIDE DEF limit
    <3> QED BY <1>1, <3>1, PageIs
  <2> QED BY <2>1
<1>3. \A j \in DOMAIN list : offset < j => list[j].id \in S /\ offset <= Rank(S, list[j].id)
  BY <1>1
<1>4. Ids(Page(list, Len(list), offset)) \subseteq {c \in S : offset <= Rank(S, c)}
  BY <1>2, <1>3
<1> QED BY <1>4 DEF list, S

(* Each step keeps the types. *)
LEMMA StepTyped == CatalogueTypeOK /\ [Next]_vars => CatalogueTypeOK'
<1> SUFFICES ASSUME CatalogueTypeOK, [Next]_vars PROVE CatalogueTypeOK'
  OBVIOUS
<1> DEFINE TableOK ==
             /\ release \in DOMAIN Releases
             /\ rows \in [Credit -> Row \cup {NoRow}]
             /\ \A c \in Credit : rows[c] # NoRow => rows[c].id = c
             /\ syncing # Nothing => syncing \in 0..Len(mockCredits)
           WalkTyped ==
             walk # Nothing =>
               walk \in [filter : Filter, limit : Nat, offset : Nat, over : BOOLEAN,
                         seen : SUBSET Credit, stored : SUBSET Credit]
           PortfolioTyped ==
             portfolio # Nothing =>
               portfolio \in [waits : {"query", "answer", "no"}, answer : Seq(Row), credits : Seq(Row),
                              filteredCredits : Seq(Row), emitted : Seq(Row), selected : SUBSET Credit,
                              control : applied]
<1>1. TableOK /\ WalkTyped /\ PortfolioTyped
  BY DEF CatalogueTypeOK
<1>2. UNCHANGED <<release, rows, syncing>> => TableOK'
  BY <1>1 DEF mockCredits
<1>3. UNCHANGED walk => WalkTyped'
  BY <1>1
<1>4. UNCHANGED portfolio => PortfolioTyped'
  BY <1>1
<1>5. TableOK' /\ WalkTyped' /\ PortfolioTyped' => CatalogueTypeOK'
  BY DEF CatalogueTypeOK
<1> HIDE DEF TableOK, WalkTyped, PortfolioTyped
<1>6. CASE SyncBegins
  <2>1. 0 \in 0..Len(mockCredits)
    BY CatalogueAssumption DEF mockCredits, CatalogueTypeOK
  <2>2. TableOK'
    BY <1>1, <1>6, <2>1 DEF TableOK, SyncBegins, mockCredits
  <2> QED BY <1>3, <1>4, <1>5, <1>6, <2>2 DEF SyncBegins
<1>7. CASE SyncNext
  <2>1. mockCredits \in Seq(Entry)
    BY CatalogueAssumption DEF mockCredits, CatalogueTypeOK
  <2>2. UNCHANGED <<release, walk, portfolio>>
    BY <1>7 DEF SyncNext
  <2>3. CASE UNCHANGED rows /\ syncing' = Nothing
    <3>1. TableOK'
      BY <1>1, <2>2, <2>3 DEF TableOK
    <3> QED BY <1>3, <1>4, <1>5, <2>2, <3>1
  <2>4. ASSUME NEW i \in DOMAIN mockCredits, mockCredits[i] \in Entry, Upsert(mockCredits[i]), syncing' = i
        PROVE  CatalogueTypeOK'
    <3>1. /\ rows' \in [Credit -> Row \cup {NoRow}]
          /\ \A c \in Credit : rows'[c] # NoRow => rows'[c].id = c
      <4> DEFINE credit == mockCredits[i]
      <4>1. credit \in Entry /\ Upsert(credit)
        BY <2>4
      <4> HIDE DEF credit
      <4>2. \A c \in Credit : rows[c] # NoRow => rows[c].id = c
        BY DEF CatalogueTypeOK
      <4> QED BY <4>1, <4>2, UpsertIs
    <3>2. syncing' \in 0..Len(mockCredits) /\ UNCHANGED mockCredits
      BY <2>1, <2>2, <2>4 DEF mockCredits
    <3>3. TableOK'
      BY <1>1, <2>2, <3>1, <3>2 DEF TableOK
    <3> QED BY <1>3, <1>4, <1>5, <2>2, <3>3
  <2> QED BY <1>7, <2>3, <2>4, SyncNextIs
<1>8. CASE SyncFails \/ Restart
  <2>1. TableOK'
    BY <1>1, <1>8 DEF TableOK, SyncFails, Restart
  <2> QED BY <1>3, <1>4, <1>5, <1>8, <2>1 DEF SyncFails, Restart
<1>9. ASSUME NEW f \in Filter, NEW request \in Request, WalkBegins(f, request)
      PROVE  CatalogueTypeOK'
  <2>1. request.limit \in Nat /\ request.offset \in Nat
    BY CatalogueAssumption
  <2>2. Ids(Page(DbList(f), Len(DbList(f)), request.offset)) \in SUBSET Credit
    <3>1. Matching(f) \subseteq Credit
      BY DEF Matching
    <3> QED BY <2>1, <3>1, StoredAtFirst
  <2>3. WalkTyped'
    BY <1>9, <2>1, <2>2 DEF WalkTyped, WalkBegins
  <2> QED BY <1>2, <1>4, <1>5, <1>9, <2>3 DEF WalkBegins
<1>10. CASE WalkNext
  <2>1. CASE walk.over
    <3>1. WalkTyped'
      BY <1>10, <2>1 DEF WalkTyped, WalkNext
    <3> QED BY <1>2, <1>4, <1>5, <1>10, <3>1 DEF WalkNext
  <2>2. CASE ~walk.over
    <3> DEFINE page == getCredits(walk.filter, walk.limit, walk.offset)
    <3>1. walk # Nothing /\ walk' = [walk EXCEPT !.offset = @ + page.limit, !.seen = @ \cup Ids(page.credits),
                                                 !.over = walk.offset + page.limit >= page.total]
      BY <1>10, <2>2 DEF WalkNext
    <3>2. walk \in [filter : Filter, limit : Nat, offset : Nat, over : BOOLEAN,
                    seen : SUBSET Credit, stored : SUBSET Credit]
      BY <1>1, <3>1 DEF WalkTyped
    <3>3. page.limit \in Nat /\ Ids(page.credits) \in SUBSET Credit
      <4> DEFINE S == Matching(walk.filter)
      <4>1. S \subseteq Credit
        BY DEF Matching
      <4>2. /\ page.limit \in Nat \ {0}
            /\ Ids(page.credits) = {c \in S : walk.offset <= Rank(S, c)
                                              /\ Rank(S, c) < walk.offset + page.limit}
        BY <3>1, WalkedPage
      <4> HIDE DEF page, S
      <4> QED BY <4>1, <4>2
    <3> DEFINE next == walk.offset + page.limit
               over == next >= page.total
               seen == walk.seen \cup Ids(page.credits)
    <3>4. next \in Nat /\ over \in BOOLEAN /\ seen \in SUBSET Credit
      <4> HIDE DEF page
      <4> QED BY <3>2, <3>3
    <3>5. WalkTyped'
      <4>1. walk' = [walk EXCEPT !.offset = next, !.seen = seen, !.over = over]
        BY <3>1, Zenon
      <4> HIDE DEF next, over, seen
      <4> QED BY <3>2, <3>4, <4>1 DEF WalkTyped
    <3> QED BY <1>2, <1>4, <1>5, <1>10, <3>5 DEF WalkNext
  <2> QED BY <2>1, <2>2
<1>11. CASE Open \/ Leave
  <2>1. NoFilters \in applied
    <3>1. [NoFilters EXCEPT !.registry = Undefined] = NoFilters
      BY DEF NoFilters
    <3> QED BY <3>1 DEF applied
  <2>2. PortfolioTyped'
    <3>1. CASE Open
      <4>1. <<>> \in Seq(Row) /\ {} \in SUBSET Credit
        OBVIOUS
      <4> QED BY <2>1, <3>1, <4>1 DEF Open, PortfolioTyped
    <3>2. CASE Leave
      BY <3>2 DEF Leave, PortfolioTyped
    <3> QED BY <1>11, <3>1, <3>2
  <2> QED BY <1>2, <1>3, <1>5, <1>11, <2>2 DEF Open, Leave
<1>12. CASE CreditsRead
  <2>1. getCredits(NoFilters, DefaultLimit, 0).credits \in Seq(Row)
    <3>1. DefaultLimit \in Nat /\ 0 \in Nat
      BY CatalogueAssumption
    <3> QED BY <3>1, GetCreditsIs
  <2>2. PortfolioTyped'
    BY <1>1, <1>12, <2>1 DEF CreditsRead, PortfolioTyped
  <2> QED BY <1>2, <1>3, <1>5, <1>12, <2>2 DEF CreditsRead
<1>13. CASE CreditsArrive
  <2>1. PortfolioTyped'
    BY <1>1, <1>13 DEF CreditsArrive, PortfolioTyped
  <2> QED BY <1>2, <1>3, <1>5, <1>13, <2>1 DEF CreditsArrive
<1>14. ASSUME NEW f \in applied, applyFilters(f) PROVE CatalogueTypeOK'
  <2>1. portfolio # Nothing /\ portfolio.credits \in Seq(Row)
    BY <1>1, <1>14 DEF PortfolioTyped, applyFilters
  <2>2. Filtered(portfolio.credits, f) \in Seq(Row)
    BY <2>1, LeftOfRows
  <2>3. PortfolioTyped'
    BY <1>1, <1>14, <2>2 DEF applyFilters, PortfolioTyped
  <2> QED BY <1>2, <1>3, <1>5, <1>14, <2>3 DEF applyFilters
<1>15. ASSUME NEW c \in Credit, toggleSelect(c) PROVE CatalogueTypeOK'
  <2>1. portfolio # Nothing /\ portfolio.credits \in Seq(Row) /\ portfolio.selected \in SUBSET Credit
    BY <1>1, <1>15 DEF PortfolioTyped, toggleSelect
  <2>2. SelectedOf(portfolio.credits, Toggled(c)) \in Seq(Row) /\ Toggled(c) \in SUBSET Credit
    BY <2>1, LeftOfRows DEF Toggled
  <2>3. PortfolioTyped'
    BY <1>1, <1>15, <2>2 DEF toggleSelect, PortfolioTyped
  <2> QED BY <1>2, <1>3, <1>5, <1>15, <2>3 DEF toggleSelect
<1>16. CASE UNCHANGED vars
  BY <1>2, <1>3, <1>4, <1>5, <1>16 DEF vars
<1> QED BY <1>6, <1>7, <1>8, <1>9, <1>10, <1>11, <1>12, <1>13, <1>14, <1>15, <1>16 DEF Next

(* The type invariant of the catalogue and of its clients (CatalogueTypeOK):  *)
(* every row is stored under its own id, and every list shown or emitted is   *)
(* a list of rows, through any synchronisation and release.                   *)
THEOREM CatalogueTyped == Spec => []CatalogueTypeOK
<1> QED BY InitTyped, StepTyped, PTL DEF Spec

--------------------------------------------------------------------------------
(* The portfolio. *)

(* Until its credits arrive the portfolio shows none, so none is selected. *)
PortfolioOK ==
  portfolio # Nothing =>
    /\ portfolio.emitted = SelectedOf(portfolio.credits, portfolio.selected)
    /\ portfolio.waits # "no" =>
         /\ portfolio.credits = <<>> /\ portfolio.filteredCredits = <<>>
         /\ portfolio.selected = {} /\ portfolio.emitted = <<>>

(* Every step keeps what is emitted and what is selected in step. *)
LEMMA PortfolioStep ==
  ASSUME CatalogueTypeOK, PortfolioOK, [Next]_vars
  PROVE  PortfolioOK'
<1>1. portfolio # Nothing =>
        portfolio \in [waits : {"query", "answer", "no"}, answer : Seq(Row), credits : Seq(Row),
                       filteredCredits : Seq(Row), emitted : Seq(Row), selected : SUBSET Credit,
                       control : applied]
  BY DEF CatalogueTypeOK
<1>2. CASE UNCHANGED portfolio
  BY <1>2 DEF PortfolioOK, SelectedOf, Ids
<1>3. CASE Open
  <2>1. SelectedOf(<<>>, {}) = <<>>
    <3>1. <<>> \in Seq(Row)
      OBVIOUS
    <3> QED BY <3>1, LeftOfRows
  <2> HIDE DEF SelectedOf
  <2>2. /\ portfolio'.emitted = <<>> /\ portfolio'.credits = <<>>
        /\ portfolio'.filteredCredits = <<>> /\ portfolio'.selected = {}
    BY <1>3 DEF Open
  <2> QED BY <2>1, <2>2 DEF PortfolioOK
<1>4. CASE CreditsRead
  <2>1. /\ portfolio # Nothing /\ portfolio.waits # "no"
        /\ portfolio'.emitted = portfolio.emitted /\ portfolio'.credits = portfolio.credits
        /\ portfolio'.filteredCredits = portfolio.filteredCredits
        /\ portfolio'.selected = portfolio.selected
    BY <1>1, <1>4 DEF CreditsRead
  <2> QED BY <2>1 DEF PortfolioOK
<1>5. CASE CreditsArrive
  <2>1. /\ portfolio # Nothing /\ portfolio.waits # "no" /\ portfolio.answer \in Seq(Row)
        /\ portfolio'.emitted = portfolio.emitted /\ portfolio'.credits = portfolio.answer
        /\ portfolio'.waits = "no" /\ portfolio'.selected = portfolio.selected
    BY <1>1, <1>5 DEF CreditsArrive
  <2>2. portfolio.selected = {} /\ portfolio.emitted = <<>>
    BY <2>1 DEF PortfolioOK
  <2>3. SelectedOf(portfolio.answer, {}) = <<>>
    BY <2>1, LeftOfRows
  <2> QED BY <2>1, <2>2, <2>3 DEF PortfolioOK
<1>6. ASSUME NEW f \in applied, applyFilters(f) PROVE PortfolioOK'
  <2>1. /\ portfolio # Nothing /\ portfolio.credits \in Seq(Row)
        /\ portfolio'.emitted = portfolio.emitted /\ portfolio'.credits = portfolio.credits
        /\ portfolio'.filteredCredits = Filtered(portfolio.credits, f)
        /\ portfolio'.selected = portfolio.selected /\ portfolio'.waits = portfolio.waits
    BY <1>1, <1>6 DEF applyFilters
  <2>2. portfolio.credits = <<>> => Filtered(portfolio.credits, f) = <<>>
    BY <2>1, LeftOfRows
  <2> QED BY <2>1, <2>2 DEF PortfolioOK
<1>7. ASSUME NEW c \in Credit, toggleSelect(c) PROVE PortfolioOK'
  <2>1. /\ portfolio # Nothing
        /\ portfolio'.emitted = SelectedOf(portfolio.credits, Toggled(c))
        /\ portfolio'.selected = Toggled(c) /\ portfolio'.waits = portfolio.waits
        /\ portfolio'.credits = portfolio.credits
    BY <1>1, <1>7 DEF toggleSelect
  <2>2. portfolio.filteredCredits # <<>>
    BY <1>7 DEF toggleSelect, Ids
  <2>3. portfolio.waits = "no"
    BY <2>1, <2>2 DEF PortfolioOK
  <2> QED BY <2>1, <2>3 DEF PortfolioOK
<1>8. CASE Leave
  BY <1>8 DEF Leave, PortfolioOK
<1> QED
  BY <1>2, <1>3, <1>4, <1>5, <1>6, <1>7, <1>8
  DEF Next, vars, SyncBegins, SyncNext, SyncFails, Restart, WalkBegins, WalkNext

(* The wizard always has what the portfolio marks as selected, in the order  *)
(* of the list (EmittedIsSelection), whatever filters are used, and whenever *)
(* the answer with the credits comes.                                        *)
THEOREM SelectionIsEmitted == Spec => []EmittedIsSelection
<1>1. Init => PortfolioOK
  BY DEF Init, PortfolioOK
<1>2. CatalogueTypeOK /\ PortfolioOK /\ [Next]_vars => PortfolioOK'
  BY PortfolioStep
<1>3. PortfolioOK => EmittedIsSelection
  BY DEF PortfolioOK, EmittedIsSelection
<1> QED BY <1>1, <1>2, <1>3, CatalogueTyped, PTL DEF Spec

--------------------------------------------------------------------------------
(* Paging. *)

(* What a stored credit is found by stays, and so does the credit. *)
Kept == \A c \in Credit : rows[c] # NoRow =>
          rows'[c] # NoRow /\ rows'[c].registry = rows[c].registry /\ rows'[c].vintage = rows[c].vintage

(* No step drops a row or moves it to another place of the order. *)
LEMMA RowsKept ==
  ASSUME CatalogueTypeOK, [Next]_vars
  PROVE  Kept
<1>1. CASE UNCHANGED rows
  BY <1>1 DEF Kept
<1>2. CASE SyncNext
  <2>1. ASSUME NEW i \in DOMAIN mockCredits, mockCredits[i] \in Entry, Upsert(mockCredits[i])
        PROVE  Kept
    <3> DEFINE credit == mockCredits[i]
    <3>1. credit \in Entry /\ Upsert(credit)
      BY <2>1
    <3> HIDE DEF credit
    <3> QED BY <3>1, UpsertIs DEF Kept
  <2> QED BY <1>1, <1>2, <2>1, SyncNextIs
<1> QED
  BY <1>1, <1>2
  DEF Next, vars, SyncBegins, SyncFails, Restart, WalkBegins, WalkNext, Open, Leave, CreditsRead,
      CreditsArrive, applyFilters, toggleSelect

(* So a filter finds what it found, and none of it moves to the front. *)
LEMMA MatchingGrows ==
  ASSUME CatalogueTypeOK, Kept, NEW f, NEW c \in Matching(f)
  PROVE  c \in Matching(f)' /\ Rank(Matching(f), c) <= Rank(Matching(f)', c)
<1> DEFINE S == Matching(f)
           N == Matching(f)'
<1>1. S \subseteq N
  BY DEF Matching, Kept, SqlMatches
<1>2. /\ S \in SUBSET Nat /\ IsFiniteSet(S) /\ N \in SUBSET Nat /\ IsFiniteSet(N)
      /\ c \in S
  <2>1. S \in SUBSET Credit /\ N \in SUBSET Credit
    BY DEF Matching
  <2> QED BY <2>1, CreditsFinite
<1> HIDE DEF S, N
<1>3. IsFiniteSet(Below(N, c)) /\ Below(S, c) \subseteq Below(N, c)
  <2>1. c \in N
    BY <1>1, <1>2
  <2>2. IsFiniteSet(Below(N, c))
    BY <1>2, <2>1, Ranks
  <2> QED BY <1>1, <2>2 DEF Below
<1>4. Cardinality(Below(S, c)) <= Cardinality(Below(N, c))
  BY <1>3, FS_Subset
<1>5. Rank(S, c) <= Rank(N, c)
  BY <1>4 DEF Rank, Below
<1> QED BY <1>1, <1>2, <1>5 DEF S, N

(* What a walk has yet to show lies ahead of it. *)
WalkOK ==
  walk # Nothing =>
    \A c \in walk.stored :
      \/ c \in walk.seen
      \/ /\ ~walk.over
         /\ c \in Matching(walk.filter)
         /\ walk.offset <= Rank(Matching(walk.filter), c)

(* A page takes what it shows from what is ahead, and an insertion only pushes it on. *)
LEMMA WalkStep ==
  ASSUME CatalogueTypeOK, WalkOK, [Next]_vars
  PROVE  WalkOK'
<1>1. Kept
  BY RowsKept
<1>2. CASE UNCHANGED walk
  <2>1. SUFFICES ASSUME walk # Nothing, NEW c \in walk.stored, c \notin walk.seen
                 PROVE  /\ ~walk.over /\ c \in Matching(walk.filter)'
                        /\ walk.offset <= Rank(Matching(walk.filter)', c)
    BY <1>2 DEF WalkOK, Matching
  <2>2. ~walk.over /\ c \in Matching(walk.filter) /\ walk.offset <= Rank(Matching(walk.filter), c)
    BY <2>1 DEF WalkOK
  <2>3. PICK f : f = walk.filter
    OBVIOUS
  <2>4. Matching(walk.filter) = Matching(f) /\ Matching(walk.filter)' = Matching(f)'
    BY <1>2, <2>3
  <2>5. c \in Matching(f)' /\ Rank(Matching(f), c) <= Rank(Matching(f)', c)
    BY <1>1, <2>2, <2>4, MatchingGrows
  <2>6. Rank(Matching(f), c) \in Nat /\ Rank(Matching(f)', c) \in Nat /\ walk.offset \in Nat
    <3>1. /\ Matching(f) \in SUBSET Nat /\ IsFiniteSet(Matching(f))
          /\ Matching(f)' \in SUBSET Nat /\ IsFiniteSet(Matching(f)')
      <4>1. Matching(f) \in SUBSET Credit /\ Matching(f)' \in SUBSET Credit
        BY DEF Matching
      <4> QED BY <4>1, CreditsFinite
    <3>2. walk.offset \in Nat
      BY <2>1 DEF CatalogueTypeOK
    <3> QED BY <2>2, <2>4, <2>5, <3>1, <3>2, Ranks
  <2> QED BY <2>2, <2>4, <2>5, <2>6
<1>3. ASSUME NEW f \in Filter, NEW request \in Request, WalkBegins(f, request)
      PROVE  WalkOK'
  <2>1. request.offset \in Nat
    BY CatalogueAssumption
  <2>2. \A c \in walk'.stored : c \in Matching(f) /\ request.offset <= Rank(Matching(f), c)
    BY <1>3, <2>1, StoredAtFirst DEF WalkBegins
  <2>3. /\ walk'.filter = f /\ walk'.offset = request.offset /\ walk'.over = FALSE
        /\ Matching(f)' = Matching(f)
    BY <1>3 DEF WalkBegins, Matching
  <2> QED BY <2>2, <2>3 DEF WalkOK
<1>4. CASE WalkNext
  <2>1. CASE walk.over
    BY <1>4, <2>1 DEF WalkNext, WalkOK
  <2>2. CASE ~walk.over
    <3> DEFINE page == getCredits(walk.filter, walk.limit, walk.offset)
               S == Matching(walk.filter)
    <3>1. walk # Nothing /\ walk' = [walk EXCEPT !.offset = @ + page.limit, !.seen = @ \cup Ids(page.credits),
                                                 !.over = walk.offset + page.limit >= page.total]
      BY <1>4, <2>2 DEF WalkNext
    <3>2. walk \in [filter : Filter, limit : Nat, offset : Nat, over : BOOLEAN,
                    seen : SUBSET Credit, stored : SUBSET Credit]
      BY <3>1 DEF CatalogueTypeOK
    <3>3. /\ page.limit \in Nat \ {0}
          /\ Ids(page.credits) = {c \in S : walk.offset <= Rank(S, c) /\ Rank(S, c) < walk.offset + page.limit}
          /\ \/ page.total = Cardinality(S)
             \/ page.total = 0 /\ Cardinality(S) <= walk.offset
      BY <3>1, WalkedPage
    <3>4. UNCHANGED rows
      BY <1>4 DEF WalkNext
    <3> HIDE DEF page, S
    <3>5. /\ walk'.filter = walk.filter /\ walk'.stored = walk.stored
          /\ walk'.offset = walk.offset + page.limit
          /\ walk'.seen = walk.seen \cup Ids(page.credits)
          /\ walk'.over = (walk.offset + page.limit >= page.total)
      BY <3>1, <3>2
    <3>6. S \in SUBSET Nat /\ IsFiniteSet(S)
      BY CreditsFinite DEF S, Matching
    <3>7. Cardinality(S) \in Nat /\ \A c \in S : Rank(S, c) \in 0..(Cardinality(S) - 1)
      BY <3>6, Ranks
    <3>8. ASSUME NEW c \in walk.stored
          PROVE  \/ c \in walk'.seen
                 \/ ~walk'.over /\ c \in S /\ walk'.offset <= Rank(S, c)
      <4>1. CASE c \in walk.seen
        BY <3>5, <4>1
      <4>2. CASE c \notin walk.seen
        <5>1. c \in S /\ walk.offset <= Rank(S, c)
          BY <2>2, <3>1, <4>2 DEF WalkOK, S
        <5>2. CASE Rank(S, c) < walk.offset + page.limit
          BY <3>3, <3>5, <5>1, <5>2
        <5>3. CASE walk.offset + page.limit <= Rank(S, c)
          <6>1. ~(walk.offset + page.limit >= page.total)
            BY <3>2, <3>3, <3>7, <5>1, <5>3
          <6> QED BY <3>5, <5>1, <5>3, <6>1
        <5> QED BY <3>2, <3>3, <3>7, <5>1, <5>2, <5>3
      <4> QED BY <4>1, <4>2
    <3>9. Matching(walk.filter)' = S
      BY <3>4, <3>5 DEF S, Matching
    <3> QED
      BY <3>5, <3>8, <3>9 DEF WalkOK
  <2> QED BY <2>1, <2>2
<1> QED
  BY <1>2, <1>3, <1>4
  DEF Next, vars, SyncBegins, SyncNext, SyncFails, Restart, Open, Leave, CreditsRead, CreditsArrive,
      applyFilters, toggleSelect

(* A client that pages to the end has seen every credit that matched when it *)
(* began (PagingMissesNothing), with upserts of any release between any two  *)
(* of its pages, for every limit and offset.                                 *)
THEOREM PagingIsComplete == Spec => []PagingMissesNothing
<1>1. Init => WalkOK
  BY DEF Init, WalkOK
<1>2. CatalogueTypeOK /\ WalkOK /\ [Next]_vars => WalkOK'
  BY WalkStep
<1>3. WalkOK => PagingMissesNothing
  BY DEF WalkOK, PagingMissesNothing
<1> QED BY <1>1, <1>2, <1>3, CatalogueTyped, PTL DEF Spec

--------------------------------------------------------------------------------
(* The table and the dataset. *)

(* In the first release a row has its credit's attributes. *)
SameAsDataset ==
  release = 1 =>
    \A c \in Credit : rows[c] # NoRow =>
      \E i \in DOMAIN Releases[1] :
        /\ Releases[1][i].id = c
        /\ rows[c].registry = Releases[1][i].registry /\ rows[c].vintage = Releases[1][i].vintage

(* A synchronisation writes the dataset's own attributes. *)
LEMMA DatasetStep ==
  ASSUME CatalogueTypeOK, SameAsDataset, [Next]_vars
  PROVE  SameAsDataset'
<1>1. release' = 1 => release = 1
  <2>1. release \in Nat \ {0}
    BY CatalogueAssumption DEF CatalogueTypeOK
  <2>2. release' \in {release, release + 1}
    BY DEF Next, vars, SyncBegins, SyncNext, SyncFails, Restart, WalkBegins, WalkNext, Open, Leave,
           CreditsRead, CreditsArrive, applyFilters, toggleSelect
  <2> QED BY <2>1, <2>2
<1>2. CASE UNCHANGED rows
  BY <1>1, <1>2 DEF SameAsDataset
<1>3. CASE SyncNext
  <2>1. ASSUME NEW i \in DOMAIN mockCredits, mockCredits[i] \in Entry, Upsert(mockCredits[i]), release = 1
        PROVE  SameAsDataset'
    <3> DEFINE credit == mockCredits[i]
    <3>1. credit \in Entry /\ Upsert(credit)
      BY <2>1
    <3>2. i \in DOMAIN Releases[1] /\ credit = Releases[1][i]
      BY <2>1 DEF mockCredits
    <3> HIDE DEF credit
    <3>3. credit.id \in Credit
      BY <3>1 DEF Entry
    <3>4. ASSUME NEW c \in Credit, rows'[c] # NoRow
          PROVE  \E k \in DOMAIN Releases[1] :
                   /\ Releases[1][k].id = c /\ rows'[c].registry = Releases[1][k].registry
                   /\ rows'[c].vintage = Releases[1][k].vintage
      <4>1. CASE rows[c] = NoRow
        <5>1. c = credit.id
          BY <3>1, <3>4, <4>1, UpsertIs
        <5>2. rows'[c].registry = credit.registry /\ rows'[c].vintage = credit.vintage
          BY <3>1, <4>1, <5>1, UpsertIs
        <5> QED BY <3>2, <5>1, <5>2
      <4>2. CASE rows[c] # NoRow
        <5>1. rows'[c].registry = rows[c].registry /\ rows'[c].vintage = rows[c].vintage
          BY <3>1, <4>2, UpsertIs
        <5> QED BY <2>1, <4>2, <5>1 DEF SameAsDataset
      <4> QED BY <4>1, <4>2
    <3> QED BY <3>4 DEF SameAsDataset
  <2>2. CASE UNCHANGED rows
    BY <1>1, <2>2 DEF SameAsDataset
  <2>3. CASE release # 1
    BY <1>1, <2>3 DEF SameAsDataset
  <2> QED BY <1>3, <2>1, <2>2, <2>3, SyncNextIs
<1> QED
  BY <1>2, <1>3
  DEF Next, vars, SyncBegins, SyncFails, Restart, WalkBegins, WalkNext, Open, Leave, CreditsRead,
      CreditsArrive, applyFilters, toggleSelect

(* A browser sends what is truthy and nothing else, so that the two ways of *)
(* reading a parameter agree.                                               *)
LEMMA MatchesAgree ==
  ASSUME NEW f \in CreditFilters, NEW row, NEW credit,
         row.registry = credit.registry, row.vintage = credit.vintage
  PROVE  SqlMatches(row, Params(f)) <=> MemoryMatches(credit, Params(f))
<1> DEFINE g == Params(f)
<1>1. DOMAIN f = {"registry", "vintageMin", "vintageMax"}
  BY DEF CreditFilters
<1>2. \A field \in {"registry", "vintageMin", "vintageMax"} :
        g[field] = IF Truthy(f[field]) THEN f[field] ELSE Undefined
  BY <1>1 DEF Params
<1>3. \A field \in {"registry", "vintageMin", "vintageMax"} : Truthy(g[field]) <=> g[field] # Undefined
  BY <1>2 DEF Truthy
<1>4. /\ Truthy(g.registry) <=> g.registry # Undefined
      /\ Truthy(g.vintageMin) <=> g.vintageMin # Undefined
      /\ Truthy(g.vintageMax) <=> g.vintageMax # Undefined
  BY <1>3
<1> HIDE DEF g
<1>5. SqlMatches(row, g) <=> MemoryMatches(credit, g)
  BY <1>4 DEF SqlMatches, MemoryMatches
<1> QED BY <1>5 DEF g

(* Two sets of which one numbers the other are of one size. *)
LEMMA SameSize ==
  ASSUME NEW P, IsFiniteSet(P), NEW M, NEW h \in [P -> M],
         \A i, j \in P : h[i] = h[j] => i = j,
         \A m \in M : \E i \in P : h[i] = m
  PROVE  Cardinality(M) = Cardinality(P)
<1>1. h \in Bijection(P, M)
  BY DEF Bijection, Injection, IsInjective, Surjection
<1>2. ExistsBijection(P, M)
  BY <1>1 DEF ExistsBijection
<1> QED BY <1>2, FS_Bijection

(* Once it is stored, the rows found are the credits found. *)
LEMMA FoundIsStored ==
  ASSUME CatalogueTypeOK, SameAsDataset, release = 1, Synchronised, NEW f \in CreditFilters
  PROVE  LET found == {i \in DOMAIN mockCredits : MemoryMatches(mockCredits[i], Params(f))}
         IN  /\ Matching(Params(f)) = {mockCredits[i].id : i \in found}
             /\ Cardinality(Matching(Params(f))) = Cardinality(found)
             /\ Cardinality(found) \in Nat /\ Cardinality(found) <= MaxLimit
<1> DEFINE D == mockCredits
           g == Params(f)
           P == {i \in DOMAIN D : MemoryMatches(D[i], g)}
           M == Matching(g)
<1>1. D \in Seq(Entry) /\ DistinctIds(D) /\ Len(D) <= MaxLimit /\ D = Releases[1]
  BY CatalogueAssumption DEF mockCredits, CatalogueTypeOK
<1> HIDE DEF D
<1>2. \A c \in Credit : rows[c] # NoRow =>
        \E i \in DOMAIN D : /\ D[i].id = c
                            /\ rows[c].registry = D[i].registry /\ rows[c].vintage = D[i].vintage
  BY <1>1 DEF SameAsDataset
<1>3. ASSUME NEW i \in DOMAIN D
      PROVE  /\ D[i].id \in Credit /\ rows[D[i].id] # NoRow
             /\ rows[D[i].id].registry = D[i].registry /\ rows[D[i].id].vintage = D[i].vintage
  <2>1. D[i].id \in Credit
    <3>1. D[i] \in Entry
      BY <1>1
    <3> QED BY <3>1 DEF Entry
  <2>2. rows[D[i].id] # NoRow
    BY DEF Synchronised, D
  <2> QED BY <1>1, <1>2, <2>1, <2>2 DEF DistinctIds
<1>4. ASSUME NEW i \in DOMAIN D PROVE D[i].id \in M <=> i \in P
  <2>1. SqlMatches(rows[D[i].id], g) <=> MemoryMatches(D[i], g)
    BY <1>3, MatchesAgree
  <2> QED BY <1>3, <2>1 DEF Matching
<1>5. \A c \in M : \E i \in DOMAIN D : D[i].id = c
  BY <1>2 DEF Matching
<1> HIDE DEF P, M
<1>6. P \in SUBSET DOMAIN D
  BY DEF P
<1>7. M = {D[i].id : i \in P}
  BY <1>4, <1>5, <1>6
<1>8. IsFiniteSet(P) /\ Cardinality(P) \in Nat /\ Cardinality(P) <= MaxLimit
  <2>1. IsFiniteSet(1..Len(D)) /\ Cardinality(1..Len(D)) = Len(D) /\ DOMAIN D = 1..Len(D)
    <3>1. Len(D) \in Nat /\ DOMAIN D = 1..Len(D)
      BY <1>1
    <3>2. 1 \in Int /\ Len(D) \in Int /\ (IF 1 > Len(D) THEN 0 ELSE Len(D) - 1 + 1) = Len(D)
      BY <3>1
    <3> QED BY <3>1, <3>2, FS_Interval
  <2>2. IsFiniteSet(P) /\ Cardinality(P) <= Len(D)
    BY <1>6, <2>1, FS_Subset
  <2>3. Cardinality(P) \in Nat
    BY <2>2, FS_CardinalityType
  <2> QED BY <1>1, <2>2, <2>3, CatalogueAssumption
<1>9. Cardinality(M) = Cardinality(P)
  <2> DEFINE h == [i \in P |-> D[i].id]
  <2>1. h \in [P -> M] /\ \A m \in M : \E i \in P : h[i] = m
    BY <1>7
  <2>2. \A i, j \in P : h[i] = h[j] => i = j
    BY <1>1, <1>6 DEF DistinctIds
  <2> HIDE DEF h
  <2> QED BY <1>8, <2>1, <2>2, SameSize
<1> QED BY <1>7, <1>8, <1>9 DEF P, M, D

(* A dataset and the table it is stored in answer a browser alike. *)
LEMMA Agreed == CatalogueTypeOK /\ SameAsDataset => ListingsAgree
<1> SUFFICES ASSUME CatalogueTypeOK, SameAsDataset, release = 1, Synchronised, NEW f \in CreditFilters
             PROVE  LET stored == getCredits(Params(f), MaxLimit, 0)
                        built == getCreditsOfMemory(Params(f), MaxLimit, 0)
                    IN  stored.total = built.total /\ Ids(stored.credits) = Ids(built.credits)
  BY DEF ListingsAgree
<1> DEFINE g == Params(f)
           P == {i \in DOMAIN mockCredits : MemoryMatches(mockCredits[i], g)}
           M == Matching(g)
           stored == getCredits(g, MaxLimit, 0)
           built == getCreditsOfMemory(g, MaxLimit, 0)
           list == MemoryList(g)
<1>1. MaxLimit \in Nat \ {0} /\ Clamped(MaxLimit) = MaxLimit
  BY CatalogueAssumption DEF Clamped
<1>2. /\ M = {mockCredits[i].id : i \in P} /\ Cardinality(M) = Cardinality(P)
      /\ Cardinality(P) \in Nat /\ Cardinality(P) <= MaxLimit
  BY FoundIsStored
<1>3. /\ stored.limit = MaxLimit
      /\ Ids(stored.credits) = {c \in M : 0 <= Rank(M, c) /\ Rank(M, c) < 0 + stored.limit}
      /\ \/ stored.total = Cardinality(M)
         \/ stored.total = 0 /\ Cardinality(M) <= 0
  BY <1>1, GetCreditsIs
<1>4. built.credits = Page(list, MaxLimit, 0) /\ built.total = Len(list)
  BY <1>1 DEF getCreditsOfMemory
<1>5. P \in SUBSET DOMAIN mockCredits /\ mockCredits \in Seq(Entry)
  BY CatalogueAssumption DEF mockCredits, CatalogueTypeOK
<1>6. list = PickedAt(mockCredits, P)
  BY DEF MemoryList, Filtered
<1>7. M \in SUBSET Nat /\ IsFiniteSet(M)
  BY CreditsFinite DEF Matching
<1> HIDE DEF P, M, stored, built, list
<1>8. list \in Seq(Entry) /\ Len(list) = Cardinality(P) /\ Ids(list) = {mockCredits[i].id : i \in P}
  BY <1>5, <1>6, PickedIs
<1>9. \A c \in M : 0 <= Rank(M, c) /\ Rank(M, c) < 0 + stored.limit
  <2>1. \A c \in M : Rank(M, c) \in 0..(Cardinality(M) - 1)
    BY <1>7, Ranks
  <2> QED BY <1>1, <1>2, <1>3, <2>1
<1>10. Ids(stored.credits) = M
  BY <1>3, <1>9
<1>11. Ids(built.credits) = Ids(list)
  <2> DEFINE p == Page(list, MaxLimit, 0)
  <2>1. /\ p \in Seq(Entry)
        /\ Ids(p) = {list[j].id : j \in {i \in DOMAIN list : 0 < i /\ i <= 0 + MaxLimit}}
        /\ p = <<>> => MaxLimit = 0 \/ Len(list) <= 0
    BY <1>1, <1>8, PageIs
  <2>2. \A i \in DOMAIN list : 0 < i /\ i <= 0 + MaxLimit
    BY <1>1, <1>2, <1>8
  <2>3. {i \in DOMAIN list : 0 < i /\ i <= 0 + MaxLimit} = DOMAIN list
    BY <2>2
  <2> HIDE DEF p
  <2>4. Ids(p) = {list[j].id : j \in DOMAIN list}
    BY <2>1, <2>3
  <2> QED BY <1>4, <2>4 DEF p, Ids
<1>12. stored.total = built.total
  BY <1>2, <1>3, <1>4, <1>8
<1> QED BY <1>2, <1>8, <1>10, <1>11, <1>12 DEF stored, built

(* A dataset answers a browser's filters with the same credits and the same  *)
(* total before and after it is stored (ListingsAgree), for every filter and *)
(* any dataset that one page can show.                                       *)
THEOREM ListingsAlike == Spec => []ListingsAgree
<1>1. Init => SameAsDataset
  BY DEF Init, SameAsDataset
<1>2. CatalogueTypeOK /\ SameAsDataset /\ [Next]_vars => SameAsDataset'
  BY DatasetStep
<1> QED BY <1>1, <1>2, Agreed, CatalogueTyped, PTL DEF Spec

================================================================================
