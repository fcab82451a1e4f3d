------------------------- MODULE MerkleService_proofs -------------------------
(***************************************************************************)
(* What a proof request is answered with, for any number of calls,         *)
(* registries and credits, whatever their queries' order and failures.     *)
(***************************************************************************)
EXTENDS MerkleService, MerkleTree_proofs, FiniteSetTheorems

--------------------------------------------------------------------------------
(* The numbers of a set in their order. *)

Below(S, i) == {j \in S : j < i}

(* How many numbers of a set are below one of them. *)
LEMMA Ranks ==
  ASSUME NEW S \in SUBSET Nat, IsFiniteSet(S)
  PROVE  /\ Cardinality(S) \in Nat
         /\ \A i \in S : IsFiniteSet(Below(S, i)) /\ Rank(S, i) \in 0..(Cardinality(S) - 1)
         /\ \A i, j \in S : i < j => Rank(S, i) < Rank(S, j)
<1>1. Cardinality(S) \in Nat
  BY FS_CardinalityType
<1>2. \A i \in S : Rank(S, i) = Cardinality(Below(S, i))
  BY DEF Rank, Below
<1>3. ASSUME NEW i \in S
      PROVE  IsFiniteSet(Below(S, i)) /\ Cardinality(Below(S, i)) \in 0..(Cardinality(S) - 1)
  <2>1. Below(S, i) \subseteq S \ {i}
    BY DEF Below
  <2>2. IsFiniteSet(S \ {i}) /\ Cardinality(S \ {i}) = Cardinality(S) - 1
    BY FS_RemoveElement
  <2>3. IsFiniteSet(Below(S, i)) /\ Cardinality(Below(S, i)) <= Cardinality(S \ {i})
    BY <2>1, <2>2, FS_Subset
  <2>4. Cardinality(Below(S, i)) \in Nat
    BY <2>3, FS_CardinalityType
  <2> QED BY <1>1, <2>2, <2>3, <2>4
<1>4. ASSUME NEW i \in S, NEW j \in S, i < j
      PROVE  Cardinality(Below(S, i)) < Cardinality(Below(S, j))
  <2>1. i \in Below(S, j) /\ Below(S, i) \subseteq Below(S, j) \ {i}
    <3>1. i \in Nat /\ j \in Nat /\ \A x \in S : x \in Nat
      OBVIOUS
    <3>2. \A x \in S : x < i => x < j /\ x # i
      BY <1>4, <3>1
    <3> QED BY <1>4, <3>2, Zenon DEF Below
  <2>2. IsFiniteSet(Below(S, j)) /\ Cardinality(Below(S, j)) \in Nat
    BY <1>3
  <2>3. IsFiniteSet(Below(S, j) \ {i}) /\ Cardinality(Below(S, j) \ {i}) = Cardinality(Below(S, j)) - 1
    BY <2>1, <2>2, FS_RemoveElement
  <2>4. Cardinality(Below(S, i)) <= Cardinality(Below(S, j) \ {i})
    BY <2>1, <2>3, FS_Subset
  <2>5. Cardinality(Below(S, i)) \in Nat
    BY <1>3
  <2> QED BY <2>2, <2>3, <2>4, <2>5
<1> QED BY <1>1, <1>2, <1>3, <1>4

(* No two numbers are at the same place, so every place has its number. *)
LEMMA PlacesTaken ==
  ASSUME NEW S \in SUBSET Nat, IsFiniteSet(S)
  PROVE  /\ \A i, j \in S : Rank(S, i) = Rank(S, j) => i = j
         /\ \A k \in 0..(Cardinality(S) - 1) : \E i \in S : Rank(S, i) = k
<1> DEFINE n == Cardinality(S)
           rank == [i \in S |-> Rank(S, i)]
<1>1. n \in Nat /\ \A i \in S : Rank(S, i) \in 0..(n - 1)
  BY Ranks
<1>2. \A i, j \in S : Rank(S, i) = Rank(S, j) => i = j
  <2> SUFFICES ASSUME NEW i \in S, NEW j \in S, i # j PROVE Rank(S, i) # Rank(S, j)
    OBVIOUS
  <2>1. i \in Nat /\ j \in Nat /\ (i < j \/ j < i)
    OBVIOUS
  <2>2. Rank(S, i) \in Nat /\ Rank(S, j) \in Nat
    BY <1>1
  <2>3. (i < j => Rank(S, i) < Rank(S, j)) /\ (j < i => Rank(S, j) < Rank(S, i))
    BY Ranks
  <2> QED BY <2>1, <2>2, <2>3
<1>3. IsFiniteSet(0..(n - 1)) /\ Cardinality(0..(n - 1)) = n
  <2>1. 0 \in Int /\ n - 1 \in Int
    BY <1>1
  <2> QED BY <1>1, <2>1, FS_Interval
<1>4. rank \in Injection(S, 0..(n - 1))
  <2>1. rank \in [S -> 0..(n - 1)] /\ \A i, j \in S : rank[i] = rank[j] => i = j
    BY <1>1, <1>2
  <2> HIDE DEF rank, n
  <2> QED BY <2>1 DEF Injection, IsInjective
<1>5. rank \in Surjection(S, 0..(n - 1))
  <2> HIDE DEF rank
  <2> QED BY <1>3, <1>4, FS_Injection
<1>6. \A k \in 0..(n - 1) : \E i \in S : rank[i] = k
  <2> HIDE DEF rank, n
  <2> QED BY <1>5 DEF Surjection
<1> QED BY <1>2, <1>6

(* In order, a set is listed without a gap and with nothing but itself. *)
LEMMA AscendingIs ==
  ASSUME NEW S \in SUBSET Nat, IsFiniteSet(S)
  PROVE  /\ Cardinality(S) \in Nat
         /\ DOMAIN Ascending(S) = 1..Cardinality(S) /\ Len(Ascending(S)) = Cardinality(S)
         /\ \A k \in 1..Cardinality(S) : Ascending(S)[k] \in S /\ Rank(S, Ascending(S)[k]) = k - 1
         /\ \A i \in S : Rank(S, i) + 1 \in 1..Cardinality(S) /\ Ascending(S)[Rank(S, i) + 1] = i
<1> DEFINE n == Cardinality(S)
           at(k) == CHOOSE i \in S : Rank(S, i) = k - 1
<1>1. n \in Nat
  BY FS_CardinalityType
<1>2. Ascending(S) = [k \in 1..n |-> at(k)]
  BY DEF Ascending
<1>3. ASSUME NEW k \in 1..n PROVE at(k) \in S /\ Rank(S, at(k)) = k - 1
  <2>1. k - 1 \in 0..(n - 1)
    BY <1>1
  <2>2. \E i \in S : Rank(S, i) = k - 1
    BY <2>1, PlacesTaken
  <2> QED BY <2>2
<1>4. ASSUME NEW i \in S PROVE Rank(S, i) + 1 \in 1..n /\ at(Rank(S, i) + 1) = i
  <2> DEFINE k == Rank(S, i) + 1
  <2>1. k \in 1..n /\ k - 1 = Rank(S, i)
    BY <1>1, Ranks
  <2>2. at(k) \in S /\ Rank(S, at(k)) = Rank(S, i)
    BY <1>3, <2>1
  <2> HIDE DEF at, k
  <2>3. at(k) = i
    BY <2>2, PlacesTaken
  <2> QED BY <2>1, <2>3 DEF k
<1> HIDE DEF at, n
<1>5. DOMAIN Ascending(S) = 1..n /\ Len(Ascending(S)) = n /\ \A k \in 1..n : Ascending(S)[k] = at(k)
  BY <1>1, <1>2
<1> QED BY <1>1, <1>3, <1>4, <1>5 DEF n

--------------------------------------------------------------------------------
(* The leaves of a registry. *)

RegistryOfHash(h) == RegistryOf[CreditOf(h)]

(* Credits are finitely many numbers. *)
LEMMA CreditsFinite ==
  /\ Cardinality(Credit) \in Nat /\ Credit \in SUBSET Nat
  /\ \A S \in SUBSET Credit : S \in SUBSET Nat /\ IsFiniteSet(S) /\ Cardinality(S) <= Cardinality(Credit)
<1>1. Cardinality(Credit) \in Nat /\ IsFiniteSet(Credit)
  BY CatalogueAssumption, FS_CardinalityType
<1>2. Credit \in SUBSET Nat
  BY <1>1, CatalogueAssumption
<1>3. ASSUME NEW S \in SUBSET Credit
      PROVE  S \in SUBSET Nat /\ IsFiniteSet(S) /\ Cardinality(S) <= Cardinality(Credit)
  BY <1>1, <1>2, FS_Subset
<1> QED BY <1>1, <1>2, <1>3

(* Of which credit a hash is, is unambiguous. *)
LEMMA HashOwner ==
  ASSUME NEW i \in Credit
  PROVE  /\ CreditOf(creditHash(i)) = i /\ CreditOf(EarlierHash(i)) = i
         /\ creditHash(i) \in Hash /\ EarlierHash(i) \in Hash
<1>1. i \in Nat /\ \A j \in Credit : j \in Nat
  BY CreditsFinite
<1>2. ASSUME NEW j \in Credit, NEW h \in {creditHash(i), EarlierHash(i)},
             h \in {creditHash(j), EarlierHash(j)}
      PROVE  j = i
  <2>1. j \in Nat
    BY <1>1
  <2>2. \A x, y \in Nat : Leaf(x) = Leaf(y) => x = y
    BY DEF Leaf
  <2>3. 2 * i \in Nat /\ 2 * i + 1 \in Nat /\ 2 * j \in Nat /\ 2 * j + 1 \in Nat
    BY <1>1, <2>1
  <2>4. 2 * i = 2 * j \/ 2 * i = 2 * j + 1 \/ 2 * i + 1 = 2 * j \/ 2 * i + 1 = 2 * j + 1
    BY <1>2, <2>2, <2>3 DEF creditHash, EarlierHash
  <2> QED BY <1>1, <2>1, <2>4
<1>3. ASSUME NEW h \in {creditHash(i), EarlierHash(i)} PROVE CreditOf(h) = i
  <2>1. \E j \in Credit : h \in {creditHash(j), EarlierHash(j)}
    OBVIOUS
  <2>2. CreditOf(h) \in Credit /\ h \in {creditHash(CreditOf(h)), EarlierHash(CreditOf(h))}
    BY <2>1, Zenon DEF CreditOf
  <2> QED BY <1>2, <2>2
<1> QED BY <1>3 DEF Hash

(* A registry's leaves fit its tree, and each is the hash of one of its    *)
(* credits.                                                                *)
LEMMA LeavesTyped ==
  ASSUME NEW r
  PROVE  /\ DOMAIN LeavesOf(r) = 1..Len(LeavesOf(r))
         /\ Len(LeavesOf(r)) \in Nat /\ Len(LeavesOf(r)) <= power[TreeDepth]
         /\ \A k \in DOMAIN LeavesOf(r) : LeavesOf(r)[k] \in Hash /\ RegistryOfHash(LeavesOf(r)[k]) = r
<1> DEFINE S == {i \in Credit : Rows[i] # "absent" /\ RegistryOf[i] = r}
           ids == Ascending(S)
           n == Cardinality(S)
<1>1. S \in SUBSET Nat /\ IsFiniteSet(S) /\ n <= Cardinality(Credit) /\ S \in SUBSET Credit
  <2>1. S \in SUBSET Credit
    OBVIOUS
  <2> HIDE DEF S
  <2> QED BY <2>1, CreditsFinite
<1>2. LeavesOf(r) = [k \in DOMAIN ids |-> RowHash(ids[k])]
  BY DEF LeavesOf
<1> HIDE DEF S
<1>3. n \in Nat /\ DOMAIN ids = 1..n /\ \A k \in 1..n : ids[k] \in S
  BY <1>1, AscendingIs
<1> HIDE DEF ids
<1>4. DOMAIN LeavesOf(r) = 1..n /\ Len(LeavesOf(r)) = n
  BY <1>2, <1>3
<1>5. n <= power[TreeDepth]
  <2>1. Cardinality(Credit) \in Nat /\ Cardinality(Credit) <= power[TreeDepth] /\ power[TreeDepth] \in Nat
    BY CatalogueAssumption, CreditsFinite, Powers, TreeDepthAssumption
  <2> QED BY <1>1, <1>3, <2>1
<1>6. ASSUME NEW k \in 1..n PROVE LeavesOf(r)[k] \in Hash /\ RegistryOfHash(LeavesOf(r)[k]) = r
  <2>1. ids[k] \in Credit /\ RegistryOf[ids[k]] = r
    BY <1>3 DEF S
  <2>2. LeavesOf(r)[k] = RowHash(ids[k])
    BY <1>2, <1>3
  <2>3. RowHash(ids[k]) \in {creditHash(ids[k]), EarlierHash(ids[k])}
    BY DEF RowHash
  <2> QED BY <2>1, <2>2, <2>3, HashOwner DEF RegistryOfHash
<1> QED BY <1>3, <1>4, <1>5, <1>6

Entry == {[registry |-> r, leaves |-> LeavesOf(r)] : r \in Registry}

(* What a rebuild goes through is each registry with its leaves; it is not *)
(* empty when some credit has a row.                                       *)
LEMMA ByRegistryTyped ==
  /\ ByRegistry \in Seq(Entry)
  /\ (\E i \in Credit : Rows[i] # "absent") => ByRegistry # <<>>
<1> DEFINE First(i) == /\ Rows[i] # "absent"
                       /\ \A j \in 1..(i - 1) : Rows[j] # "absent" => RegistryOf[j] # RegistryOf[i]
           S == {i \in Credit : First(i)}
           firsts == Ascending(S)
           n == Cardinality(S)
           entry(i) == [registry |-> RegistryOf[i], leaves |-> LeavesOf(RegistryOf[i])]
<1>1. S \in SUBSET Nat /\ IsFiniteSet(S) /\ S \in SUBSET Credit
  <2>1. S \in SUBSET Credit
    OBVIOUS
  <2> HIDE DEF S
  <2> QED BY <2>1, CreditsFinite
<1>2. ByRegistry = [k \in DOMAIN firsts |-> entry(firsts[k])]
  BY DEF ByRegistry
<1>3. ASSUME NEW i \in Credit, Rows[i] # "absent" PROVE S # {}
  <2> DEFINE Present == {j \in Credit : Rows[j] # "absent"}
  <2>1. Present \in SUBSET Nat /\ Present # {}
    BY <1>3, CreditsFinite
  <2>2. PICK j \in Present : \A m \in Present : j <= m
    <3> HIDE DEF Present
    <3> QED BY <2>1, LeastElement
  <2>3. Credit = 1..Cardinality(Credit) /\ Cardinality(Credit) \in Nat /\ j \in Credit /\ Rows[j] # "absent"
    BY <2>2, CatalogueAssumption, CreditsFinite
  <2>4. ASSUME NEW m \in 1..(j - 1) PROVE Rows[m] = "absent"
    <3>1. m \in Credit /\ ~(j <= m)
      BY <2>3
    <3> QED BY <2>2, <3>1
  <2>5. First(j)
    BY <2>3, <2>4
  <2> QED BY <2>3, <2>5
<1> HIDE DEF S
<1>4. n \in Nat /\ DOMAIN firsts = 1..n /\ \A k \in 1..n : firsts[k] \in S
  BY <1>1, AscendingIs
<1>5. ASSUME NEW i \in Credit PROVE entry(i) \in Entry
  <2>1. RegistryOf[i] \in Registry
    BY CatalogueAssumption
  <2> QED BY <2>1 DEF Entry
<1> HIDE DEF firsts, entry
<1>6. ByRegistry \in Seq(Entry)
  <2>1. ASSUME NEW k \in 1..n PROVE entry(firsts[k]) \in Entry
    BY <1>1, <1>4, <1>5
  <2>2. ByRegistry \in [1..n -> Entry]
    BY <1>2, <1>4, <2>1
  <2> QED BY <1>4, <2>2
<1>7. S # {} => ByRegistry # <<>>
  <2>1. SUFFICES ASSUME S # {} PROVE ByRegistry # <<>>
    OBVIOUS
  <2>2. n # 0
    BY <1>1, <2>1, FS_EmptySet
  <2>3. 1 \in DOMAIN ByRegistry
    BY <1>2, <1>4, <2>2
  <2> QED BY <2>3
<1> QED BY <1>3, <1>6, <1>7

--------------------------------------------------------------------------------
(* The inductive invariant. *)

(* The rows of the catalogue will not change any more. *)
Settled == pool => \A i \in Catalogue : credits[i] = "current"

(* An entry of the index points to the hash it is of. *)
Points(h, location) ==
  LET leaves == LeavesOf(RegistryOfHash(h)) IN
  /\ location.registry = RegistryOfHash(h)
  /\ location.index \in 0..(Len(leaves) - 1)
  /\ leaves[location.index + 1] = h

(* Trees and index are those of the rows; the leaves of a tree are all in  *)
(* the index.                                                              *)
MemoryOK(ts, index) ==
  /\ DOMAIN ts = Registry /\ DOMAIN index = Hash
  /\ \A r \in Registry : ts[r] # NoTree =>
       /\ Settled /\ ts[r] = buildMerkleTree(LeavesOf(r))
       /\ \A k \in DOMAIN LeavesOf(r) : index[LeavesOf(r)[k]] # NoLocation
  /\ \A h \in Hash : index[h] # NoLocation => Settled /\ Points(h, index[h])

(* A proof given out is of the tree that is still there. *)
Proves(h, ts, proof) ==
  LET leaves == LeavesOf(RegistryOfHash(h)) IN
  /\ Settled /\ ts[RegistryOfHash(h)] = buildMerkleTree(leaves)
  /\ \E n \in 0..(Len(leaves) - 1) :
       leaves[n + 1] = h /\ proof = getMerkleProofFromTree(buildMerkleTree(leaves), n)

CallOK(c) ==
  /\ wanted[c] \in Hash
  /\ pc[c] = "new" => synced[c] = 0
  /\ pc[c] \in {"upsert", "select", "snapshot"} => pool
  /\ pc[c] = "upsert" =>
       /\ synced[c] \in 0..(Cardinality(Catalogue) - 1)
       /\ \A k \in 1..synced[c] : credits[Ascending(Catalogue)[k]] = "current"
  /\ pc[c] \in {"select", "snapshot"} => Settled
  /\ pc[c] = "snapshot" => todo[c] \in Seq(Entry) /\ todo[c] # <<>>
  /\ pc[c] = "proof" => Proves(wanted[c], trees, reply[c])

ServiceTyped ==
  /\ credits \in [Credit -> {"absent", "earlier", "current"}]
  /\ DOMAIN pc = Call /\ DOMAIN reply = Call /\ DOMAIN synced = Call /\ DOMAIN todo = Call

ServiceInv ==
  /\ ServiceTyped
  /\ MemoryOK(trees, creditHashIndex)
  /\ \A c \in Call : CallOK(c)

(* Registries and rows of a process that starts are in the invariant. *)
LEMMA InitService == Init => ServiceInv
<1> SUFFICES ASSUME Init PROVE ServiceInv
  OBVIOUS
<1>1. ServiceTyped
  BY DEF Init, ServiceTyped
<1>2. MemoryOK(trees, creditHashIndex)
  BY DEF Init, MemoryOK
<1>3. ASSUME NEW c \in Call PROVE CallOK(c)
  <2>1. wanted[c] \in {creditHash(i) : i \in Catalogue} \cup {EarlierHash(i) : i \in Credit}
    BY DEF Init
  <2>2. wanted[c] \in Hash
    BY <2>1, CatalogueAssumption DEF Hash
  <2> QED BY <2>2 DEF Init, CallOK
<1> QED BY <1>1, <1>2, <1>3 DEF ServiceInv

(* Where the rows stay, so do the leaves. *)
LEMMA LeavesStay ==
  ASSUME UNCHANGED <<pool, credits>>
  PROVE  /\ \A r : LeavesOf(r)' = LeavesOf(r)
         /\ Entry' = Entry /\ Settled' = Settled /\ ByRegistry' = ByRegistry
<1>1. \A r : LeavesOf(r)' = LeavesOf(r)
  BY DEF LeavesOf, Rows, RowHash
<1>2. Entry' = Entry
  BY <1>1 DEF Entry
<1>3. Settled' = Settled
  BY DEF Settled
<1>4. ByRegistry' = ByRegistry
  BY <1>1 DEF ByRegistry, Rows
<1> QED BY <1>1, <1>2, <1>3, <1>4

(* Memory that was right for the rows is right for unchanged rows. *)
LEMMA MemoryStays ==
  ASSUME UNCHANGED <<pool, credits>>, MemoryOK(trees', creditHashIndex')
  PROVE  MemoryOK(trees, creditHashIndex)'
<1>1. /\ \A r : LeavesOf(r)' = LeavesOf(r)
      /\ Settled' = Settled
  BY LeavesStay
<1>2. \A h, l : Points(h, l)' = Points(h, l)
  BY <1>1 DEF Points
<1> QED BY <1>1, <1>2 DEF MemoryOK

(* A set of numbers that all are below the number of catalogue credits. *)
LEMMA AllUpserted ==
  ASSUME \A k \in 1..Cardinality(Catalogue) : credits[Ascending(Catalogue)[k]] = "current"
  PROVE  Settled
<1>1. Catalogue \in SUBSET Credit
  BY CatalogueAssumption
<1>2. Catalogue \in SUBSET Nat /\ IsFiniteSet(Catalogue)
  BY <1>1, CreditsFinite
<1>3. \A i \in Catalogue : \E k \in 1..Cardinality(Catalogue) : Ascending(Catalogue)[k] = i
  BY <1>2, AscendingIs
<1> QED BY <1>3 DEF Settled

(* A sync in progress writes one row of the catalogue. *)
LEMMA UpsertedRow ==
  ASSUME NEW c \in Call, CallOK(c), pc[c] = "upsert", UpsertRow(c), ServiceTyped
  PROVE  /\ credits' \in [Credit -> {"absent", "earlier", "current"}]
         /\ \A i \in Credit : credits[i] = "current" => credits'[i] = "current"
         /\ credits'[Ascending(Catalogue)[synced[c] + 1]] = "current"
         /\ pool /\ Cardinality(Catalogue) \in Nat
         /\ synced[c] + 1 \in 1..Cardinality(Catalogue)
         /\ \A k \in 1..Cardinality(Catalogue) : Ascending(Catalogue)[k] \in Credit
         /\ Settled => credits' = credits
<1>1. Catalogue \in SUBSET Credit
  BY CatalogueAssumption
<1>2. Catalogue \in SUBSET Nat /\ IsFiniteSet(Catalogue)
  BY <1>1, CreditsFinite
<1>3. /\ Cardinality(Catalogue) \in Nat
      /\ \A k \in 1..Cardinality(Catalogue) : Ascending(Catalogue)[k] \in Catalogue
  BY <1>2, AscendingIs
<1>4. synced[c] + 1 \in 1..Cardinality(Catalogue) /\ pool
  BY <1>3 DEF CallOK
<1> DEFINE i == Ascending(Catalogue)[synced[c] + 1]
<1>5. i \in Catalogue /\ i \in Credit
  BY <1>1, <1>3, <1>4
<1>6. credits' = [credits EXCEPT ![i] = "current"]
  BY DEF UpsertRow
<1> HIDE DEF i
<1>7. credits'[i] = "current" /\ credits' \in [Credit -> {"absent", "earlier", "current"}]
      /\ \A j \in Credit : credits[j] = "current" => credits'[j] = "current"
  BY <1>5, <1>6 DEF ServiceTyped
<1>8. ASSUME Settled PROVE credits' = credits
  <2>1. credits[i] = "current"
    BY <1>4, <1>5, <1>8 DEF Settled
  <2> QED BY <1>6, <2>1 DEF ServiceTyped
<1> QED BY <1>1, <1>3, <1>4, <1>7, <1>8 DEF i

--------------------------------------------------------------------------------
(* Publishing trees, and looking up a proof. *)

(* What is in a list of registries' entries. *)
LEMMA EntriesOf ==
  ASSUME NEW list \in Seq(Entry), NEW k \in DOMAIN list
  PROVE  list[k].registry \in Registry /\ list[k].leaves = LeavesOf(list[k].registry)
<1>1. list[k] \in Entry
  OBVIOUS
<1>2. PICK r \in Registry : list[k] = [registry |-> r, leaves |-> LeavesOf(r)]
  BY <1>1 DEF Entry
<1> QED BY <1>2

(* The trees of a list of registries are built from their leaves, and      *)
(* trees that were right for the rows stay.                                *)
LEMMA TreesPublished ==
  ASSUME NEW list \in Seq(Entry), MemoryOK(trees, creditHashIndex), NEW r \in Registry
  PROVE  /\ (\E k \in DOMAIN list : list[k].registry = r) =>
              TreesWith(list)[r] = buildMerkleTree(LeavesOf(r))
         /\ ~(\E k \in DOMAIN list : list[k].registry = r) => TreesWith(list)[r] = trees[r]
         /\ trees[r] = buildMerkleTree(LeavesOf(r)) => TreesWith(list)[r] = buildMerkleTree(LeavesOf(r))
<1> DEFINE In == \E k \in DOMAIN list : list[k].registry = r
           chosen == CHOOSE k \in DOMAIN list : list[k].registry = r
<1>1. TreesWith(list)[r] = IF In THEN buildMerkleTree(list[chosen].leaves) ELSE trees[r]
  BY DEF TreesWith
<1>2. ASSUME In PROVE list[chosen].leaves = LeavesOf(r)
  <2>1. chosen \in DOMAIN list /\ list[chosen].registry = r
    BY <1>2
  <2> HIDE DEF chosen
  <2> QED BY <2>1, EntriesOf
<1> HIDE DEF In, chosen
<1> QED BY <1>1, <1>2 DEF In

(* The index gets the place of every leaf of the list and keeps the rest.  *)
LEMMA IndexPublished ==
  ASSUME NEW list \in Seq(Entry), NEW h \in Hash
  PROVE  \/ IndexWith(list)[h] \in [registry : Registry, index : Nat] /\ Points(h, IndexWith(list)[h])
         \/ /\ IndexWith(list)[h] = creditHashIndex[h]
            /\ \A k \in DOMAIN list : \A i \in DOMAIN list[k].leaves : list[k].leaves[i] # h
<1> DEFINE holds(k) == \E i \in DOMAIN list[k].leaves : list[k].leaves[i] = h
           position(k) == CHOOSE i \in DOMAIN list[k].leaves : list[k].leaves[i] = h
           k0 == CHOOSE k \in DOMAIN list : holds(k)
           i0 == position(k0)
<1>1. IndexWith(list)[h] = IF \E k \in DOMAIN list : holds(k)
                             THEN [registry |-> list[k0].registry, index |-> i0 - 1]
                             ELSE creditHashIndex[h]
  BY DEF IndexWith
<1>2. CASE \E k \in DOMAIN list : holds(k)
  <2>1. k0 \in DOMAIN list /\ holds(k0)
    BY <1>2, Zenon
  <2>2. i0 \in DOMAIN list[k0].leaves /\ list[k0].leaves[i0] = h
    BY <2>1, Zenon
  <2>3. IndexWith(list)[h] = [registry |-> list[k0].registry, index |-> i0 - 1]
    BY <1>1, <1>2
  <2> HIDE DEF holds, position, k0, i0
  <2> DEFINE r == list[k0].registry
  <2>4. r \in Registry /\ list[k0].leaves = LeavesOf(r)
    BY <2>1, EntriesOf
  <2>5. i0 \in DOMAIN LeavesOf(r) /\ LeavesOf(r)[i0] = h
    BY <2>2, <2>4
  <2> HIDE DEF r
  <2>6. RegistryOfHash(h) = r /\ i0 \in 1..Len(LeavesOf(r)) /\ Len(LeavesOf(r)) \in Nat
    BY <2>5, LeavesTyped
  <2>7. i0 - 1 \in 0..(Len(LeavesOf(r)) - 1) /\ i0 - 1 + 1 = i0 /\ i0 - 1 \in Nat
    BY <2>6
  <2>8. Points(h, [registry |-> r, index |-> i0 - 1])
    BY <2>5, <2>6, <2>7 DEF Points
  <2> QED BY <2>3, <2>4, <2>7, <2>8 DEF r
<1>3. CASE ~(\E k \in DOMAIN list : holds(k))
  BY <1>1, <1>3
<1> QED BY <1>2, <1>3

(* Memory stays right when trees and index are published together. *)
LEMMA Published ==
  ASSUME NEW list \in Seq(Entry), MemoryOK(trees, creditHashIndex), Settled, Publish(list)
  PROVE  /\ MemoryOK(trees', creditHashIndex')
         /\ \A r \in Registry : trees[r] = buildMerkleTree(LeavesOf(r)) => trees'[r] = buildMerkleTree(LeavesOf(r))
<1>1. trees' = TreesWith(list) /\ creditHashIndex' = IndexWith(list)
  BY DEF Publish
<1>2. DOMAIN trees' = Registry /\ DOMAIN creditHashIndex' = Hash
  BY <1>1 DEF TreesWith, IndexWith
<1>3. \A h \in Hash :
        \/ creditHashIndex'[h] # NoLocation /\ Points(h, creditHashIndex'[h])
        \/ /\ creditHashIndex'[h] = creditHashIndex[h]
           /\ \A k \in DOMAIN list : \A i \in DOMAIN list[k].leaves : list[k].leaves[i] # h
  BY <1>1, IndexPublished, CatalogueAssumption
<1>4. ASSUME NEW h \in Hash, creditHashIndex'[h] # NoLocation PROVE Points(h, creditHashIndex'[h])
  BY <1>3, <1>4 DEF MemoryOK
<1>5. ASSUME NEW r \in Registry, trees'[r] # NoTree
      PROVE  /\ trees'[r] = buildMerkleTree(LeavesOf(r))
             /\ \A k \in DOMAIN LeavesOf(r) : creditHashIndex'[LeavesOf(r)[k]] # NoLocation
  <2>1. \A k \in DOMAIN LeavesOf(r) : LeavesOf(r)[k] \in Hash
    BY LeavesTyped
  <2>2. CASE \E k \in DOMAIN list : list[k].registry = r
    <3>1. PICK k \in DOMAIN list : list[k].registry = r
      BY <2>2
    <3>2. list[k].leaves = LeavesOf(r)
      BY <3>1, EntriesOf
    <3> QED BY <1>1, <1>3, <2>1, <2>2, <3>2, TreesPublished
  <2>3. CASE ~(\E k \in DOMAIN list : list[k].registry = r)
    <3>1. trees'[r] = trees[r]
      BY <1>1, <2>3, TreesPublished
    <3>2. \A k \in DOMAIN LeavesOf(r) : creditHashIndex[LeavesOf(r)[k]] # NoLocation
      BY <1>5, <3>1 DEF MemoryOK
    <3>3. trees'[r] = buildMerkleTree(LeavesOf(r))
      BY <1>5, <3>1 DEF MemoryOK
    <3> QED BY <1>3, <2>1, <3>2, <3>3
  <2> QED BY <2>2, <2>3
<1>6. \A r \in Registry : trees[r] = buildMerkleTree(LeavesOf(r)) => trees'[r] = buildMerkleTree(LeavesOf(r))
  BY <1>1, TreesPublished
<1> QED BY <1>2, <1>4, <1>5, <1>6 DEF MemoryOK

(* The registry of a hash is a registry. *)
LEMMA HashRegistry == \A h \in Hash : RegistryOfHash(h) \in Registry
<1> TAKE h \in Hash
<1>1. PICK i \in Credit : h \in {creditHash(i), EarlierHash(i)}
  BY DEF Hash
<1>2. CreditOf(h) = i
  BY <1>1, HashOwner
<1> QED BY <1>2, CatalogueAssumption DEF RegistryOfHash

(* A lookup answers with a proof for the hash that was asked for, or finds *)
(* it unknown only where its registry's tree is missing.                   *)
LEMMA LookedUp ==
  ASSUME NEW c \in Call, NEW ts, NEW index, MemoryOK(ts, index), Lookup(c, ts, index),
         ServiceTyped, wanted[c] \in Hash
  PROVE  /\ pc' = [pc EXCEPT ![c] = pc'[c]] /\ pc'[c] \in {"proof", "not_found"}
         /\ reply' = [reply EXCEPT ![c] = reply'[c]]
         /\ pc'[c] = "proof" => Proves(wanted[c], ts, reply'[c])
         /\ pc'[c] = "not_found" =>
              LET r == RegistryOfHash(wanted[c]) IN
              (\E k \in DOMAIN LeavesOf(r) : LeavesOf(r)[k] = wanted[c]) /\ r \in Registry => ts[r] = NoTree
<1> DEFINE h == wanted[c]
           location == index[h]
           r == RegistryOfHash(h)
           known == location # NoLocation /\ ts[location.registry] # NoTree
<1>1. /\ pc' = [pc EXCEPT ![c] = IF known THEN "proof" ELSE "not_found"]
      /\ reply' = [reply EXCEPT ![c] =
           IF known THEN getMerkleProofFromTree(ts[location.registry], location.index) ELSE reply[c]]
  BY DEF Lookup, Goto
<1> HIDE DEF known
<1>2. /\ pc'[c] = IF known THEN "proof" ELSE "not_found"
      /\ reply'[c] = IF known THEN getMerkleProofFromTree(ts[location.registry], location.index) ELSE reply[c]
  BY <1>1 DEF ServiceTyped
<1>3. pc' = [pc EXCEPT ![c] = pc'[c]] /\ reply' = [reply EXCEPT ![c] = reply'[c]]
  BY <1>1, <1>2
<1>4. location # NoLocation => Settled /\ Points(h, location)
  BY DEF MemoryOK
<1>5. ASSUME pc'[c] = "proof" PROVE Proves(h, ts, reply'[c])
  <2>1. known
    BY <1>2, <1>5
  <2>2. location # NoLocation /\ ts[location.registry] # NoTree
    BY <2>1 DEF known
  <2>3. Settled /\ location.registry = r /\ LeavesOf(r)[location.index + 1] = h
        /\ location.index \in 0..(Len(LeavesOf(r)) - 1)
    BY <1>4, <2>2 DEF Points
  <2>4. r \in Registry
    BY HashRegistry
  <2>5. ts[r] = buildMerkleTree(LeavesOf(r))
    BY <2>2, <2>3, <2>4 DEF MemoryOK
  <2>6. reply'[c] = getMerkleProofFromTree(buildMerkleTree(LeavesOf(r)), location.index)
    BY <1>2, <2>1, <2>3, <2>5
  <2> QED BY <2>3, <2>5, <2>6 DEF Proves
<1>6. ASSUME pc'[c] = "not_found", NEW k \in DOMAIN LeavesOf(r), LeavesOf(r)[k] = h, r \in Registry
      PROVE  ts[r] = NoTree
  <2>1. ~known
    BY <1>2, <1>6
  <2>2. CASE location = NoLocation
    BY <1>6, <2>2 DEF MemoryOK
  <2>3. CASE location # NoLocation
    <3>1. location.registry = r
      BY <1>4, <2>3 DEF Points
    <3> QED BY <2>1, <2>3, <3>1 DEF known
  <2> QED BY <2>2, <2>3
<1> QED BY <1>2, <1>3, <1>5, <1>6

--------------------------------------------------------------------------------
(* Steps. *)

(* What every step does to the rows: settled rows stay, and a current one  *)
(* stays current.                                                          *)
RowsGrow ==
  /\ pool' = pool /\ wanted' = wanted
  /\ Settled => credits' = credits
  /\ \A i \in Credit : credits[i] = "current" => credits'[i] = "current"

(* No proof loses its tree. *)
TreesStay ==
  Settled => \A r \in Registry : trees[r] = buildMerkleTree(LeavesOf(r)) =>
                                 trees'[r] = buildMerkleTree(LeavesOf(r))

(* Memory that is left alone stays right, also while rows still change. *)
LEMMA MemoryKept ==
  ASSUME ServiceInv, RowsGrow, UNCHANGED memory
  PROVE  MemoryOK(trees, creditHashIndex)' /\ TreesStay
<1>1. trees' = trees /\ creditHashIndex' = creditHashIndex /\ MemoryOK(trees, creditHashIndex)
  BY DEF memory, ServiceInv
<1>2. TreesStay
  BY <1>1 DEF TreesStay
<1>3. CASE Settled
  <2>1. UNCHANGED <<pool, credits>>
    BY <1>3 DEF RowsGrow
  <2>2. MemoryOK(trees', creditHashIndex')
    BY <1>1
  <2> QED BY <1>2, <2>1, <2>2, MemoryStays
<1>4. CASE ~Settled
  <2>1. (\A r \in Registry : trees'[r] = NoTree) /\ \A h \in Hash : creditHashIndex'[h] = NoLocation
    BY <1>1, <1>4 DEF MemoryOK
  <2>2. DOMAIN trees' = Registry /\ DOMAIN creditHashIndex' = Hash
    BY <1>1 DEF MemoryOK
  <2> QED BY <1>2, <2>1, <2>2 DEF MemoryOK
<1> QED BY <1>3, <1>4

(* A proof stays one while its tree does. *)
LEMMA ProvesStays ==
  ASSUME NEW h \in Hash, NEW proof, Proves(h, trees, proof), RowsGrow, TreesStay
  PROVE  /\ UNCHANGED <<pool, credits>>
         /\ \A p : p = proof => Proves(h, trees', p)
<1>1. Settled
  BY DEF Proves
<1>2. UNCHANGED <<pool, credits>>
  BY <1>1 DEF RowsGrow
<1>3. RegistryOfHash(h) \in Registry
  BY HashRegistry
<1>4. trees'[RegistryOfHash(h)] = buildMerkleTree(LeavesOf(RegistryOfHash(h)))
  BY <1>1, <1>3 DEF Proves, TreesStay
<1>5. Proves(h, trees', proof)
  BY <1>4 DEF Proves
<1> QED BY <1>2, <1>5

(* A proof of unchanged rows is one of the next state. *)
LEMMA ProvesNext ==
  ASSUME NEW c \in Call, UNCHANGED <<pool, credits>>, wanted' = wanted, Proves(wanted[c], trees', reply'[c])
  PROVE  Proves(wanted[c], trees, reply[c])'
<1>1. (\A r : LeavesOf(r)' = LeavesOf(r)) /\ Settled' = Settled
  BY LeavesStay
<1> QED BY <1>1 DEF Proves, RegistryOfHash, CreditOf

(* A call that takes no step stays as it is. *)
LEMMA OtherCall ==
  ASSUME ServiceInv, RowsGrow, TreesStay, NEW b \in Call,
         UNCHANGED <<pc[b], reply[b], synced[b], todo[b]>>
  PROVE  CallOK(b)'
<1>1. CallOK(b) /\ wanted' = wanted /\ pool' = pool
  BY DEF ServiceInv, RowsGrow
<1>2. CASE pc[b] = "upsert"
  <2>1. Catalogue \in SUBSET Credit
    BY CatalogueAssumption
  <2>2. Catalogue \in SUBSET Nat /\ IsFiniteSet(Catalogue)
    BY <2>1, CreditsFinite
  <2>3. /\ Cardinality(Catalogue) \in Nat
        /\ \A k \in 1..Cardinality(Catalogue) : Ascending(Catalogue)[k] \in Credit
    BY <2>1, <2>2, AscendingIs
  <2>4. synced[b] \in 0..(Cardinality(Catalogue) - 1)
        /\ \A k \in 1..synced[b] : credits[Ascending(Catalogue)[k]] = "current"
    BY <1>1, <1>2 DEF CallOK
  <2>5. ASSUME NEW k \in 1..synced[b] PROVE credits'[Ascending(Catalogue)[k]] = "current"
    <3>1. k \in 1..Cardinality(Catalogue)
      BY <2>3, <2>4
    <3> QED BY <2>3, <2>4, <3>1 DEF RowsGrow
  <2> QED BY <1>1, <1>2, <2>4, <2>5 DEF CallOK
<1>3. CASE pc[b] \in {"select", "snapshot"}
  <2>1. Settled
    BY <1>1, <1>3 DEF CallOK
  <2>2. UNCHANGED <<pool, credits>>
    BY <2>1 DEF RowsGrow
  <2>3. Settled' /\ Entry' = Entry
    BY <2>1, <2>2, LeavesStay
  <2> QED BY <1>1, <1>3, <2>3 DEF CallOK
<1>4. CASE pc[b] = "proof"
  <2>1. Proves(wanted[b], trees, reply[b]) /\ wanted[b] \in Hash
    BY <1>1, <1>4 DEF CallOK
  <2>2. UNCHANGED <<pool, credits>> /\ Proves(wanted[b], trees', reply'[b])
    BY <2>1, ProvesStays
  <2>3. Proves(wanted[b], trees, reply[b])'
    BY <1>1, <2>2, ProvesNext
  <2> QED BY <1>1, <1>4, <2>3 DEF CallOK
<1>5. CASE pc[b] \notin {"upsert", "select", "snapshot", "proof"}
  BY <1>1, <1>5 DEF CallOK
<1> QED BY <1>2, <1>3, <1>4, <1>5

(* A step of one call. *)
LEMMA OneCall ==
  ASSUME ServiceInv, RowsGrow, TreesStay, NEW c \in Call,
         \A b \in Call \ {c} : UNCHANGED <<pc[b], reply[b], synced[b], todo[b]>>,
         ServiceTyped', MemoryOK(trees, creditHashIndex)', CallOK(c)'
  PROVE  ServiceInv'
<1>1. \A b \in Call : CallOK(b)'
  BY OtherCall
<1> QED BY <1>1 DEF ServiceInv

(* A rebuild that is over, or a lookup, leaves its call with a good answer. *)
LEMMA RebuiltOK ==
  ASSUME ServiceInv, NEW c \in Call, NEW index, MemoryOK(trees', index),
         Rebuilt(c, trees', index) \/ Lookup(c, trees', index),
         UNCHANGED <<pool, credits, wanted>>
  PROVE  /\ CallOK(c)' /\ DOMAIN pc' = Call /\ DOMAIN reply' = Call
         /\ \A b \in Call \ {c} : UNCHANGED <<pc[b], reply[b]>>
<1>1. ServiceTyped /\ wanted[c] \in Hash /\ wanted'[c] \in Hash
  BY DEF ServiceInv, CallOK
<1>2. CASE Lookup(c, trees', index)
  <2>1. /\ pc' = [pc EXCEPT ![c] = pc'[c]] /\ pc'[c] \in {"proof", "not_found"}
        /\ reply' = [reply EXCEPT ![c] = reply'[c]]
        /\ pc'[c] = "proof" => Proves(wanted[c], trees', reply'[c])
    BY <1>1, <1>2, LookedUp
  <2>2. pc'[c] = "proof" => Proves(wanted[c], trees, reply[c])'
    BY <2>1, ProvesNext
  <2> QED BY <1>1, <2>1, <2>2 DEF CallOK, ServiceTyped
<1>3. CASE Goto(c, "rebuilt") /\ UNCHANGED reply
  BY <1>1, <1>3 DEF CallOK, ServiceTyped, Goto
<1> QED BY <1>2, <1>3 DEF Rebuilt

(* The arrival of a request keeps the invariant. *)
LEMMA AskKeeps ==
  ASSUME ServiceInv, NEW c \in Call, Ask(c)
  PROVE  ServiceInv'
<1>1. /\ pc[c] = "new" /\ UNCHANGED <<pool, credits, snapshots, kind, wanted, synced, todo>>
      /\ CallOK(c) /\ ServiceTyped /\ MemoryOK(trees, creditHashIndex)
  BY DEF Ask, database, ServiceInv
<1>2. RowsGrow
  BY <1>1 DEF RowsGrow
<1>3. CASE Lookup(c, trees, creditHashIndex) /\ UNCHANGED memory
  <2>1. trees' = trees /\ creditHashIndex' = creditHashIndex
    BY <1>3 DEF memory
  <2>2. MemoryOK(trees', creditHashIndex) /\ Lookup(c, trees', creditHashIndex)
    BY <1>1, <1>3, <2>1
  <2>3. MemoryOK(trees, creditHashIndex)' /\ TreesStay
    BY <1>2, <1>3, MemoryKept
  <2>4. /\ CallOK(c)' /\ DOMAIN pc' = Call /\ DOMAIN reply' = Call
        /\ \A b \in Call \ {c} : UNCHANGED <<pc[b], reply[b]>>
    BY <1>1, <2>2, RebuiltOK
  <2>5. ServiceTyped'
    BY <1>1, <2>4 DEF ServiceTyped
  <2> QED BY <1>1, <1>2, <2>3, <2>4, <2>5, OneCall
<1>4. CASE pool /\ Goto(c, "upsert") /\ UNCHANGED <<memory, reply>>
  <2>1. MemoryOK(trees, creditHashIndex)' /\ TreesStay
    BY <1>2, <1>4, MemoryKept
  <2>2. ServiceTyped' /\ pc'[c] = "upsert" /\ \A b \in Call \ {c} : UNCHANGED <<pc[b], reply[b]>>
    BY <1>1, <1>4 DEF ServiceTyped, Goto
  <2>3. synced[c] = 0 /\ wanted[c] \in Hash
    BY <1>1 DEF CallOK
  <2>4. Cardinality(Catalogue) \in Nat /\ Cardinality(Catalogue) # 0
    <3>1. Catalogue \in SUBSET Credit /\ Catalogue # {}
      BY CatalogueAssumption
    <3>2. IsFiniteSet(Catalogue)
      BY <3>1, CreditsFinite
    <3> QED BY <3>1, <3>2, FS_CardinalityType, FS_EmptySet
  <2>5. CallOK(c)'
    BY <1>1, <1>4, <2>2, <2>3, <2>4 DEF CallOK
  <2> QED BY <1>1, <1>2, <2>1, <2>2, <2>5, OneCall
<1>5. CASE Goto(c, "synced") /\ UNCHANGED <<memory, reply>>
  <2>1. MemoryOK(trees, creditHashIndex)' /\ TreesStay
    BY <1>2, <1>5, MemoryKept
  <2>2. ServiceTyped' /\ pc'[c] = "synced" /\ \A b \in Call \ {c} : UNCHANGED <<pc[b], reply[b]>>
    BY <1>1, <1>5 DEF ServiceTyped, Goto
  <2>3. CallOK(c)'
    BY <1>1, <2>2 DEF CallOK
  <2> QED BY <1>1, <1>2, <2>1, <2>2, <2>3, OneCall
<1>6. CASE ~pool /\ Publish(ByRegistry) /\ Rebuilt(c, trees', creditHashIndex')
  <2>1. Settled
    BY <1>6 DEF Settled
  <2>2. MemoryOK(trees', creditHashIndex') /\ TreesStay
    BY <1>1, <1>6, <2>1, ByRegistryTyped, Published DEF TreesStay
  <2>3. /\ CallOK(c)' /\ DOMAIN pc' = Call /\ DOMAIN reply' = Call
        /\ \A b \in Call \ {c} : UNCHANGED <<pc[b], reply[b]>>
    BY <1>1, <1>6, <2>2, RebuiltOK
  <2>4. ServiceTyped'
    BY <1>1, <2>3 DEF ServiceTyped
  <2>5. MemoryOK(trees, creditHashIndex)'
    BY <1>1, <2>2, MemoryStays
  <2> QED BY <1>1, <1>2, <2>2, <2>3, <2>4, <2>5, OneCall
<1> QED BY <1>3, <1>4, <1>5, <1>6 DEF Ask

(* An upsert keeps the invariant. *)
LEMMA UpsertKeeps ==
  ASSUME ServiceInv, NEW c \in Call, Upsert(c)
  PROVE  ServiceInv'
<1>1. /\ pc[c] = "upsert" /\ UpsertRow(c) /\ CallOK(c) /\ ServiceTyped
      /\ UNCHANGED <<pool, snapshots, memory, kind, wanted, reply, todo>>
      /\ synced' = [synced EXCEPT ![c] = synced[c] + 1]
      /\ pc' = [pc EXCEPT ![c] = IF synced[c] + 1 = Cardinality(Catalogue) THEN "select" ELSE "upsert"]
  BY DEF Upsert, ServiceInv, Goto
<1>2. /\ credits' \in [Credit -> {"absent", "earlier", "current"}]
      /\ \A i \in Credit : credits[i] = "current" => credits'[i] = "current"
      /\ credits'[Ascending(Catalogue)[synced[c] + 1]] = "current"
      /\ pool /\ Cardinality(Catalogue) \in Nat
      /\ synced[c] + 1 \in 1..Cardinality(Catalogue)
      /\ \A k \in 1..Cardinality(Catalogue) : Ascending(Catalogue)[k] \in Credit
      /\ Settled => credits' = credits
  BY <1>1, UpsertedRow
<1>3. RowsGrow
  BY <1>1, <1>2 DEF RowsGrow
<1>4. MemoryOK(trees, creditHashIndex)' /\ TreesStay
  BY <1>1, <1>3, MemoryKept
<1>5. /\ ServiceTyped' /\ \A b \in Call \ {c} : UNCHANGED <<pc[b], reply[b], synced[b], todo[b]>>
      /\ synced'[c] = synced[c] + 1
      /\ pc'[c] = IF synced[c] + 1 = Cardinality(Catalogue) THEN "select" ELSE "upsert"
  BY <1>1, <1>2 DEF ServiceTyped
<1>6. \A k \in 1..(synced[c] + 1) : credits'[Ascending(Catalogue)[k]] = "current"
  <2>1. synced[c] \in 0..(Cardinality(Catalogue) - 1)
        /\ \A k \in 1..synced[c] : credits[Ascending(Catalogue)[k]] = "current"
    BY <1>1 DEF CallOK
  <2> TAKE k \in 1..(synced[c] + 1)
  <2>2. CASE k = synced[c] + 1
    BY <1>2, <2>2
  <2>3. CASE k # synced[c] + 1
    <3>1. k \in 1..synced[c] /\ k \in 1..Cardinality(Catalogue)
      BY <1>2, <2>1, <2>3
    <3> QED BY <1>2, <2>1, <3>1
  <2> QED BY <2>2, <2>3
<1>7. synced[c] + 1 = Cardinality(Catalogue) => Settled'
  <2>1. SUFFICES ASSUME synced[c] + 1 = Cardinality(Catalogue) PROVE Settled'
    OBVIOUS
  <2>2. \A k \in 1..Cardinality(Catalogue) : credits'[Ascending(Catalogue)[k]] = "current"
    BY <1>6, <2>1
  <2>3. Catalogue \in SUBSET Credit
    BY CatalogueAssumption
  <2>4. Catalogue \in SUBSET Nat /\ IsFiniteSet(Catalogue)
    BY <2>3, CreditsFinite
  <2>5. \A i \in Catalogue : \E k \in 1..Cardinality(Catalogue) : Ascending(Catalogue)[k] = i
    BY <2>4, AscendingIs
  <2> QED BY <2>2, <2>5 DEF Settled
<1>8. CallOK(c)'
  <2>1. synced[c] + 1 # Cardinality(Catalogue) => synced'[c] \in 0..(Cardinality(Catalogue) - 1)
    BY <1>2, <1>5
  <2>2. wanted'[c] \in Hash /\ pool'
    BY <1>1, <1>2 DEF CallOK
  <2> QED BY <1>5, <1>6, <1>7, <2>1, <2>2 DEF CallOK
<1> QED BY <1>3, <1>4, <1>5, <1>8, OneCall

(* Rows that arrive, and the first tree they replace, keep the invariant. *)
LEMMA SelectKeeps ==
  ASSUME ServiceInv, NEW c \in Call, Select(c)
  PROVE  ServiceInv'
<1>1. /\ pc[c] = "select" /\ CallOK(c) /\ ServiceTyped /\ MemoryOK(trees, creditHashIndex)
      /\ UNCHANGED <<pool, credits, snapshots, kind, wanted, reply, synced>>
  BY DEF Select, ServiceInv, database
<1>2. RowsGrow /\ pool /\ Settled /\ wanted[c] \in Hash
  BY <1>1 DEF RowsGrow, CallOK
<1>3. CASE Goto(c, "synced") /\ UNCHANGED <<memory, todo>>
  <2>1. MemoryOK(trees, creditHashIndex)' /\ TreesStay
    BY <1>2, <1>3, MemoryKept
  <2>2. /\ ServiceTyped' /\ pc'[c] = "synced"
        /\ \A b \in Call \ {c} : UNCHANGED <<pc[b], reply[b], synced[b], todo[b]>>
    BY <1>1, <1>3 DEF ServiceTyped, Goto
  <2>3. CallOK(c)'
    BY <1>1, <1>2, <2>2 DEF CallOK
  <2> QED BY <1>2, <2>1, <2>2, <2>3, OneCall
<1>4. CASE todo' = [todo EXCEPT ![c] = ByRegistry] /\ Publish(<<Head(ByRegistry)>>) /\ Goto(c, "snapshot")
  <2>1. ByRegistry \in Seq(Entry) /\ ByRegistry # <<>>
    <3>1. PICK i \in Catalogue : TRUE
      BY CatalogueAssumption
    <3>2. i \in Credit /\ credits[i] = "current"
      BY <1>2, CatalogueAssumption DEF Settled
    <3>3. Rows[i] # "absent"
      BY <1>2, <3>2 DEF Rows
    <3> QED BY <3>2, <3>3, ByRegistryTyped
  <2>2. <<Head(ByRegistry)>> \in Seq(Entry)
    BY <2>1
  <2>3. MemoryOK(trees', creditHashIndex') /\ TreesStay
    BY <1>1, <1>2, <1>4, <2>2, Published DEF TreesStay
  <2>4. MemoryOK(trees, creditHashIndex)'
    BY <1>1, <2>3, MemoryStays
  <2>5. /\ ServiceTyped' /\ pc'[c] = "snapshot" /\ todo'[c] = ByRegistry
        /\ \A b \in Call \ {c} : UNCHANGED <<pc[b], reply[b], synced[b], todo[b]>>
    BY <1>1, <1>4 DEF ServiceTyped, Goto
  <2>6. Entry' = Entry /\ Settled' = Settled
    BY <1>1, LeavesStay
  <2>7. CallOK(c)'
    BY <1>1, <1>2, <2>1, <2>5, <2>6 DEF CallOK
  <2> QED BY <1>2, <2>3, <2>4, <2>5, <2>7, OneCall
<1> QED BY <1>3, <1>4 DEF Select

(* The parts of a sequence of at least two. *)
LEMMA SequenceParts ==
  ASSUME NEW S, NEW s \in Seq(S), Len(s) >= 2
  PROVE  s[2] \in S /\ <<s[2]>> \in Seq(S) /\ Tail(s) \in Seq(S) /\ Tail(s) # <<>>
<1>1. s[2] \in S
  OBVIOUS
<1>2. \A e \in S : <<e>> \in Seq(S)
  OBVIOUS
<1>3. Tail(s) \in Seq(S) /\ Len(Tail(s)) = Len(s) - 1
  OBVIOUS
<1>4. Len(s) \in Nat
  OBVIOUS
<1>5. Len(Tail(s)) # Len(<<>>)
  BY <1>3, <1>4
<1> QED BY <1>1, <1>2, <1>3, <1>5

(* A stored snapshot, with the next tree or the answer, keeps the invariant. *)
LEMMA SnapshotKeeps ==
  ASSUME ServiceInv, NEW c \in Call, Snapshot(c)
  PROVE  ServiceInv'
<1>1. /\ pc[c] = "snapshot" /\ CallOK(c) /\ ServiceTyped /\ MemoryOK(trees, creditHashIndex)
      /\ UNCHANGED <<pool, credits, kind, wanted, synced>>
      /\ todo' = [todo EXCEPT ![c] = Tail(todo[c])]
  BY DEF Snapshot, ServiceInv
<1>2. RowsGrow /\ pool /\ Settled /\ wanted[c] \in Hash /\ todo[c] \in Seq(Entry) /\ todo[c] # <<>>
  BY <1>1 DEF RowsGrow, CallOK
<1>3. CASE Rebuilt(c, trees, creditHashIndex) /\ UNCHANGED memory
  <2>1. trees' = trees
    BY <1>3 DEF memory
  <2>2. MemoryOK(trees', creditHashIndex) /\ Rebuilt(c, trees', creditHashIndex)
    BY <1>1, <1>3, <2>1
  <2>3. MemoryOK(trees, creditHashIndex)' /\ TreesStay
    BY <1>2, <1>3, MemoryKept
  <2>4. /\ CallOK(c)' /\ DOMAIN pc' = Call /\ DOMAIN reply' = Call
        /\ \A b \in Call \ {c} : UNCHANGED <<pc[b], reply[b]>>
    BY <1>1, <2>2, RebuiltOK
  <2>5. ServiceTyped' /\ \A b \in Call \ {c} : UNCHANGED <<synced[b], todo[b]>>
    BY <1>1, <2>4 DEF ServiceTyped
  <2> QED BY <1>2, <2>3, <2>4, <2>5, OneCall
<1>4. CASE Len(todo[c]) # 1 /\ Publish(<<todo[c][2]>>) /\ UNCHANGED <<pc, reply>>
  <2>1. PICK list \in Seq(Entry) : list = todo[c] /\ Len(list) \in Nat /\ Len(list) >= 2
    BY <1>2, <1>4
  <2>2. <<list[2]>> \in Seq(Entry) /\ Tail(list) \in Seq(Entry) /\ Tail(list) # <<>>
    BY <2>1, SequenceParts
  <2>3. MemoryOK(trees', creditHashIndex') /\ TreesStay
    BY <1>1, <1>2, <1>4, <2>1, <2>2, Published DEF TreesStay
  <2>4. MemoryOK(trees, creditHashIndex)'
    BY <1>1, <2>3, MemoryStays
  <2>5. /\ ServiceTyped' /\ pc'[c] = "snapshot" /\ todo'[c] = Tail(list)
        /\ \A b \in Call \ {c} : UNCHANGED <<pc[b], reply[b], synced[b], todo[b]>>
    BY <1>1, <1>4, <2>1 DEF ServiceTyped
  <2>6. Entry' = Entry /\ Settled' = Settled
    BY <1>1, LeavesStay
  <2>7. CallOK(c)'
    BY <1>1, <1>2, <2>2, <2>5, <2>6 DEF CallOK
  <2> QED BY <1>2, <2>3, <2>4, <2>5, <2>7, OneCall
<1> QED BY <1>3, <1>4 DEF Snapshot

(* A query that fails, before or after it had its effect, keeps the invariant. *)
LEMMA DbErrorKeeps ==
  ASSUME ServiceInv, NEW c \in Call, DbError(c)
  PROVE  ServiceInv'
<1>1. /\ CallOK(c) /\ ServiceTyped
      /\ UNCHANGED <<pool, memory, kind, wanted, reply, synced, todo>>
      /\ pc' = [pc EXCEPT ![c] = "failed"]
  BY DEF DbError, ServiceInv, progress, Goto
<1>2. /\ credits' \in [Credit -> {"absent", "earlier", "current"}]
      /\ \A i \in Credit : credits[i] = "current" => credits'[i] = "current"
      /\ Settled => credits' = credits
  <2>1. CASE credits' = credits
    BY <1>1, <2>1 DEF ServiceTyped
  <2>2. CASE pc[c] = "upsert" /\ UpsertRow(c)
    BY <1>1, <2>2, UpsertedRow
  <2> QED BY <2>1, <2>2 DEF DbError, database
<1>3. RowsGrow
  BY <1>1, <1>2 DEF RowsGrow
<1>4. MemoryOK(trees, creditHashIndex)' /\ TreesStay
  BY <1>1, <1>3, MemoryKept
<1>5. /\ ServiceTyped' /\ pc'[c] = "failed"
      /\ \A b \in Call \ {c} : UNCHANGED <<pc[b], reply[b], synced[b], todo[b]>>
  BY <1>1, <1>2 DEF ServiceTyped
<1>6. CallOK(c)'
  BY <1>1, <1>5 DEF CallOK
<1> QED BY <1>3, <1>4, <1>5, <1>6, OneCall

(* Every step keeps the invariant. *)
LEMMA StepService == ServiceInv /\ [Next]_vars => ServiceInv'
<1> SUFFICES ASSUME ServiceInv, [Next]_vars PROVE ServiceInv'
  OBVIOUS
<1>1. CASE UNCHANGED vars
  <2>1. UNCHANGED <<pool, credits, memory, wanted, pc, reply, synced, todo>>
    BY <1>1 DEF vars, database, progress
  <2>2. RowsGrow
    BY <2>1 DEF RowsGrow
  <2>3. MemoryOK(trees, creditHashIndex)' /\ TreesStay
    BY <2>1, <2>2, MemoryKept
  <2>4. ServiceTyped'
    BY <2>1 DEF ServiceInv, ServiceTyped
  <2>5. \A b \in Call : CallOK(b)'
    BY <2>1, <2>2, <2>3, OtherCall
  <2> QED BY <2>3, <2>4, <2>5 DEF ServiceInv
<1>2. ASSUME NEW c \in Call, Ask(c) \/ Upsert(c) \/ Select(c) \/ Snapshot(c) \/ DbError(c)
      PROVE  ServiceInv'
  BY <1>2, AskKeeps, UpsertKeeps, SelectKeeps, SnapshotKeeps, DbErrorKeeps
<1> QED BY <1>1, <1>2 DEF Next

--------------------------------------------------------------------------------
(* What the invariant gives. *)

(* A proof of a tree that is there is the credit's, verifies, and has the  *)
(* full root.                                                              *)
LEMMA ProofsAreGood == ServiceInv => ProofIsOfItsCredit /\ ProofsStayValid
<1> SUFFICES ASSUME ServiceInv, NEW c \in Call, pc[c] = "proof"
             PROVE  LET p == reply[c]
                        r == RegistryOf[CreditOf(wanted[c])] IN
                    /\ p.creditHash = wanted[c]
                    /\ verify_merkle_inclusion(wanted[c], p.merklePath, p.merkleIndices) = p.root
                    /\ p.root = RegistryRoot(r)
                    /\ p.root = trees[r].root
  BY DEF ProofIsOfItsCredit, ProofsStayValid
<1> DEFINE r == RegistryOfHash(wanted[c])
           leaves == LeavesOf(r)
<1>1. Proves(wanted[c], trees, reply[c])
  BY DEF ServiceInv, CallOK
<1>2. PICK n \in 0..(Len(leaves) - 1) :
        leaves[n + 1] = wanted[c] /\ reply[c] = getMerkleProofFromTree(buildMerkleTree(leaves), n)
  BY <1>1 DEF Proves
<1>3. trees[r] = buildMerkleTree(leaves)
  BY <1>1 DEF Proves
<1>4. Len(leaves) \in Nat /\ Len(leaves) <= power[TreeDepth]
  BY LeavesTyped
<1> HIDE DEF leaves
<1> DEFINE proof == getMerkleProofFromTree(buildMerkleTree(leaves), n)
<1>5. /\ proof.creditHash = leaves[n + 1]
      /\ proof.root = FullDepthRoot(leaves)
      /\ verify_merkle_inclusion(proof.creditHash, proof.merklePath, proof.merkleIndices) = proof.root
  BY <1>4, PathLeadsToRoot
<1>6. proof.root = buildMerkleTree(leaves).root
  BY DEF getMerkleProofFromTree
<1> HIDE DEF proof
<1>7. reply[c] = proof
  BY <1>2 DEF proof
<1> QED BY <1>2, <1>3, <1>5, <1>6, <1>7 DEF RegistryRoot, RegistryOfHash, leaves

(* A hash that is a leaf is reported as unknown only without its tree. *)
LEMMA UnknownSteps ==
  ASSUME ServiceInv, [Next]_vars, NEW c \in Call, pc[c] # "not_found", pc'[c] = "not_found",
         NEW k \in DOMAIN LeavesOf(RegistryOfHash(wanted[c])),
         LeavesOf(RegistryOfHash(wanted[c]))[k] = wanted[c]
  PROVE  trees'[RegistryOfHash(wanted[c])] = NoTree
<1>1. ServiceTyped /\ MemoryOK(trees, creditHashIndex) /\ CallOK(c) /\ wanted[c] \in Hash
  BY DEF ServiceInv, CallOK
<1>2. RegistryOfHash(wanted[c]) \in Registry
  BY <1>1, HashRegistry
<1>3. ASSUME NEW ts, NEW index, MemoryOK(ts, index), ts = trees',
             Rebuilt(c, ts, index) \/ Lookup(c, ts, index)
      PROVE  trees'[RegistryOfHash(wanted[c])] = NoTree
  <2>1. ~(Goto(c, "rebuilt") /\ UNCHANGED reply)
    BY <1>1 DEF ServiceTyped, Goto
  <2>2. Lookup(c, ts, index)
    BY <1>3, <2>1 DEF Rebuilt
  <2> QED BY <1>1, <1>2, <1>3, <2>2, LookedUp
<1>4. CASE UNCHANGED vars
  BY <1>4 DEF vars
<1>5. ASSUME NEW b \in Call, b # c, Ask(b) \/ Upsert(b) \/ Select(b) \/ Snapshot(b) \/ DbError(b)
      PROVE  pc'[c] = pc[c]
  BY <1>1, <1>5 DEF ServiceTyped, Ask, Upsert, Select, Snapshot, DbError, Rebuilt, Lookup, Goto
<1>6. CASE Upsert(c) \/ Select(c) \/ DbError(c)
  BY <1>1, <1>6 DEF ServiceTyped, Upsert, Select, DbError, Goto
<1>7. CASE Ask(c)
  <2>1. CASE Lookup(c, trees, creditHashIndex) /\ UNCHANGED memory
    BY <1>1, <1>3, <2>1 DEF memory
  <2>2. CASE Goto(c, "upsert") \/ Goto(c, "synced")
    BY <1>1, <2>2 DEF ServiceTyped, Goto
  <2>3. CASE ~pool /\ Publish(ByRegistry) /\ Rebuilt(c, trees', creditHashIndex')
    <3>1. Settled
      BY <2>3 DEF Settled
    <3>2. MemoryOK(trees', creditHashIndex')
      BY <1>1, <2>3, <3>1, ByRegistryTyped, Published
    <3>3. PICK ts, index : ts = trees' /\ index = creditHashIndex'
      OBVIOUS
    <3>4. MemoryOK(ts, index) /\ Rebuilt(c, ts, index)
      BY <2>3, <3>2, <3>3
    <3> QED BY <1>3, <3>3, <3>4
  <2> QED BY <1>7, <2>1, <2>2, <2>3 DEF Ask
<1>8. CASE Snapshot(c)
  <2>1. CASE Rebuilt(c, trees, creditHashIndex) /\ UNCHANGED memory
    BY <1>1, <1>3, <2>1 DEF memory
  <2>2. CASE UNCHANGED pc
    BY <2>2
  <2> QED BY <1>8, <2>1, <2>2 DEF Snapshot
<1> QED BY <1>4, <1>5, <1>6, <1>7, <1>8 DEF Next

--------------------------------------------------------------------------------
(* The theorems. *)

(* The inductive invariant holds in every reachable state. *)
THEOREM ServiceInvariant == Spec => []ServiceInv
  BY InitService, StepService, PTL DEF Spec

(* A proof answered is the wanted credit's, the circuits' loop accepts it, *)
(* and its root is that of its registry's whole tree (merkle.service.ts).  *)
THEOREM ProofsAreOfTheirCredit == Spec => []ProofIsOfItsCredit
  BY ServiceInvariant, ProofsAreGood, PTL

(* No rebuild, by whichever call, changes the root of a proof given out.   *)
THEOREM ProofsKeepTheirRoot == Spec => []ProofsStayValid
  BY ServiceInvariant, ProofsAreGood, PTL

(* A credit that has a row is unknown only while its tree is missing.      *)
THEOREM UnknownMeansUnbuilt == Spec => UnknownOnlyWhileUnbuilt
<1>1. ServiceInv /\ [Next]_vars =>
        [\A c \in Call : pc[c] # "not_found" /\ pc'[c] = "not_found" =>
           LET r == RegistryOf[CreditOf(wanted[c])] IN
           (\E k \in DOMAIN LeavesOf(r) : LeavesOf(r)[k] = wanted[c]) => trees'[r] = NoTree]_vars
  BY UnknownSteps DEF RegistryOfHash
<1> QED BY <1>1, ServiceInvariant, PTL DEF Spec, UnknownOnlyWhileUnbuilt
===============================================================================
