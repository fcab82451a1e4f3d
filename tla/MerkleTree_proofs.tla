-------------------------- MODULE MerkleTree_proofs --------------------------
(***************************************************************************)
(* A path taken from the small tree that MerkleService builds leads the    *)
(* circuits' loop to the root of the full tree, for trees of every depth   *)
(* and any list of leaves that fits.                                       *)
(***************************************************************************)
EXTENDS MerkleTree, WellFoundedInduction, TLAPS

(* The natural numbers' order as a relation. *)
LEMMA LessThan == OpToRel(<, Nat) = {ss \in Nat \X Nat : ss[1] < ss[2]}
  BY DEF OpToRel

(* A set of natural numbers that is not empty has a least element. *)
LEMMA LeastElement ==
  ASSUME NEW S \in SUBSET Nat, S # {}
  PROVE  \E n \in S : \A m \in S : n <= m
<1> DEFINE R == {ss \in Nat \X Nat : ss[1] < ss[2]}
<1>1. IsWellFoundedOn(R, Nat)
  BY NatLessThanWellFounded, LessThan
<1> HIDE DEF R
<1>2. PICK x \in S : \A y \in S : ~(<<y, x>> \in R)
  BY <1>1, WFMin
<1>3. \A y \in S : ~(y < x)
  <2> TAKE y \in S
  <2>1. <<y, x>> \in Nat \X Nat /\ <<y, x>>[1] = y /\ <<y, x>>[2] = x
    OBVIOUS
  <2> QED BY <1>2, <2>1 DEF R
<1> QED BY <1>3

(* Induction up to a bound: a set that holds the first number, and with    *)
(* each number below the last the next one, holds them all.                *)
LEMMA UpTo ==
  ASSUME NEW first \in Nat, NEW last \in Nat, NEW S,
         first \in S,
         \A n \in first..last : n \in S /\ n < last => n + 1 \in S
  PROVE  first..last \subseteq S
<1> DEFINE Missed == {n \in first..last : n \notin S}
<1>1. SUFFICES ASSUME Missed # {} PROVE FALSE
  OBVIOUS
<1>2. Missed \in SUBSET Nat
  OBVIOUS
<1> HIDE DEF Missed
<1>3. PICK n \in Missed : \A m \in Missed : n <= m
  BY <1>1, <1>2, LeastElement
<1>4. n \in first..last /\ n \notin S
  BY <1>3 DEF Missed
<1>5. n # first
  BY <1>4
<1>6. n - 1 \in first..last /\ n - 1 < last /\ n - 1 + 1 = n
  BY <1>4, <1>5
<1>7. n - 1 \in Missed
  BY <1>4, <1>6 DEF Missed
<1>8. n <= n - 1
  BY <1>3, <1>7
<1> QED BY <1>4, <1>8

(* Each recursive function is the one its definition describes. *)
LEMMA PowerDef ==
  power = [k \in 0..TreeDepth |-> IF k = 0 THEN 1 ELSE 2 * power[k - 1]]
<1> DEFINE Upto(n, f) == f = [k \in 0..n |-> IF k = 0 THEN 1 ELSE 2 * f[k - 1]]
           S == {n \in Nat : \E f : Upto(n, f)}
<1>1. 0 \in S
  <2>1. Upto(0, [k \in 0..0 |-> 1])
    OBVIOUS
  <2> QED BY <2>1
<1>2. ASSUME NEW n \in 0..TreeDepth, n \in S, n < TreeDepth PROVE n + 1 \in S
  <2>1. PICK f : Upto(n, f)
    BY <1>2
  <2> DEFINE g == [k \in 0..(n + 1) |-> IF k <= n THEN f[k] ELSE 2 * f[n]]
  <2>2. ASSUME NEW k \in 0..(n + 1) PROVE g[k] = IF k = 0 THEN 1 ELSE 2 * g[k - 1]
    BY <2>1, <2>2
  <2>3. Upto(n + 1, g)
    BY <2>2
  <2> HIDE DEF Upto, g
  <2> QED BY <2>3, TreeDepthAssumption
<1> HIDE DEF S
<1>3. 0..TreeDepth \subseteq S
  BY <1>1, <1>2, UpTo, TreeDepthAssumption
<1>4. TreeDepth \in S
  BY <1>3, TreeDepthAssumption
<1>5. \E f : f = [k \in 0..TreeDepth |-> IF k = 0 THEN 1 ELSE 2 * f[k - 1]]
  BY <1>4 DEF S
<1> QED BY <1>5, Zenon DEF power

(* Powers of two are positive, and each is twice the one before. *)
LEMMA Powers ==
  /\ power[0] = 1
  /\ \A k \in 0..TreeDepth : power[k] \in Nat \ {0}
  /\ \A k \in 0..(TreeDepth - 1) : power[k + 1] = 2 * power[k]
<1> USE TreeDepthAssumption
<1>1. \A k \in 0..TreeDepth : power[k] = IF k = 0 THEN 1 ELSE 2 * power[k - 1]
  BY PowerDef, Zenon
<1>2. power[0] = 1
  BY <1>1
<1>3. ASSUME NEW k \in 0..(TreeDepth - 1) PROVE power[k + 1] = 2 * power[k]
  <2>1. k + 1 \in 0..TreeDepth /\ k + 1 # 0 /\ k + 1 - 1 = k
    OBVIOUS
  <2>2. power[k + 1] = IF k + 1 = 0 THEN 1 ELSE 2 * power[k + 1 - 1]
    BY <1>1, <2>1
  <2> QED BY <2>1, <2>2
<1> DEFINE S == {k \in Nat : power[k] \in Nat \ {0}}
<1>4. 0 \in S
  BY <1>2
<1>5. ASSUME NEW k \in 0..TreeDepth, k \in S, k < TreeDepth PROVE k + 1 \in S
  BY <1>3, <1>5
<1>6. 0..TreeDepth \subseteq S
  <2> HIDE DEF S
  <2> QED BY <1>4, <1>5, UpTo
<1> QED BY <1>2, <1>3, <1>6

(* The roots of empty subtrees. *)
LEMMA ZeroHashDef ==
  zeroHashAt = [l \in 0..TreeDepth |-> IF l = 0 THEN Leaf(0)
          ELSE merkleHash(zeroHashAt[l - 1], zeroHashAt[l - 1])]
<1> USE TreeDepthAssumption
<1> DEFINE Upto(n, f) == f = [l \in 0..n |-> IF l = 0 THEN Leaf(0) ELSE merkleHash(f[l - 1], f[l - 1])]
           S == {n \in Nat : \E f : Upto(n, f)}
<1>1. 0 \in S
  <2>1. Upto(0, [l \in 0..0 |-> Leaf(0)])
    OBVIOUS
  <2> HIDE DEF Upto
  <2> QED BY <2>1
<1>2. ASSUME NEW n \in 0..TreeDepth, n \in S, n < TreeDepth PROVE n + 1 \in S
  <2>1. PICK f : Upto(n, f)
    BY <1>2
  <2> DEFINE g == [l \in 0..(n + 1) |-> IF l <= n THEN f[l] ELSE merkleHash(f[n], f[n])]
  <2>2. ASSUME NEW l \in 0..(n + 1) PROVE g[l] = IF l = 0 THEN Leaf(0)
          ELSE merkleHash(g[l - 1], g[l - 1])
    <3>1. CASE l = n + 1
      <4>1. l # 0 /\ l - 1 = n /\ g[l - 1] = f[n]
        BY <3>1
      <4> QED BY <3>1, <4>1
    <3>2. CASE l <= n
      BY <2>1, <3>2
    <3> QED BY <3>1, <3>2
  <2>3. Upto(n + 1, g)
    BY <2>2
  <2> HIDE DEF Upto, g
  <2> QED BY <2>3
<1> HIDE DEF S
<1>3. 0..TreeDepth \subseteq S
  BY <1>1, <1>2, UpTo
<1>4. TreeDepth \in S
  BY <1>3
<1>5. \E f : f = [l \in 0..TreeDepth |-> IF l = 0 THEN Leaf(0) ELSE merkleHash(f[l - 1], f[l - 1])]
  BY <1>4 DEF S
<1> QED BY <1>5, Zenon DEF zeroHashAt

(* Folding a root up to the full depth. *)
LEMMA FoldedDef ==
  ASSUME NEW root, NEW b \in 0..TreeDepth
  PROVE  folded(root, b) = [l \in b..TreeDepth |-> IF l = b THEN root
          ELSE merkleHash(folded(root, b)[l - 1], zeroHashAt[l - 1])]
<1> USE TreeDepthAssumption
<1> DEFINE Upto(n, f) == f = [l \in b..n |-> IF l = b THEN root
        ELSE merkleHash(f[l - 1], zeroHashAt[l - 1])]
           S == {n \in Nat : \E f : Upto(n, f)}
<1>1. b \in S
  <2>1. Upto(b, [l \in b..b |-> root])
    OBVIOUS
  <2> HIDE DEF Upto
  <2> QED BY <2>1
<1>2. ASSUME NEW n \in b..TreeDepth, n \in S, n < TreeDepth PROVE n + 1 \in S
  <2>1. PICK f : Upto(n, f)
    BY <1>2
  <2> DEFINE g == [l \in b..(n + 1) |-> IF l <= n THEN f[l] ELSE merkleHash(f[n], zeroHashAt[n])]
  <2>2. ASSUME NEW l \in b..(n + 1) PROVE g[l] = IF l = b THEN root
          ELSE merkleHash(g[l - 1], zeroHashAt[l - 1])
    <3>1. CASE l = n + 1
      <4>1. l # b /\ l - 1 = n /\ g[l - 1] = f[n]
        BY <3>1
      <4> QED BY <3>1, <4>1
    <3>2. CASE l <= n
      BY <2>1, <3>2
    <3> QED BY <3>1, <3>2
  <2>3. Upto(n + 1, g)
    BY <2>2
  <2> HIDE DEF Upto, g
  <2> QED BY <2>3
<1> HIDE DEF S
<1>3. b..TreeDepth \subseteq S
  BY <1>1, <1>2, UpTo
<1>4. TreeDepth \in S
  BY <1>3
<1>5. \E f : f = [l \in b..TreeDepth |-> IF l = b THEN root
        ELSE merkleHash(f[l - 1], zeroHashAt[l - 1])]
  BY <1>4 DEF S
<1> QED BY <1>5, Zenon DEF folded

(* Where a leaf's ancestors are. *)
LEMMA IndexDef ==
  ASSUME NEW leafIndex
  PROVE  indexAt(leafIndex) = [l \in 0..TreeDepth |-> IF l = 0 THEN leafIndex
          ELSE indexAt(leafIndex)[l - 1] \div 2]
<1> USE TreeDepthAssumption
<1> DEFINE Upto(n, f) == f = [l \in 0..n |-> IF l = 0 THEN leafIndex ELSE f[l - 1] \div 2]
           S == {n \in Nat : \E f : Upto(n, f)}
<1>1. 0 \in S
  <2>1. Upto(0, [l \in 0..0 |-> leafIndex])
    OBVIOUS
  <2> HIDE DEF Upto
  <2> QED BY <2>1
<1>2. ASSUME NEW n \in 0..TreeDepth, n \in S, n < TreeDepth PROVE n + 1 \in S
  <2>1. PICK f : Upto(n, f)
    BY <1>2
  <2> DEFINE g == [l \in 0..(n + 1) |-> IF l <= n THEN f[l] ELSE f[n] \div 2]
  <2>2. ASSUME NEW l \in 0..(n + 1) PROVE g[l] = IF l = 0 THEN leafIndex ELSE g[l - 1] \div 2
    <3>1. CASE l = n + 1
      <4>1. l # 0 /\ l - 1 = n /\ g[l - 1] = f[n]
        BY <3>1
      <4> QED BY <3>1, <4>1
    <3>2. CASE l <= n
      BY <2>1, <3>2
    <3> QED BY <3>1, <3>2
  <2>3. Upto(n + 1, g)
    BY <2>2
  <2> HIDE DEF Upto, g
  <2> QED BY <2>3
<1> HIDE DEF S
<1>3. 0..TreeDepth \subseteq S
  BY <1>1, <1>2, UpTo
<1>4. TreeDepth \in S
  BY <1>3
<1>5. \E f : f = [l \in 0..TreeDepth |-> IF l = 0 THEN leafIndex ELSE f[l - 1] \div 2]
  BY <1>4 DEF S
<1> QED BY <1>5, Zenon DEF indexAt

(* What the circuits' loop computes. *)
LEMMA RecomputedDef ==
  ASSUME NEW leaf, NEW path, NEW indices
  PROVE  recomputed(leaf, path, indices) =
           [l \in 0..TreeDepth |-> IF l = 0 THEN leaf
              ELSE IF indices[l - 1] = 0
              THEN merkleHash(recomputed(leaf, path, indices)[l - 1], path[l - 1])
              ELSE merkleHash(path[l - 1], recomputed(leaf, path, indices)[l - 1])]
<1> USE TreeDepthAssumption
<1> DEFINE Upto(n, f) == f = [l \in 0..n |-> IF l = 0 THEN leaf
        ELSE IF indices[l - 1] = 0 THEN merkleHash(f[l - 1], path[l - 1])
                ELSE merkleHash(path[l - 1], f[l - 1])]
           S == {n \in Nat : \E f : Upto(n, f)}
<1>1. 0 \in S
  <2>1. Upto(0, [l \in 0..0 |-> leaf])
    OBVIOUS
  <2> HIDE DEF Upto
  <2> QED BY <2>1
<1>2. ASSUME NEW n \in 0..TreeDepth, n \in S, n < TreeDepth PROVE n + 1 \in S
  <2>1. PICK f : Upto(n, f)
    BY <1>2
  <2> DEFINE g == [l \in 0..(n + 1) |-> IF l <= n THEN f[l]
          ELSE IF indices[n] = 0 THEN merkleHash(f[n], path[n]) ELSE merkleHash(path[n], f[n])]
  <2>2. ASSUME NEW l \in 0..(n + 1) PROVE g[l] = IF l = 0 THEN leaf
          ELSE IF indices[l - 1] = 0 THEN merkleHash(g[l - 1], path[l - 1])
                  ELSE merkleHash(path[l - 1], g[l - 1])
    <3>1. CASE l = n + 1
      <4>1. l # 0 /\ l - 1 = n /\ g[l - 1] = f[n]
        BY <3>1
      <4> QED BY <3>1, <4>1
    <3>2. CASE l <= n
      BY <2>1, <3>2
    <3> QED BY <3>1, <3>2
  <2>3. Upto(n + 1, g)
    BY <2>2
  <2> HIDE DEF Upto, g
  <2> QED BY <2>3
<1> HIDE DEF S
<1>3. 0..TreeDepth \subseteq S
  BY <1>1, <1>2, UpTo
<1>4. TreeDepth \in S
  BY <1>3
<1>5. \E f : f = [l \in 0..TreeDepth |-> IF l = 0 THEN leaf
        ELSE IF indices[l - 1] = 0 THEN merkleHash(f[l - 1], path[l - 1])
                ELSE merkleHash(path[l - 1], f[l - 1])]
  BY <1>4 DEF S
<1> QED BY <1>5, Zenon DEF recomputed

(* The levels of a tree over some leaves. *)
LEMMA LayersDef ==
  ASSUME NEW leaves, NEW height \in 0..TreeDepth
  PROVE  layers(leaves, height) = [l \in 0..height |-> IF l = 0 THEN padded(leaves, height)
          ELSE paired(layers(leaves, height)[l - 1], power[height - l])]
<1> USE TreeDepthAssumption
<1> DEFINE Upto(n, f) == f = [l \in 0..n |-> IF l = 0 THEN padded(leaves, height)
        ELSE paired(f[l - 1], power[height - l])]
           S == {n \in Nat : \E f : Upto(n, f)}
<1>1. 0 \in S
  <2>1. Upto(0, [l \in 0..0 |-> padded(leaves, height)])
    OBVIOUS
  <2> HIDE DEF Upto
  <2> QED BY <2>1
<1>2. ASSUME NEW n \in 0..height, n \in S, n < height PROVE n + 1 \in S
  <2>1. PICK f : Upto(n, f)
    BY <1>2
  <2> DEFINE g == [l \in 0..(n + 1) |-> IF l <= n THEN f[l] ELSE paired(f[n], power[height - (n + 1)])]
  <2>2. ASSUME NEW l \in 0..(n + 1) PROVE g[l] = IF l = 0 THEN padded(leaves, height)
          ELSE paired(g[l - 1], power[height - l])
    <3>1. CASE l = n + 1
      <4>1. l # 0 /\ l - 1 = n /\ g[l - 1] = f[n]
        BY <3>1
      <4> QED BY <3>1, <4>1
    <3>2. CASE l <= n
      BY <2>1, <3>2
    <3> QED BY <3>1, <3>2
  <2>3. Upto(n + 1, g)
    BY <2>2
  <2> HIDE DEF Upto, g
  <2> QED BY <2>3
<1> HIDE DEF S
<1>3. 0..height \subseteq S
  BY <1>1, <1>2, UpTo
<1>4. height \in S
  BY <1>3
<1>5. \E f : f = [l \in 0..height |-> IF l = 0 THEN padded(leaves, height)
        ELSE paired(f[l - 1], power[height - l])]
  BY <1>4 DEF S
<1> QED BY <1>5, Zenon DEF layers

(* Level by level: what the recursive functions are in one step. *)
LEMMA ZeroHashSteps ==
  \A l \in 0..(TreeDepth - 1) : zeroHashAt[l + 1] = merkleHash(zeroHashAt[l], zeroHashAt[l])
<1> USE TreeDepthAssumption
<1>1. \A l \in 0..TreeDepth :
        zeroHashAt[l] = IF l = 0 THEN Leaf(0) ELSE merkleHash(zeroHashAt[l - 1], zeroHashAt[l - 1])
  BY ZeroHashDef, Zenon
<1> TAKE l \in 0..(TreeDepth - 1)
<1>2. l + 1 \in 0..TreeDepth /\ l + 1 # 0 /\ l + 1 - 1 = l
  OBVIOUS
<1> QED BY <1>1, <1>2

(* A fold in steps. *)
LEMMA FoldedSteps ==
  ASSUME NEW root, NEW b \in 0..TreeDepth
  PROVE  /\ folded(root, b)[b] = root
         /\ \A l \in b..(TreeDepth - 1) :
              folded(root, b)[l + 1] = merkleHash(folded(root, b)[l], zeroHashAt[l])
<1> USE TreeDepthAssumption
<1> DEFINE f == folded(root, b)
<1>0. f = [l \in b..TreeDepth |-> IF l = b THEN root ELSE merkleHash(f[l - 1], zeroHashAt[l - 1])]
  BY FoldedDef
<1> HIDE DEF f
<1>1. \A l \in b..TreeDepth : f[l] = IF l = b THEN root ELSE merkleHash(f[l - 1], zeroHashAt[l - 1])
  BY <1>0, Zenon
<1>2. f[b] = root
  BY <1>1
<1>3. ASSUME NEW l \in b..(TreeDepth - 1) PROVE f[l + 1] = merkleHash(f[l], zeroHashAt[l])
  <2>1. l + 1 \in b..TreeDepth /\ l + 1 # b /\ l + 1 - 1 = l
    OBVIOUS
  <2> QED BY <1>1, <2>1
<1> QED BY <1>2, <1>3 DEF f

(* The ancestors' places in steps. *)
LEMMA IndexSteps ==
  ASSUME NEW leafIndex
  PROVE  /\ indexAt(leafIndex)[0] = leafIndex
         /\ \A l \in 0..(TreeDepth - 1) : indexAt(leafIndex)[l + 1] = indexAt(leafIndex)[l] \div 2
<1> USE TreeDepthAssumption
<1> DEFINE f == indexAt(leafIndex)
<1>1. \A l \in 0..TreeDepth : f[l] = IF l = 0 THEN leafIndex ELSE f[l - 1] \div 2
  BY IndexDef, Zenon
<1> HIDE DEF f
<1>2. f[0] = leafIndex
  BY <1>1
<1>3. ASSUME NEW l \in 0..(TreeDepth - 1) PROVE f[l + 1] = f[l] \div 2
  <2>1. l + 1 \in 0..TreeDepth /\ l + 1 # 0 /\ l + 1 - 1 = l
    OBVIOUS
  <2> QED BY <1>1, <2>1
<1> QED BY <1>2, <1>3 DEF f

(* The circuits' loop in steps. *)
LEMMA RecomputedSteps ==
  ASSUME NEW leaf, NEW path, NEW indices
  PROVE  /\ recomputed(leaf, path, indices)[0] = leaf
         /\ \A l \in 0..(TreeDepth - 1) :
              recomputed(leaf, path, indices)[l + 1] =
                IF indices[l] = 0 THEN merkleHash(recomputed(leaf, path, indices)[l], path[l])
                                  ELSE merkleHash(path[l], recomputed(leaf, path, indices)[l])
<1> USE TreeDepthAssumption
<1> DEFINE f == recomputed(leaf, path, indices)
<1>0. f = [l \in 0..TreeDepth |->
             IF l = 0 THEN leaf
             ELSE IF indices[l - 1] = 0 THEN merkleHash(f[l - 1], path[l - 1])
                                        ELSE merkleHash(path[l - 1], f[l - 1])]
  BY RecomputedDef
<1> HIDE DEF f
<1>1. \A l \in 0..TreeDepth :
        f[l] = IF l = 0 THEN leaf
               ELSE IF indices[l - 1] = 0 THEN merkleHash(f[l - 1], path[l - 1])
                                          ELSE merkleHash(path[l - 1], f[l - 1])
  BY <1>0, Zenon
<1>2. f[0] = leaf
  BY <1>1
<1>3. ASSUME NEW l \in 0..(TreeDepth - 1)
      PROVE f[l + 1] = IF indices[l] = 0 THEN merkleHash(f[l], path[l]) ELSE merkleHash(path[l], f[l])
  <2>1. l + 1 \in 0..TreeDepth /\ l + 1 # 0 /\ l + 1 - 1 = l
    OBVIOUS
  <2>2. f[l + 1] = IF l + 1 = 0 THEN leaf
               ELSE IF indices[l + 1 - 1] = 0 THEN merkleHash(f[l + 1 - 1], path[l + 1 - 1])
                                          ELSE merkleHash(path[l + 1 - 1], f[l + 1 - 1])
    BY <1>1, <2>1
  <2> QED BY <2>1, <2>2
<1> QED BY <1>2, <1>3 DEF f

(* The levels of a tree in steps. *)
LEMMA LayerSteps ==
  ASSUME NEW leaves, NEW height \in 0..TreeDepth
  PROVE  /\ DOMAIN layers(leaves, height) = 0..height
         /\ layers(leaves, height)[0] = padded(leaves, height)
         /\ \A l \in 0..(height - 1) :
              layers(leaves, height)[l + 1] =
                paired(layers(leaves, height)[l], power[height - (l + 1)])
<1> USE TreeDepthAssumption
<1> DEFINE f == layers(leaves, height)
<1>1. f = [l \in 0..height |-> IF l = 0 THEN padded(leaves, height)
                               ELSE paired(f[l - 1], power[height - l])]
  BY LayersDef
<1> HIDE DEF f
<1>2. DOMAIN f = 0..height
  BY <1>1
<1>3. \A l \in 0..height : f[l] = IF l = 0 THEN padded(leaves, height)
                                  ELSE paired(f[l - 1], power[height - l])
  BY <1>1, Zenon
<1>4. f[0] = padded(leaves, height)
  BY <1>3
<1>5. ASSUME NEW l \in 0..(height - 1) PROVE f[l + 1] = paired(f[l], power[height - (l + 1)])
  <2>1. l + 1 \in 0..height /\ l + 1 # 0 /\ l + 1 - 1 = l
    OBVIOUS
  <2> QED BY <1>3, <2>1
<1> QED BY <1>2, <1>4, <1>5 DEF f

(* Each level of a tree has half as many nodes as the one below. *)
LEMMA LevelSizes ==
  ASSUME NEW height \in 0..TreeDepth, NEW l \in 0..(height - 1)
  PROVE  /\ height - l \in 0..TreeDepth /\ height - (l + 1) \in 0..TreeDepth
         /\ power[height - l] = 2 * power[height - (l + 1)]
         /\ power[height - (l + 1)] \in Nat \ {0}
<1> USE TreeDepthAssumption
<1>1. height - (l + 1) \in 0..(TreeDepth - 1) /\ height - (l + 1) + 1 = height - l
  OBVIOUS
<1>2. power[height - (l + 1) + 1] = 2 * power[height - (l + 1)]
  BY <1>1, Powers
<1> QED BY <1>1, <1>2, Powers

(* Every level of a tree is a sequence with a power of two of nodes. *)
LEMMA LayerLengths ==
  ASSUME NEW leaves, NEW height \in 0..TreeDepth, NEW l \in 0..height
  PROVE  /\ DOMAIN layers(leaves, height)[l] = 1..power[height - l]
         /\ Len(layers(leaves, height)[l]) = power[height - l]
<1> USE TreeDepthAssumption
<1> DEFINE f == layers(leaves, height)
<1>1. height - l \in 0..TreeDepth /\ power[height - l] \in Nat
  BY Powers
<1>2. CASE l = 0
  <2>1. f[0] = padded(leaves, height) /\ height - l = height
    BY <1>2, LayerSteps
  <2> QED BY <1>1, <1>2, <2>1 DEF padded
<1>3. CASE l # 0
  <2>1. l - 1 \in 0..(height - 1) /\ l - 1 + 1 = l
    BY <1>3
  <2>2. f[l] = paired(f[l - 1], power[height - l])
    BY <2>1, LayerSteps
  <2> QED BY <1>1, <2>2 DEF paired
<1> QED BY <1>2, <1>3

(* A height is found for every list of leaves that fits. *)
LEMMA BuiltHeight ==
  ASSUME NEW leaves, Len(leaves) \in Nat, Len(leaves) <= power[TreeDepth]
  PROVE  builtHeight(leaves) \in 0..TreeDepth /\ Len(leaves) <= power[builtHeight(leaves)]
<1> USE TreeDepthAssumption
<1> DEFINE High == {h \in 0..TreeDepth : power[h] >= Len(leaves)}
<1>1. TreeDepth \in High /\ High \in SUBSET Nat
  BY Powers
<1> HIDE DEF High
<1>2. PICK h \in High : \A k \in High : h <= k
  BY <1>1, LeastElement
<1> USE DEF High
<1>3. ASSUME NEW k \in 0..(h - 1) PROVE power[k] < Len(leaves)
  <2>1. k \in 0..TreeDepth /\ ~(h <= k)
    OBVIOUS
  <2>2. k \notin High
    BY <1>2, <2>1
  <2>3. power[k] \in Nat
    BY <2>1, Powers
  <2> QED BY <2>1, <2>2, <2>3
<1>4. \E i \in 0..TreeDepth : power[i] >= Len(leaves) /\ \A k \in 0..(i - 1) : power[k] < Len(leaves)
  BY <1>3
<1>5. builtHeight(leaves) \in 0..TreeDepth /\ power[builtHeight(leaves)] >= Len(leaves)
  BY <1>4, Zenon DEF builtHeight
<1> QED BY <1>5, Powers

(* Up to its height a small tree is the corner of the full one, in which   *)
(* all other nodes of the level are roots of empty subtrees.               *)
LEMMA CornerOfFull ==
  ASSUME NEW leaves, Len(leaves) \in Nat, NEW h \in 0..TreeDepth, Len(leaves) <= power[h],
         NEW l \in 0..h, NEW j \in 1..power[TreeDepth - l]
  PROVE  layers(leaves, TreeDepth)[l][j] =
           IF j <= power[h - l] THEN layers(leaves, h)[l][j] ELSE zeroHashAt[l]
<1> USE TreeDepthAssumption
<1> DEFINE full == layers(leaves, TreeDepth)
           small == layers(leaves, h)
           Corner(n) == \A i \in 1..power[TreeDepth - n] :
                          full[n][i] = IF i <= power[h - n] THEN small[n][i] ELSE zeroHashAt[n]
           S == {n \in 0..h : Corner(n)}
<1>1. 0 \in S
  <2>1. full[0] = padded(leaves, TreeDepth) /\ small[0] = padded(leaves, h)
    BY LayerSteps
  <2>2. power[h] \in Nat /\ power[TreeDepth] \in Nat /\ h - 0 = h /\ TreeDepth - 0 = TreeDepth
    BY Powers
  <2> SUFFICES ASSUME NEW i \in 1..power[TreeDepth]
               PROVE full[0][i] = IF i <= power[h] THEN small[0][i] ELSE zeroHashAt[0]
    BY <2>2
  <2> QED BY <2>1, <2>2 DEF padded
<1>2. ASSUME NEW n \in 0..h, n \in S, n < h PROVE n + 1 \in S
  <2>1. n \in 0..(h - 1) /\ n \in 0..(TreeDepth - 1)
    BY <1>2
  <2> DEFINE below == power[h - n]
             above == power[h - (n + 1)]
             wide == power[TreeDepth - (n + 1)]
  <2>2. /\ above \in Nat /\ below = 2 * above
        /\ wide \in Nat /\ power[TreeDepth - n] = 2 * wide
    <3>1. above \in Nat /\ below = 2 * above
      BY <2>1, LevelSizes, Zenon
    <3>2. TreeDepth \in 0..TreeDepth
      OBVIOUS
    <3>3. wide \in Nat /\ power[TreeDepth - n] = 2 * wide
      BY <2>1, <3>2, LevelSizes, Zenon
    <3> QED BY <3>1, <3>3
  <2>3. full[n + 1] = paired(full[n], wide) /\ small[n + 1] = paired(small[n], above)
    BY <2>1, LayerSteps
  <2>4. zeroHashAt[n + 1] = merkleHash(zeroHashAt[n], zeroHashAt[n])
    BY <2>1, ZeroHashSteps
  <2>5. \A i \in 1..(2 * wide) : full[n][i] = IF i <= below THEN small[n][i] ELSE zeroHashAt[n]
    BY <1>2, <2>2
  <2> HIDE DEF full, small, below, above, wide
  <2>6. ASSUME NEW i \in 1..wide
        PROVE full[n + 1][i] = IF i <= above THEN small[n + 1][i] ELSE zeroHashAt[n + 1]
    <3>1. 2 * i - 1 \in 1..(2 * wide) /\ 2 * i \in 1..(2 * wide)
      BY <2>2
    <3>2. full[n + 1][i] = merkleHash(full[n][2 * i - 1], full[n][2 * i])
      BY <2>3 DEF paired
    <3>3. CASE i <= above
      <4>1. 2 * i - 1 <= below /\ 2 * i <= below
        BY <2>2, <3>3
      <4>2. full[n][2 * i - 1] = small[n][2 * i - 1] /\ full[n][2 * i] = small[n][2 * i]
        BY <2>5, <3>1, <4>1
      <4>3. i \in 1..above
        BY <3>3, <2>2
      <4>4. small[n + 1][i] = merkleHash(small[n][2 * i - 1], small[n][2 * i])
        BY <2>3, <4>3 DEF paired
      <4> QED BY <3>2, <3>3, <4>2, <4>4
    <3>4. CASE ~(i <= above)
      <4>1. ~(2 * i - 1 <= below) /\ ~(2 * i <= below)
        BY <2>2, <3>4
      <4> QED BY <2>4, <2>5, <3>1, <3>2, <3>4, <4>1
    <3> QED BY <3>3, <3>4
  <2>7. Corner(n + 1)
    BY <2>6 DEF full, small, above, wide
  <2> HIDE DEF Corner
  <2> QED BY <2>1, <2>7
<1>3. 0..h \subseteq S
  <2> HIDE DEF S
  <2>1. h \in Nat /\ \A n \in 0..h : n \in S /\ n < h => n + 1 \in S
    BY <1>2
  <2> QED BY <1>1, <2>1, UpTo
<1> QED BY <1>3

(* Above that height the full tree's first node is the folded root, and    *)
(* all others are roots of empty subtrees.                                 *)
LEMMA FoldOfFull ==
  ASSUME NEW leaves, Len(leaves) \in Nat, NEW h \in 0..TreeDepth, Len(leaves) <= power[h],
         NEW l \in h..TreeDepth, NEW j \in 1..power[TreeDepth - l]
  PROVE  layers(leaves, TreeDepth)[l][j] =
           IF j = 1 THEN folded(layers(leaves, h)[h][1], h)[l] ELSE zeroHashAt[l]
<1> USE TreeDepthAssumption
<1> DEFINE full == layers(leaves, TreeDepth)
           fold == folded(layers(leaves, h)[h][1], h)
           Folds(n) == \A i \in 1..power[TreeDepth - n] :
                         full[n][i] = IF i = 1 THEN fold[n] ELSE zeroHashAt[n]
           S == {n \in h..TreeDepth : Folds(n)}
<1>1. h \in S
  <2>1. h - h = 0 /\ power[h - h] = 1 /\ h \in 0..h
    BY Powers
  <2>2. fold[h] = layers(leaves, h)[h][1]
    BY FoldedSteps
  <2>3. power[TreeDepth - h] \in Nat
    BY Powers
  <2>4. ASSUME NEW i \in 1..power[TreeDepth - h]
        PROVE full[h][i] = IF i <= 1 THEN layers(leaves, h)[h][i] ELSE zeroHashAt[h]
    BY <2>1, CornerOfFull
  <2> HIDE DEF full, fold
  <2>5. Folds(h)
    BY <2>2, <2>3, <2>4
  <2> HIDE DEF Folds
  <2> QED BY <2>5
<1>2. ASSUME NEW n \in h..TreeDepth, n \in S, n < TreeDepth PROVE n + 1 \in S
  <2>1. n \in h..(TreeDepth - 1) /\ n \in 0..(TreeDepth - 1)
    BY <1>2
  <2> DEFINE wide == power[TreeDepth - (n + 1)]
  <2>2. wide \in Nat \ {0} /\ power[TreeDepth - n] = 2 * wide
    <3>1. TreeDepth \in 0..TreeDepth
      OBVIOUS
    <3> QED BY <2>1, <3>1, LevelSizes, Zenon
  <2>3. full[n + 1] = paired(full[n], wide)
    BY <2>1, LayerSteps
  <2>4. zeroHashAt[n + 1] = merkleHash(zeroHashAt[n], zeroHashAt[n])
    BY <2>1, ZeroHashSteps
  <2>5. fold[n + 1] = merkleHash(fold[n], zeroHashAt[n])
    BY <2>1, FoldedSteps
  <2>6. \A i \in 1..(2 * wide) : full[n][i] = IF i = 1 THEN fold[n] ELSE zeroHashAt[n]
    BY <1>2, <2>2
  <2> HIDE DEF full, fold, wide
  <2>7. ASSUME NEW i \in 1..wide
        PROVE full[n + 1][i] = IF i = 1 THEN fold[n + 1] ELSE zeroHashAt[n + 1]
    <3>1. 2 * i - 1 \in 1..(2 * wide) /\ 2 * i \in 1..(2 * wide) /\ 2 * i # 1
      BY <2>2
    <3>2. full[n + 1][i] = merkleHash(full[n][2 * i - 1], full[n][2 * i])
      BY <2>3 DEF paired
    <3>3. (2 * i - 1 = 1) <=> (i = 1)
      OBVIOUS
    <3> QED BY <2>4, <2>5, <2>6, <3>1, <3>2, <3>3
  <2>8. Folds(n + 1)
    BY <2>7 DEF full, fold, wide
  <2> HIDE DEF Folds
  <2> QED BY <2>1, <2>8
<1>3. h..TreeDepth \subseteq S
  <2> HIDE DEF S
  <2>1. h \in Nat /\ \A n \in h..TreeDepth : n \in S /\ n < TreeDepth => n + 1 \in S
    BY <1>2
  <2> QED BY <1>1, <2>1, UpTo
<1> QED BY <1>3

(* A number is twice its half, or one more. *)
LEMMA Halves ==
  ASSUME NEW i \in Nat, NEW half \in Nat, half = i \div 2
  PROVE  /\ i % 2 = 0 => 2 * half = i
         /\ i % 2 # 0 => 2 * half + 1 = i
OBVIOUS

(* The published root is the full tree's. *)
LEMMA BuiltRoot ==
  ASSUME NEW leaves, Len(leaves) \in Nat, Len(leaves) <= power[TreeDepth]
  PROVE  buildMerkleTree(leaves).root = FullDepthRoot(leaves)
<1> USE TreeDepthAssumption
<1> DEFINE h == builtHeight(leaves)
<1>1. h \in 0..TreeDepth /\ Len(leaves) <= power[h]
  BY BuiltHeight
<1>2. TreeDepth \in h..TreeDepth /\ TreeDepth - TreeDepth = 0
  BY <1>1
<1>3. 1 \in 1..power[TreeDepth - TreeDepth]
  BY <1>2, Powers
<1>4. buildMerkleTree(leaves).root = folded(layers(leaves, h)[h][1], h)[TreeDepth]
  BY DEF buildMerkleTree, foldToDepth
<1> HIDE DEF h
<1>5. layers(leaves, TreeDepth)[TreeDepth][1] = folded(layers(leaves, h)[h][1], h)[TreeDepth]
  BY <1>1, <1>2, <1>3, FoldOfFull
<1> QED BY <1>4, <1>5 DEF FullDepthRoot

(* The ancestors of a leaf stay inside of every tree that holds it. *)
LEMMA IndexInTree ==
  ASSUME NEW h \in 0..TreeDepth, NEW leafIndex \in Nat, leafIndex < power[h]
  PROVE  /\ \A l \in 0..h : indexAt(leafIndex)[l] \in Nat /\ indexAt(leafIndex)[l] < power[h - l]
         /\ \A l \in h..TreeDepth : indexAt(leafIndex)[l] = 0
<1> USE TreeDepthAssumption
<1> DEFINE idx == indexAt(leafIndex)
           S == {n \in 0..h : idx[n] \in Nat /\ idx[n] < power[h - n]}
           Zero == {n \in h..TreeDepth : idx[n] = 0}
<1>1. 0 \in S
  BY IndexSteps
<1>2. ASSUME NEW n \in 0..h, n \in S, n < h PROVE n + 1 \in S
  <2>1. n \in 0..(h - 1) /\ n \in 0..(TreeDepth - 1)
    BY <1>2
  <2>2. idx[n + 1] = idx[n] \div 2
    BY <2>1, IndexSteps
  <2>3. power[h - n] = 2 * power[h - (n + 1)] /\ power[h - (n + 1)] \in Nat \ {0}
    BY <2>1, LevelSizes, Zenon
  <2>4. idx[n] \in Nat /\ idx[n] < power[h - n]
    BY <1>2
  <2> HIDE DEF idx
  <2> QED BY <2>1, <2>2, <2>3, <2>4
<1>3. 0..h \subseteq S
  <2> HIDE DEF S
  <2>1. h \in Nat /\ \A n \in 0..h : n \in S /\ n < h => n + 1 \in S
    BY <1>2
  <2> QED BY <1>1, <2>1, UpTo
<1>4. h \in Zero
  <2>1. h - h = 0 /\ h \in S
    BY <1>3
  <2> QED BY <2>1, Powers
<1>5. ASSUME NEW n \in h..TreeDepth, n \in Zero, n < TreeDepth PROVE n + 1 \in Zero
  <2>1. idx[n + 1] = idx[n] \div 2
    BY <1>5, IndexSteps
  <2> HIDE DEF idx
  <2> QED BY <1>5, <2>1
<1>6. h..TreeDepth \subseteq Zero
  <2> HIDE DEF Zero
  <2>1. h \in Nat /\ \A n \in h..TreeDepth : n \in Zero /\ n < TreeDepth => n + 1 \in Zero
    BY <1>5
  <2> QED BY <1>4, <2>1, UpTo
<1> QED BY <1>3, <1>6

(* The sibling given for a node is its sibling in the full tree. *)
LEMMA SiblingOfFull ==
  ASSUME NEW leaves, Len(leaves) \in Nat, Len(leaves) <= power[TreeDepth],
         NEW l \in 0..(TreeDepth - 1), NEW idx \in Nat, idx < power[TreeDepth - l],
         l >= builtHeight(leaves) => idx = 0
  PROVE  siblingNode(buildMerkleTree(leaves), l, idx) =
           layers(leaves, TreeDepth)[l][IF idx % 2 = 0 THEN idx + 2 ELSE idx]
<1> USE TreeDepthAssumption
<1> DEFINE h == builtHeight(leaves)
           sib == IF idx % 2 = 0 THEN idx + 1 ELSE idx - 1
           full == layers(leaves, TreeDepth)
           nodes == layers(leaves, h)
<1>1. h \in 0..TreeDepth /\ Len(leaves) <= power[h]
  BY BuiltHeight
<1>2. buildMerkleTree(leaves).nodes = nodes
  BY DEF buildMerkleTree
<1>3. siblingNode(buildMerkleTree(leaves), l, idx) =
        IF l \in DOMAIN nodes /\ sib < Len(nodes[l]) THEN nodes[l][sib + 1] ELSE zeroHashAt[l]
  BY <1>2, Zenon DEF siblingNode
<1>4. DOMAIN nodes = 0..h
  BY <1>1, LayerSteps
<1>5. power[TreeDepth - l] = 2 * power[TreeDepth - (l + 1)] /\ power[TreeDepth - (l + 1)] \in Nat
  <2>1. TreeDepth \in 0..TreeDepth
    OBVIOUS
  <2> QED BY <2>1, LevelSizes
<1>6. /\ sib \in Nat /\ sib + 1 \in 1..power[TreeDepth - l]
      /\ sib + 1 = IF idx % 2 = 0 THEN idx + 2 ELSE idx
  BY <1>5
<1> HIDE DEF h
<1>7. CASE l <= h
  <2>1. l \in 0..h
    BY <1>1, <1>7
  <2>2. Len(nodes[l]) = power[h - l] /\ power[h - l] \in Nat
    <3>1. h - l \in 0..TreeDepth
      BY <1>1, <2>1
    <3> QED BY <1>1, <2>1, <3>1, LayerLengths, Powers
  <2>3. full[l][sib + 1] = IF sib + 1 <= power[h - l] THEN nodes[l][sib + 1] ELSE zeroHashAt[l]
    BY <1>1, <1>6, <2>1, CornerOfFull
  <2> HIDE DEF sib, full, nodes
  <2> QED BY <1>3, <1>4, <1>6, <2>1, <2>2, <2>3 DEF full
<1>8. CASE ~(l <= h)
  <2>1. l \in h..TreeDepth /\ idx = 0 /\ l \notin DOMAIN nodes
    BY <1>1, <1>4, <1>8 DEF h
  <2>2. sib + 1 # 1
    BY <2>1
  <2>3. full[l][sib + 1] = zeroHashAt[l]
    <3> HIDE DEF sib, full
    <3> QED BY <1>1, <1>6, <2>1, <2>2, FoldOfFull DEF full
  <2> HIDE DEF sib, full, nodes
  <2> QED BY <1>3, <1>6, <2>1, <2>3 DEF full
<1> QED BY <1>7, <1>8

(* A path taken from a tree that MerkleService built is of its leaf, its   *)
(* root is that of the whole tree to the full depth, and the circuits'     *)
(* loop recomputes that root from the leaf and the path: for every depth   *)
(* and every list of leaves that fits.                                     *)
THEOREM PathLeadsToRoot ==
  ASSUME NEW leaves, Len(leaves) \in Nat, Len(leaves) <= power[TreeDepth],
         NEW leafIndex \in 0..(Len(leaves) - 1)
  PROVE  LET proof == getMerkleProofFromTree(buildMerkleTree(leaves), leafIndex)
         IN  /\ proof.creditHash = leaves[leafIndex + 1]
             /\ proof.root = FullDepthRoot(leaves)
             /\ verify_merkle_inclusion(proof.creditHash, proof.merklePath, proof.merkleIndices)
                  = proof.root
<1> USE TreeDepthAssumption
<1> DEFINE h == builtHeight(leaves)
           tree == buildMerkleTree(leaves)
           full == layers(leaves, TreeDepth)
           idx == indexAt(leafIndex)
           proof == getMerkleProofFromTree(tree, leafIndex)
           path == proof.merklePath
           sides == proof.merkleIndices
           climb == recomputed(proof.creditHash, path, sides)
<1>1. h \in 0..TreeDepth /\ Len(leaves) <= power[h] /\ power[h] \in Nat /\ power[TreeDepth] \in Nat
  BY BuiltHeight, Powers
<1>2. /\ \A l \in 0..h : idx[l] \in Nat /\ idx[l] < power[h - l]
      /\ \A l \in h..TreeDepth : idx[l] = 0
  <2>1. leafIndex \in Nat /\ leafIndex < power[h]
    BY <1>1
  <2> HIDE DEF h
  <2> QED BY <1>1, <2>1, IndexInTree
<1>3. \A l \in 0..TreeDepth : idx[l] \in Nat /\ idx[l] < power[TreeDepth - l]
  <2>1. TreeDepth \in 0..TreeDepth /\ leafIndex \in Nat /\ leafIndex < power[TreeDepth]
    BY <1>1
  <2> QED BY <2>1, IndexInTree, Zenon
<1>4. proof.creditHash = leaves[leafIndex + 1]
  <2>1. proof.creditHash = layers(leaves, h)[0][leafIndex + 1]
    BY DEF getMerkleProofFromTree, buildMerkleTree
  <2>2. layers(leaves, h)[0] = padded(leaves, h)
    BY <1>1, LayerSteps
  <2> HIDE DEF proof, h
  <2> QED BY <1>1, <2>1, <2>2 DEF padded
<1>5. proof.root = FullDepthRoot(leaves)
  <2>1. proof.root = tree.root
    BY DEF getMerkleProofFromTree
  <2> QED BY <2>1, BuiltRoot
<1>6. \A l \in 0..(TreeDepth - 1) : path[l] = siblingNode(tree, l, idx[l]) /\ sides[l] = idx[l] % 2
  <2> HIDE DEF tree
  <2> QED BY DEF getMerkleProofFromTree
<1>climb. /\ climb[0] = proof.creditHash
       /\ \A l \in 0..(TreeDepth - 1) :
            climb[l + 1] = IF sides[l] = 0 THEN merkleHash(climb[l], path[l])
                                           ELSE merkleHash(path[l], climb[l])
  <2> DEFINE leaf == proof.creditHash
  <2> HIDE DEF proof, path, sides, leaf
  <2>1. /\ recomputed(leaf, path, sides)[0] = leaf
        /\ \A l \in 0..(TreeDepth - 1) :
             recomputed(leaf, path, sides)[l + 1] =
               IF sides[l] = 0 THEN merkleHash(recomputed(leaf, path, sides)[l], path[l])
                               ELSE merkleHash(path[l], recomputed(leaf, path, sides)[l])
    BY RecomputedSteps
  <2> QED BY <2>1 DEF leaf
<1> DEFINE S == {n \in 0..TreeDepth : climb[n] = full[n][idx[n] + 1]}
<1>7. 0 \in S
  <2>1. climb[0] = proof.creditHash /\ idx[0] = leafIndex
    BY <1>climb, IndexSteps, Zenon
  <2>2. full[0] = padded(leaves, TreeDepth)
    BY LayerSteps
  <2> HIDE DEF climb, full, idx, proof
  <2> QED BY <1>1, <1>4, <2>1, <2>2 DEF padded
<1>8. ASSUME NEW n \in 0..TreeDepth, n \in S, n < TreeDepth PROVE n + 1 \in S
  <2>1. n \in 0..(TreeDepth - 1) /\ TreeDepth \in 0..TreeDepth
    BY <1>8
  <2> DEFINE wide == power[TreeDepth - (n + 1)]
  <2>2. wide \in Nat /\ power[TreeDepth - n] = 2 * wide
    BY <2>1, LevelSizes, Zenon
  <2>3. full[n + 1] = paired(full[n], wide)
    BY <2>1, LayerSteps, Zenon
  <2>4. idx[n] \in Nat /\ idx[n] < 2 * wide /\ idx[n + 1] = idx[n] \div 2
    BY <1>3, <2>1, <2>2, IndexSteps
  <2>5. n >= h => idx[n] = 0
    BY <1>1, <1>2, <2>1
  <2>6. path[n] = full[n][IF idx[n] % 2 = 0 THEN idx[n] + 2 ELSE idx[n]]
    <3>1. path[n] = siblingNode(tree, n, idx[n])
      BY <1>6, <2>1
    <3> HIDE DEF path, full, idx, tree, wide
    <3> QED BY <2>1, <2>2, <2>4, <2>5, <3>1, SiblingOfFull DEF h, tree, full
  <2>7. sides[n] = idx[n] % 2
    BY <1>6, <2>1
  <2>8. climb[n + 1] = IF sides[n] = 0 THEN merkleHash(climb[n], path[n])
          ELSE merkleHash(path[n], climb[n])
    BY <1>climb, <2>1
  <2>9. climb[n] = full[n][idx[n] + 1]
    BY <1>8
  <2> HIDE DEF climb, path, sides, full, idx, wide
  <2>10. idx[n + 1] + 1 \in 1..wide
    BY <2>2, <2>4
  <2>11. full[n + 1][idx[n + 1] + 1]
           = merkleHash(full[n][2 * (idx[n + 1] + 1) - 1], full[n][2 * (idx[n + 1] + 1)])
    BY <2>3, <2>10 DEF paired
  <2>half. PICK i \in Nat, half \in Nat : i = idx[n] /\ half = idx[n + 1] /\ half = i \div 2
    BY <2>4
  <2>12. CASE idx[n] % 2 = 0
    <3>1. 2 * (idx[n + 1] + 1) - 1 = idx[n] + 1 /\ 2 * (idx[n + 1] + 1) = idx[n] + 2
      <4>1. 2 * half = i
        BY <2>half, <2>12, Halves
      <4>2. 2 * (half + 1) - 1 = i + 1 /\ 2 * (half + 1) = i + 2
        BY <4>1
      <4> QED BY <2>half, <4>2
    <3> QED BY <2>1, <2>6, <2>7, <2>8, <2>9, <2>11, <2>12, <3>1
  <2>13. CASE idx[n] % 2 # 0
    <3>1. 2 * (idx[n + 1] + 1) - 1 = idx[n] /\ 2 * (idx[n + 1] + 1) = idx[n] + 1
      <4>1. 2 * half + 1 = i
        BY <2>half, <2>13, Halves
      <4>2. 2 * (half + 1) - 1 = i /\ 2 * (half + 1) = i + 1
        BY <4>1
      <4> QED BY <2>half, <4>2
    <3> QED BY <2>1, <2>6, <2>7, <2>8, <2>9, <2>11, <2>13, <3>1
  <2> QED BY <2>12, <2>13
<1>9. TreeDepth \in S
  <2> HIDE DEF S
  <2>1. \A n \in 0..TreeDepth : n \in S /\ n < TreeDepth => n + 1 \in S
    BY <1>8
  <2>2. 0..TreeDepth \subseteq S
    <3> HIDE DEF climb, full, idx
    <3> QED BY <1>7, <2>1, UpTo
  <2> QED BY <2>2
<1>10. climb[TreeDepth] = full[TreeDepth][1]
  <2>1. idx[TreeDepth] = 0
    BY <1>1, <1>2
  <2> HIDE DEF climb, full, idx
  <2> QED BY <1>9, <2>1
<1>11. verify_merkle_inclusion(proof.creditHash, path, sides) = FullDepthRoot(leaves)
  BY <1>10, Zenon DEF verify_merkle_inclusion, FullDepthRoot
<1> HIDE DEF proof
<1> QED BY <1>4, <1>5, <1>11 DEF proof
==============================================================================
