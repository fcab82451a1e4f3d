------------------------------ MODULE MerkleTree ------------------------------
(***************************************************************************)
(* The registry trees as functions: MerkleService builds the smallest tree *)
(* that holds the leaves and folds its root up through empty siblings to   *)
(* the full depth; the circuits recompute that root from a leaf and a path.*)
(*                                                                         *)
(* Poseidon is taken to be free of collisions: a hash is the tuple of what *)
(* it hashes.  A leaf is a tuple of one number, so no leaf is a node.      *)
(***************************************************************************)
EXTENDS Naturals, Sequences

CONSTANT TreeDepth   \* TREE_DEPTH, 20 in the code

ASSUME TreeDepthAssumption == TreeDepth \in Nat

Leaf(x) == <<x>>
merkleHash(left, right) == <<left, right>>

(* The root of an empty subtree; Leaf(0) stands for hash4(0, 0, 0, 0). *)
zeroHashAt[level \in 0..TreeDepth] ==
  IF level = 0 THEN Leaf(0) ELSE merkleHash(zeroHashAt[level - 1], zeroHashAt[level - 1])

(* 2^k *)
power[k \in 0..TreeDepth] == IF k = 0 THEN 1 ELSE 2 * power[k - 1]

(* The root at each level from builtLevels up, beside empty subtrees. *)
folded(root, builtLevels) ==
  LET fold[level \in builtLevels..TreeDepth] ==
        IF level = builtLevels THEN root
        ELSE merkleHash(fold[level - 1], zeroHashAt[level - 1])
  IN  fold

foldToDepth(root, builtLevels) == folded(root, builtLevels)[TreeDepth]

(* The leaves of a tree of this height, the missing ones empty. *)
padded(leaves, height) ==
  [i \in 1..power[height] |-> IF i <= Len(leaves) THEN leaves[i] ELSE zeroHashAt[0]]

(* The level above: every two nodes are hashed. *)
paired(below, size) == [i \in 1..size |-> merkleHash(below[2 * i - 1], below[2 * i])]

layers(leaves, height) ==
  LET layer[level \in 0..height] ==
        IF level = 0 THEN padded(leaves, height)
        ELSE paired(layer[level - 1], power[height - level])
  IN  layer

(* The smallest height that holds the leaves, of which there are at most   *)
(* 2^TreeDepth.                                                            *)
builtHeight(leaves) ==
  CHOOSE h \in 0..TreeDepth :
    power[h] >= Len(leaves) /\ \A k \in 0..(h - 1) : power[k] < Len(leaves)

buildMerkleTree(leaves) ==
  LET height == builtHeight(leaves)
      nodes == layers(leaves, height)
  IN  [root |-> foldToDepth(nodes[height][1], height), nodes |-> nodes]

(* Mutant: the sibling is always the node to the right. *)
SiblingRight(tree, level, idx) ==
  IF level \in DOMAIN tree.nodes /\ idx + 1 < Len(tree.nodes[level])
    THEN tree.nodes[level][idx + 2] ELSE zeroHashAt[level]

(* Outside of the built tree every sibling is an empty subtree. *)
siblingNode(tree, level, idx) ==
  LET sibling == IF idx % 2 = 0 THEN idx + 1 ELSE idx - 1
  IN  IF level \in DOMAIN tree.nodes /\ sibling < Len(tree.nodes[level])
        THEN tree.nodes[level][sibling + 1] ELSE zeroHashAt[level]

(* Where the leaf's ancestor is in each level, from 0. *)
indexAt(leafIndex) ==
  LET idx[level \in 0..TreeDepth] == IF level = 0 THEN leafIndex ELSE idx[level - 1] \div 2
  IN  idx

(* leafIndex counts from 0, and so do the levels of a path. *)
getMerkleProofFromTree(tree, leafIndex) ==
  LET idx == indexAt(leafIndex)
  IN  [creditHash    |-> tree.nodes[0][leafIndex + 1],
       merklePath    |-> [level \in 0..(TreeDepth - 1) |-> siblingNode(tree, level, idx[level])],
       merkleIndices |-> [level \in 0..(TreeDepth - 1) |-> idx[level] % 2],
       root          |-> tree.root]

(* The circuits' loop, and MerkleService.verifyProof's: level by level. *)
recomputed(leaf, path, indices) ==
  LET computed[i \in 0..TreeDepth] ==
        IF i = 0 THEN leaf
        ELSE IF indices[i - 1] = 0 THEN merkleHash(computed[i - 1], path[i - 1])
                                   ELSE merkleHash(path[i - 1], computed[i - 1])
  IN  computed

verify_merkle_inclusion(leaf, path, indices) == recomputed(leaf, path, indices)[TreeDepth]

(* Reference: the root of the full tree, every one of its leaves written   *)
(* out ("the returned root matches what a full-depth tree would produce",  *)
(* merkle.service.ts:167-168).                                             *)
FullDepthRoot(leaves) == layers(leaves, TreeDepth)[TreeDepth][1]
================================================================================
