--------------------------- MODULE MC_MerkleService ---------------------------
(* Two registries: one credit in the first, two of the catalogue and one of *)
(* an earlier release in the second, so that a tree has padding and a proof *)
(* has siblings on both sides; trees of depth 3 leave a level to fold.      *)
EXTENDS MerkleService, TLC

CONSTANTS k1, k2, gold, verra, noTree, noLocation, noRoot, noReply

TwoCalls == {k1, k2}
Registries == {gold, verra}
Credits == 1..4
Offered == {1, 2, 4}
Issuer == [i \in Credits |-> IF i = 1 THEN gold ELSE verra]
CallSymmetry == Permutations(Call)
================================================================================
