---------------------------- MODULE MC_EventIndexer ----------------------------
(* Two overlapping runs of pollAll, two nullifiers in at most two closed   *)
(* ledgers: enough for a page that spans ledgers, a ledger that spans      *)
(* pages, and a run that holds a page while the other fetches it again.    *)
EXTENDS EventIndexer, TLC

CONSTANTS w1, w2, n1, n2

OneRunner == {w1}
TwoRunners == {w1, w2}
Nullifiers == {n1, n2}
Symmetry == Permutations(Runner) \cup Permutations(Nullifier)
NoFaults == {}
AllFaults == {"db", "rpc"}
================================================================================
