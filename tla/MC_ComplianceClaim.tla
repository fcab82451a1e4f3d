------------------------- MODULE MC_ComplianceClaim -------------------------
(* Two retirements of 3 and 5 tonnes, and forms that list them with their  *)
(* volumes, with a wrong volume, twice, or beside a claim's nullifier. *)
EXTENDS ComplianceClaim

MCVolumeOf == <<3, 5>>
Lists(n, v) == [nullifiers |-> n, volumes |-> v]
MCForm == {Lists(<<1, 2>>, <<3, 5>>), Lists(<<2>>, <<5>>)}
MCLooseForm == MCForm \cup {Lists(<<1, 2>>, <<3, 9>>), Lists(<<1, 1>>, <<3, 3>>), Lists(<<1, 3>>, <<9, 0>>)}
=============================================================================
