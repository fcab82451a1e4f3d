-------------------------- MODULE MC_RetirementFlow --------------------------
(* Two credits, one corridor that takes both and one that takes the first: *)
(* enough to select another or both credits between two steps.             *)
EXTENDS RetirementFlow, TLC

CONSTANTS corsia, taxonomy, noCorridor, noPath, noProof, noCertificate

Credits == {1, 2}
Corridors == {corsia, taxonomy}
OneCorridor == {corsia}
Meets == {<<1, corsia>>, <<2, corsia>>, <<1, taxonomy>>} \cap (Credit \X Corridor)
================================================================================
