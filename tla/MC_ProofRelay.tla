---------------------------- MODULE MC_ProofRelay ----------------------------
(* Two requests over two nullifiers, so that they compete for one or use   *)
(* different ones; two credits of the deployer and one of the wallet       *)
(* (DeployedChain).                                                        *)
EXTENDS ProofRelay, TLC

CONSTANTS r1, r2, noRequest, deployer, wallet, self, none, n1, n2, c1, noRecord

TwoRequests == {r1, r2}
RequestSymmetry == Permutations(Request)
Accounts == {deployer, wallet}
Nullifiers == {n1, n2}
Corridors == {c1}
OnlySelf == {self}
CertOnly == {"CERT"}
BothKinds == {"CERT", "COMP"}
NoFaults == {}
DbFaults == {"db"}
AllFaults == {"db", "rpc"}
================================================================================
