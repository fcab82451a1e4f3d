------------------------ MODULE MC_RetirementVerifier ------------------------
(* Two users, two credits, a zero and two nonzero nullifiers (the zero is *)
(* what an unretired credit's metadata holds).  Two credits and two        *)
(* nullifiers are the least for either to be reused.                       *)
EXTENDS RetirementVerifier

CONSTANTS alice, bob, self, none, zero, n1, n2, c1, c2, noRecord

Accounts == {alice, bob}
Nullifiers == {zero, n1, n2}
TwoNullifiers == {zero, n1}
Corridors == {c1, c2}
OnlySelf == {self}
SelfOrAccount == {self, bob}
AllAddresses == {self, alice, bob}
================================================================================
