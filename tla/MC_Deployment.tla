----------------------------- MODULE MC_Deployment -----------------------------
(* One deployer and one user, two credits and two nullifiers. *)
EXTENDS Deployment

CONSTANTS deployer, alice, self, none, zero, n1, c1, noRecord

Accounts == {deployer, alice}
Nullifiers == {zero, n1}
Corridors == {c1}
OnlySelf == {self}
================================================================================
