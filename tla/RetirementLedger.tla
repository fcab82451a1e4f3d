--------------------------- MODULE RetirementLedger ---------------------------
(***************************************************************************)
(* What the contracts promise together, with no contract, key or event in  *)
(* sight: credits are issued and change hands until they are retired, a    *)
(* retirement spends one nullifier for one credit, and it is final.        *)
(***************************************************************************)
EXTENDS Naturals, Sequences

CONSTANTS
  Address,    \* who can hold a credit
  Nullifier,  \* what a retirement spends
  MaxCredits  \* bound: credits issued

VARIABLES
  owners,      \* the holder of each credit, in the order of issue
  retirements  \* the pairs <<nullifier, credit>> retired

IsRetired(t) == \E n \in Nullifier : <<n, t>> \in retirements
IsSpent(n)   == \E t \in 1..MaxCredits : <<n, t>> \in retirements

Init ==
  /\ owners = <<>>
  /\ retirements = {}

Issue(to) ==
  /\ Len(owners) < MaxCredits
  /\ owners' = Append(owners, to)
  /\ UNCHANGED retirements

Transfer(t, to) ==
  /\ t \in DOMAIN owners
  /\ ~IsRetired(t)
  /\ owners' = [owners EXCEPT ![t] = to]
  /\ UNCHANGED retirements

Retire(n, t) ==
  /\ t \in DOMAIN owners
  /\ ~IsRetired(t)
  /\ ~IsSpent(n)
  /\ retirements' = retirements \cup {<<n, t>>}
  /\ UNCHANGED owners

Next ==
  \/ \E to \in Address : Issue(to)
  \/ \E t \in 1..MaxCredits, to \in Address : Transfer(t, to)
  \/ \E n \in Nullifier, t \in 1..MaxCredits : Retire(n, t)

Spec == Init /\ [][Next]_<<owners, retirements>>
================================================================================
