------------------------------- MODULE Ordering -------------------------------
(***************************************************************************)
(* Lists in the order of ORDER BY: credit ids are numbered in the order    *)
(* the database sorts them by.                                             *)
(***************************************************************************)
EXTENDS Integers, FiniteSets

(* How many numbers of a set come before one. *)
Rank(S, i) == Cardinality({j \in S : j < i})

(* The numbers of a set in their order. *)
Ascending(S) == [k \in 1..Cardinality(S) |-> CHOOSE i \in S : Rank(S, i) = k - 1]

(* The members of a list at some of its positions, in its order. *)
PickedAt(list, positions) ==
  [k \in 1..Cardinality(positions) |-> list[Ascending(positions)[k]]]
================================================================================
