--------------------------- MODULE NullifierRegistry ---------------------------
(***************************************************************************)
(* contracts/nullifier_registry: the on-chain set of used nullifiers.      *)
(*                                                                         *)
(* A Soroban transaction is atomic: a panic (assert!, expect) rolls back   *)
(* every write of the transaction, a `return false` commits.  An action    *)
(* below is a call that commits; a call that panics is a stuttering step.  *)
(***************************************************************************)
EXTENDS Naturals

CONSTANTS
  Address,     \* Soroban addresses: accounts and contracts
  NoAddress,   \* the instance key "verifier" before initialize
  Nullifier    \* 32-byte nullifiers

VARIABLES
  authorized,  \* instance key "verifier"
  used,        \* the persistent keys: nullifiers recorded
  count        \* instance key "count"

Init ==
  /\ authorized = NoAddress
  /\ used = {}
  /\ count = 0

(* initialize: one time only, by whoever deploys. *)
Initialize(v) ==
  /\ authorized = NoAddress
  /\ authorized' = v
  /\ count' = 0
  /\ UNCHANGED used

(* The expect and the assert at the head of record. *)
CallerAuthorized(caller) ==
  /\ authorized # NoAddress
  /\ caller = authorized

(* Mutant: record does not look. *)
NeverUsed(n) == FALSE

IsUsed(n) == n \in used

(* record, when it returns true; for a used nullifier it returns false and *)
(* changes nothing.                                                        *)
Record(n, caller) ==
  /\ CallerAuthorized(caller)
  /\ ~IsUsed(n)
  /\ used' = used \cup {n}
  /\ count' = count + 1
  /\ UNCHANGED authorized
================================================================================
