---------------------------- MODULE CreditRegistry ----------------------------
(***************************************************************************)
(* contracts/credit_registry: the ledger of credit tokens.  A token id is  *)
(* its position in `credits` (the contract numbers tokens from 1 with its  *)
(* counter "cnt").  Of CreditMetadata only the fields the contracts read   *)
(* or change are kept; hash, vintage, volume and timestamps are payload.   *)
(***************************************************************************)
EXTENDS Naturals, Sequences

CONSTANTS
  Address,        \* Soroban addresses: accounts and contracts
  NoAddress,      \* an instance key that is not set
  Nullifier,      \* 32-byte nullifiers
  ZeroNullifier,  \* [0u8; 32], stored until the credit is burned
  MaxCredits      \* bound: tokens issued

VARIABLES
  admin,     \* instance key "admin"
  verifier,  \* instance key "verifier": who may burn
  credits    \* the tokens, in the order they were issued

Credit == [owner : Address, is_retired : BOOLEAN, nullifier : Nullifier]

Init ==
  /\ admin = NoAddress
  /\ verifier = NoAddress
  /\ credits = <<>>

(* Mutant: the admin is stored under the verifier's key. *)
InitializeWrongKey(a) ==
  /\ admin = NoAddress
  /\ verifier' = a
  /\ UNCHANGED <<admin, credits>>

Initialize(a) ==
  /\ admin = NoAddress
  /\ admin' = a
  /\ UNCHANGED <<verifier, credits>>

(* admin.require_auth(): the transaction carries the admin's signature. *)
IsAdmin(signer) ==
  /\ admin # NoAddress
  /\ signer = admin

IssueCredit(to, signer) ==
  /\ IsAdmin(signer)
  /\ Len(credits) < MaxCredits
  /\ credits' = Append(credits, [owner |-> to,
                                 is_retired |-> FALSE,
                                 nullifier |-> ZeroNullifier])
  /\ UNCHANGED <<admin, verifier>>

(* Mutant: a retired credit can be moved too. *)
TransferRetired(t, to, signer) ==
  /\ t \in DOMAIN credits
  /\ credits[t].owner = signer
  /\ credits' = [credits EXCEPT ![t].owner = to]
  /\ UNCHANGED <<admin, verifier>>

(* The owner moves a live credit: `from` is the signer and the owner. *)
TransferCredit(t, to, signer) ==
  /\ t \in DOMAIN credits
  /\ credits[t].owner = signer
  /\ ~credits[t].is_retired
  /\ credits' = [credits EXCEPT ![t].owner = to]
  /\ UNCHANGED <<admin, verifier>>

(* Mutant: no verifier.require_auth(). *)
AnyoneMayBurn(t, owner, auth) ==
  /\ verifier # NoAddress
  /\ t \in DOMAIN credits
  /\ ~credits[t].is_retired
  /\ credits[t].owner = owner

(* The guards of burn_on_retirement; auth holds the addresses that         *)
(* authorise the call: the calling contract and the transaction's signer.  *)
MayBurn(t, owner, auth) ==
  /\ verifier # NoAddress
  /\ verifier \in auth
  /\ t \in DOMAIN credits
  /\ ~credits[t].is_retired
  /\ credits[t].owner = owner

BurnOnRetirement(t, owner, n, auth) ==
  /\ MayBurn(t, owner, auth)
  /\ credits' = [credits EXCEPT ![t] = [@ EXCEPT !.is_retired = TRUE, !.nullifier = n]]
  /\ UNCHANGED <<admin, verifier>>

SetVerifier(v, signer) ==
  /\ IsAdmin(signer)
  /\ verifier' = v
  /\ UNCHANGED <<admin, credits>>
================================================================================
