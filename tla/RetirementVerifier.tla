-------------------------- MODULE RetirementVerifier --------------------------
(***************************************************************************)
(* contracts/retirement_verifier composed with the two registries it       *)
(* calls: the whole on-chain system.  verify_retirement is one transaction *)
(* across the three contracts; the calls made directly on a registry       *)
(* interleave with it.                                                     *)
(*                                                                         *)
(* `log` keeps the events that the indexer reads, in ledger order; the     *)
(* issued and xfer events have no consumer and are left out.               *)
(***************************************************************************)
EXTENDS Naturals, Sequences

CONSTANTS
  Account,         \* user addresses, the ones that sign transactions
  Self,            \* the RetirementVerifier contract's own address
  NoAddress,       \* an instance key that is not set
  Nullifier,       \* 32-byte nullifiers
  ZeroNullifier,   \* [0u8; 32]
  Corridor,        \* corridor ids, the public input that stands for the payload
  NoRecord,        \* no RetirementRecord under a nullifier
  VerifierChoice,  \* the addresses the admin ever passes to set_verifier
  RecordCaller,    \* the addresses direct calls of record pass as `caller`
  MaxCredits       \* bound: tokens issued

Address == Account \cup {Self}

ASSUME AddressAssumption ==
  /\ Self \notin Account
  /\ NoAddress \notin Address
  /\ VerifierChoice \subseteq Address
  /\ RecordCaller \subseteq Address
ASSUME DataAssumption ==
  /\ ZeroNullifier \in Nullifier
  /\ NoRecord \notin Corridor
  /\ MaxCredits \in Nat

VARIABLES
  authorized, used, count,   \* NullifierRegistry
  admin, verifier, credits,  \* CreditRegistry
  vkSet,     \* initialize has run: "vk", "nr_addr" and "cr_addr" are set
  testMode,  \* instance key "test"
  records,   \* nullifier -> the corridor of its RetirementRecord, or NoRecord
  log        \* events published by the three contracts

NR == INSTANCE NullifierRegistry
CR == INSTANCE CreditRegistry

nrVars == <<authorized, used, count>>
crVars == <<admin, verifier, credits>>
rvVars == <<vkSet, testMode, records, log>>
vars == <<authorized, used, count, admin, verifier, credits,
          vkSet, testMode, records, log>>

Nullified(n)  == [type |-> "nullified", nullifier |-> n]
Burned(t, n)  == [type |-> "burned", token |-> t, nullifier |-> n]
Retired(n, c) == [type |-> "retired", nullifier |-> n, corridor |-> c]

Event ==
  [type : {"nullified"}, nullifier : Nullifier]
    \cup [type : {"burned"}, token : 1..MaxCredits, nullifier : Nullifier]
    \cup [type : {"retired"}, nullifier : Nullifier, corridor : Corridor]

TypeOK ==
  /\ authorized \in Address \cup {NoAddress}
  /\ used \subseteq Nullifier
  /\ count \in Nat
  /\ admin \in Address \cup {NoAddress}
  /\ verifier \in VerifierChoice \cup {NoAddress}
  /\ credits \in Seq(CR!Credit)
  /\ Len(credits) <= MaxCredits
  /\ vkSet \in BOOLEAN
  /\ testMode \in BOOLEAN
  /\ records \in [Nullifier -> Corridor \cup {NoRecord}]
  /\ log \in Seq(Event)

Init ==
  /\ NR!Init
  /\ CR!Init
  /\ vkSet = FALSE
  /\ testMode = FALSE
  /\ records = [n \in Nullifier |-> NoRecord]
  /\ log = <<>>

--------------------------------------------------------------------------------
(* Calls on RetirementVerifier. *)

Initialize ==
  /\ ~vkSet
  /\ vkSet' = TRUE
  /\ UNCHANGED <<nrVars, crVars, testMode, records, log>>

SetTestMode(enabled) ==
  /\ testMode' = enabled
  /\ UNCHANGED <<nrVars, crVars, vkSet, records, log>>

(* Outside test mode every proof is invalid: verification is a TODO. *)
IsValid(proofPresent) == testMode /\ proofPresent

(* verify_retirement returns false: the proof is invalid, or the nullifier *)
(* registry refuses the nullifier.  Nothing was written before either.     *)
VerifyReturnsFalse(proofPresent, n) ==
  \/ ~IsValid(proofPresent) /\ (testMode \/ vkSet)
  \/ IsValid(proofPresent) /\ vkSet /\ NR!CallerAuthorized(Self) /\ NR!IsUsed(n)

(* verify_retirement returns true.  In every case that is neither this nor *)
(* the one above it panics, and the nullifier it may have recorded is      *)
(* rolled back with the rest.                                              *)
VerifyReturnsTrue(proofPresent, n, t, owner, signer) ==
  /\ IsValid(proofPresent)
  /\ vkSet
  /\ NR!CallerAuthorized(Self)
  /\ ~NR!IsUsed(n)
  /\ CR!MayBurn(t, owner, {Self, signer})

(* Mutant: the record is written though the burn failed. *)
RecordUnburned(n, corridor, t, owner, signer) ==
  /\ IsValid(TRUE) /\ vkSet /\ t \in DOMAIN credits
  /\ NR!Record(n, Self)
  /\ records' = [records EXCEPT ![n] = corridor]
  /\ log' = log \o <<Nullified(n), Retired(n, corridor)>>
  /\ UNCHANGED <<crVars, vkSet, testMode>>

(* Mutant: a failed burn does not take the nullifier back. *)
VerifyWithoutRollback(n, corridor, t, owner, signer) ==
  /\ IsValid(TRUE) /\ vkSet
  /\ NR!Record(n, Self)
  /\ \/ /\ CR!BurnOnRetirement(t, owner, n, {Self, signer})
        /\ records' = [records EXCEPT ![n] = corridor]
        /\ log' = log \o <<Nullified(n), Burned(t, n), Retired(n, corridor)>>
     \/ /\ ~CR!MayBurn(t, owner, {Self, signer})
        /\ log' = Append(log, Nullified(n))
        /\ UNCHANGED <<crVars, records>>
  /\ UNCHANGED <<vkSet, testMode>>

VerifyRetirement(n, corridor, t, owner, signer) ==
  /\ VerifyReturnsTrue(TRUE, n, t, owner, signer)
  /\ NR!Record(n, Self)
  /\ CR!BurnOnRetirement(t, owner, n, {Self, signer})
  /\ records' = [records EXCEPT ![n] = corridor]
  /\ log' = log \o <<Nullified(n), Burned(t, n), Retired(n, corridor)>>
  /\ UNCHANGED <<vkSet, testMode>>

--------------------------------------------------------------------------------
(* Calls made directly on the registries.  record compares its caller      *)
(* argument with the authorized address and asks for no signature.         *)

NRInitialize(v) ==
  NR!Initialize(v) /\ UNCHANGED <<crVars, rvVars>>

DirectRecord(n, caller) ==
  /\ NR!Record(n, caller)
  /\ log' = Append(log, Nullified(n))
  /\ UNCHANGED <<crVars, vkSet, testMode, records>>

CRInitialize(a) ==
  CR!Initialize(a) /\ UNCHANGED <<nrVars, rvVars>>

IssueCredit(to, signer) ==
  CR!IssueCredit(to, signer) /\ UNCHANGED <<nrVars, rvVars>>

TransferCredit(t, to, signer) ==
  CR!TransferCredit(t, to, signer) /\ UNCHANGED <<nrVars, rvVars>>

SetVerifier(v, signer) ==
  CR!SetVerifier(v, signer) /\ UNCHANGED <<nrVars, rvVars>>

DirectBurn(t, owner, n, signer) ==
  /\ CR!BurnOnRetirement(t, owner, n, {signer})
  /\ log' = Append(log, Burned(t, n))
  /\ UNCHANGED <<nrVars, vkSet, testMode, records>>

Next ==
  \/ Initialize
  \/ \E enabled \in BOOLEAN : SetTestMode(enabled)
  \/ \E n \in Nullifier, c \in Corridor, t \in 1..MaxCredits,
        owner \in Address, signer \in Account :
       VerifyRetirement(n, c, t, owner, signer)
  \/ \E v \in Address : NRInitialize(v)
  \/ \E n \in Nullifier, caller \in RecordCaller : DirectRecord(n, caller)
  \/ \E a \in Account : CRInitialize(a)
  \/ \E to \in Address, signer \in Account : IssueCredit(to, signer)
  \/ \E t \in 1..MaxCredits, to \in Address, signer \in Account :
       TransferCredit(t, to, signer)
  \/ \E v \in VerifierChoice, signer \in Account : SetVerifier(v, signer)
  \/ \E t \in 1..MaxCredits, owner \in Address, n \in Nullifier, signer \in Account :
       DirectBurn(t, owner, n, signer)

Spec == Init /\ [][Next]_vars

--------------------------------------------------------------------------------
(* Properties. *)

RetiredWith(t, n) ==
  /\ t \in DOMAIN credits
  /\ credits[t].is_retired
  /\ credits[t].nullifier = n

Recorded(n) == records[n] # NoRecord

(* No nullifier retires two credits, whatever calls interleave with the    *)
(* verifier's.  Holds when the admin only ever names the verifier contract *)
(* as the burner: burn_on_retirement itself does not look at nullifiers.   *)
OneCreditPerNullifier ==
  \A n \in Nullifier, s, t \in 1..MaxCredits :
    RetiredWith(s, n) /\ RetiredWith(t, n) => s = t

(* A retirement record always has its burned credit: verify_retirement     *)
(* never persists a record for a burn that panicked.                       *)
RecordsBackedByBurn ==
  \A n \in Nullifier : Recorded(n) => \E t \in 1..MaxCredits : RetiredWith(t, n)

(* A burned credit always has its retirement record, under the nullifier   *)
(* its metadata names (same premise as OneCreditPerNullifier).             *)
BurnsAreRecorded ==
  \A n \in Nullifier, t \in 1..MaxCredits : RetiredWith(t, n) => Recorded(n)

(* The nullifier set and the records agree: a record's nullifier is used,  *)
(* and where only the verifier contract calls record in its own name, a    *)
(* used nullifier has a record - a panic in the burn takes it back.        *)
UsedMatchesRecords ==
  /\ \A n \in Nullifier : Recorded(n) => n \in used
  /\ authorized = Self /\ Self \notin RecordCaller => \A n \in used : Recorded(n)

(* Every "retired" event is the third of its transaction, after the        *)
(* "nullified" and the "burned" of the same nullifier, says what the       *)
(* record says, and appears once; every record has its event.  It is what  *)
(* lets an indexer rebuild the records from the events.                    *)
RetiredEventsMatchRecords ==
  /\ \A i \in DOMAIN log : log[i].type = "retired" =>
       /\ log[i].corridor = records[log[i].nullifier]
       /\ i > 2
       /\ log[i - 2] = Nullified(log[i].nullifier)
       /\ \E t \in 1..MaxCredits :
            log[i - 1] = Burned(t, log[i].nullifier) /\ RetiredWith(t, log[i].nullifier)
       /\ \A j \in DOMAIN log :
            log[j].type = "retired" /\ log[j].nullifier = log[i].nullifier => i = j
  /\ \A n \in Nullifier : Recorded(n) =>
       \E i \in DOMAIN log : log[i].type = "retired" /\ log[i].nullifier = n

(* A retired credit is final: no later call changes its owner, its         *)
(* nullifier or the flag, and no call rewrites a retirement record.        *)
RetirementIsFinal ==
  [][/\ \A t \in DOMAIN credits : credits[t].is_retired => credits'[t] = credits[t]
     /\ \A n \in Nullifier : Recorded(n) => records'[n] = records[n]]_vars

(* The contracts' state as the abstract ledger sees it. *)
owners == [t \in DOMAIN credits |-> credits[t].owner]
retirements ==
  {<<credits[t].nullifier, t>> : t \in {u \in DOMAIN credits : credits[u].is_retired}}

Ledger == INSTANCE RetirementLedger WITH
  Address <- Address, Nullifier <- Nullifier, MaxCredits <- MaxCredits,
  owners <- owners, retirements <- retirements

(* Seen as owners and retirements, every transaction is an issue, a        *)
(* transfer or a retirement of the abstract ledger, or changes nothing.    *)
ImplementsLedger == Ledger!Spec
================================================================================
