------------------------------ MODULE ProofRelay ------------------------------
(***************************************************************************)
(* The backend's proof relay - ProofService, NullifierService and          *)
(* CertificateService - composed with the contracts it submits to and the  *)
(* database it shares with nobody but the indexer.                         *)
(*                                                                         *)
(* Node runs one handler at a time and switches only where a handler waits *)
(* for I/O, so a step below runs from one database query or RPC call to    *)
(* the next; without either, a request is answered in one step.            *)
(***************************************************************************)
EXTENDS RetirementVerifier

CONSTANTS
  Request,      \* the HTTP requests of a run, each made once
  NoRequest,    \* no transaction in the network's queue
  Kind,         \* certificate prefixes relayed: "CERT", "COMP" or both
  Deployer,     \* the account behind DEPLOYER_SECRET_KEY, which signs
  Wallet,       \* an account that retires its own credit with its own tool
  UseDb,        \* DATABASE_URL is set
  UseVerifier,  \* RETIREMENT_VERIFIER_ID is set; otherwise dev mode
  UseRegistry,  \* NULLIFIER_REGISTRY_ID is set
  TestMode,     \* the verifier contract is in test mode
  Faults,       \* what may go wrong: "db", "rpc"
  MaxPolls,     \* bound: polls of a pending transaction (20 in the code)
  MaxRestarts,  \* bound: restarts of the backend
  MaxDay        \* bound: calendar days on which the backend is restarted

ASSUME RelayAssumption ==
  /\ {Deployer, Wallet} \subseteq Account /\ Deployer # Wallet
  /\ NoRequest \notin Request
  /\ Kind \subseteq {"CERT", "COMP"}
  /\ {UseDb, UseVerifier, UseRegistry, TestMode} \subseteq BOOLEAN
  /\ Self \in VerifierChoice /\ MaxCredits >= 3
  /\ MaxPolls \in Nat /\ MaxRestarts \in Nat /\ MaxDay \in Nat \ {0}

VARIABLES
  input,           \* what each request asks: its kind and nullifier
  pc,              \* how far its handler is, then its answer
  certId,          \* the certificate id its handler drew
  usedNullifiers,  \* NullifierService's Set
  certificates,    \* CertificateService's array, newest first
  sequence,        \* CertificateService's counter
  dbNullifiers,    \* rows of nullifiers
  dbCertificates,  \* rows of retirement_certificates
  accountSeq,      \* the deployer's sequence number on the ledger
  seqRead,         \* the sequence number each handler builds its transaction on
  hash,            \* the transaction each handler polls for, by its sender
  inFlight,        \* the deployer's queued transaction
  txStatus,        \* what getTransaction answers for each transaction
  attempts,        \* polls each handler has made
  day, restarts    \* the calendar, and restarts so far

chainVars == vars
memory == <<usedNullifiers, certificates, sequence, certId>>
database == <<dbNullifiers, dbCertificates>>
network == <<accountSeq, seqRead, hash, inFlight, txStatus, attempts>>
clock == <<day, restarts>>
relayVars == <<chainVars, input, pc, memory, database, network, clock>>

Waiting == {"db_check", "chain_check", "account", "simulate", "send", "poll",
            "insert_nullifier", "insert_certificate"}
(* verified: {verified: true}; rejected: 'Nullifier already used'; refused: *)
(* the simulation trapped; failed: any other error; lost: no answer.        *)
Answered == {"verified", "rejected", "refused", "failed", "lost"}

CertificateId == Kind \X (1..MaxDay) \X Nat
NoId == <<>>
Certificate == [id : CertificateId, nullifier : Nullifier]

RelayTypeOK ==
  /\ TypeOK
  /\ input \in [Request -> [kind : Kind, nullifier : Nullifier]]
  /\ pc \in [Request -> {"new"} \cup Waiting \cup Answered]
  /\ certId \in [Request -> CertificateId \cup {NoId}]
  /\ usedNullifiers \subseteq Nullifier
  /\ certificates \in Seq(Certificate)
  /\ sequence \in Nat
  /\ dbNullifiers \subseteq Nullifier
  /\ dbCertificates \subseteq Certificate
  /\ accountSeq \in Nat
  /\ seqRead \in [Request -> Nat]
  /\ hash \in [Request -> Request]
  /\ inFlight \in Request \cup {NoRequest}
  /\ txStatus \in [Request -> {"NOT_FOUND", "SUCCESS", "FAILED"}]
  /\ attempts \in [Request -> 0..MaxPolls]
  /\ day \in 1..MaxDay
  /\ restarts \in 0..MaxRestarts

--------------------------------------------------------------------------------
(* The contracts as deployed for the relay: the two registries answer to   *)
(* the verifier, the deployer and the wallet hold one credit each.         *)
Held(owner) == [owner |-> owner, is_retired |-> FALSE, nullifier |-> ZeroNullifier]

DeployedChain ==
  /\ authorized = Self /\ used = {} /\ count = 0
  /\ admin = Deployer /\ verifier = Self
  /\ credits = <<Held(Deployer), Held(Deployer), Held(Wallet)>>
  /\ vkSet = TRUE /\ testMode = TestMode
  /\ records = [n \in Nullifier |-> NoRecord] /\ log = <<>>

RelayInit ==
  /\ DeployedChain
  /\ input \in [Request -> [kind : Kind, nullifier : Nullifier]]
  /\ pc = [r \in Request |-> "new"]
  /\ certId = [r \in Request |-> NoId]
  /\ usedNullifiers = {} /\ certificates = <<>> /\ sequence = 0
  /\ dbNullifiers = {} /\ dbCertificates = {}
  /\ accountSeq = 0
  /\ seqRead = [r \in Request |-> 0]
  /\ hash = [r \in Request |-> r]
  /\ inFlight = NoRequest
  /\ txStatus = [r \in Request |-> "NOT_FOUND"]
  /\ attempts = [r \in Request |-> 0]
  /\ day = 1 /\ restarts = 0

nullifierOf(r) == input[r].nullifier

Goto(r, p) == pc' = [pc EXCEPT ![r] = p]

(* A handler ends here: everything but its own progress stays. *)
Answer(r, p) ==
  Goto(r, p) /\ UNCHANGED <<chainVars, input, memory, database, network, clock>>

--------------------------------------------------------------------------------
(* CertificateService. *)

(* Mutant: the counter is not advanced. *)
AddCertificateStale(r) ==
  LET id == <<input[r].kind, day, sequence + 1>> IN
  /\ certId' = [certId EXCEPT ![r] = id]
  /\ certificates' = <<[id |-> id, nullifier |-> nullifierOf(r)]>> \o certificates
  /\ UNCHANGED sequence

(* addCertificate up to its INSERT: the id is drawn and the certificate is *)
(* listed in memory before the database has seen it.                       *)
AddCertificate(r) ==
  LET id == <<input[r].kind, day, sequence + 1>> IN
  /\ sequence' = sequence + 1
  /\ certId' = [certId EXCEPT ![r] = id]
  /\ certificates' = <<[id |-> id, nullifier |-> nullifierOf(r)]>> \o certificates

Row(id, n) == [id |-> id, nullifier |-> n]
IdTaken(id) == \E c \in dbCertificates : c.id = id
NullifierTaken(n) == \E c \in dbCertificates : c.nullifier = n

(* getByCertificateId: the database first, then memory. *)
getByCertificateId(id) ==
  LET rows == IF UseDb THEN {c \in dbCertificates : c.id = id} ELSE {}
      listed == {c \in {certificates[i] : i \in DOMAIN certificates} : c.id = id}
  IN  IF rows # {} THEN rows ELSE listed

--------------------------------------------------------------------------------
(* NullifierService.record up to its INSERT, and without a database the    *)
(* rest of the handler too.                                                *)
Record(r) ==
  /\ usedNullifiers' = usedNullifiers \cup {nullifierOf(r)}
  /\ IF UseDb
       THEN Goto(r, "insert_nullifier") /\ UNCHANGED <<certificates, sequence, certId>>
       ELSE Goto(r, "verified") /\ AddCertificate(r)

(* isUsed returned false: the proof is submitted.  Dev mode and compliance *)
(* proofs (a stub) succeed at once.                                        *)
CheckPassed(r) ==
  IF UseVerifier /\ input[r].kind = "CERT"
    THEN Goto(r, "account") /\ UNCHANGED memory
    ELSE Record(r)

(* isUsed found the nullifier in the database or on the ledger. *)
CheckHit(r) ==
  /\ usedNullifiers' = usedNullifiers \cup {nullifierOf(r)}
  /\ Goto(r, "rejected")
  /\ UNCHANGED <<certificates, sequence, certId>>

AfterDbCheck(r) ==
  IF UseRegistry THEN Goto(r, "chain_check") /\ UNCHANGED memory ELSE CheckPassed(r)

(* relayRetirementProof / relayComplianceProof begin: the in-memory check. *)
Relay(r) ==
  /\ pc[r] = "new"
  /\ \/ /\ nullifierOf(r) \in usedNullifiers
        /\ Goto(r, "rejected") /\ UNCHANGED memory
     \/ /\ nullifierOf(r) \notin usedNullifiers
        /\ IF UseDb THEN Goto(r, "db_check") /\ UNCHANGED memory ELSE AfterDbCheck(r)
  /\ UNCHANGED <<chainVars, input, database, network, clock>>

DbCheck(r) ==
  /\ pc[r] = "db_check"
  /\ IF nullifierOf(r) \in dbNullifiers THEN CheckHit(r) ELSE AfterDbCheck(r)
  /\ UNCHANGED <<chainVars, input, database, network, clock>>

(* checkOnChain: a read that fails counts as unused. *)
ChainCheck(r) ==
  /\ pc[r] = "chain_check"
  /\ \/ NR!IsUsed(nullifierOf(r)) /\ CheckHit(r)
     \/ (~NR!IsUsed(nullifierOf(r)) \/ "rpc" \in Faults) /\ CheckPassed(r)
  /\ UNCHANGED <<chainVars, input, database, network, clock>>

--------------------------------------------------------------------------------
(* submitToSoroban: the deployer retires token 1, its own. *)

(* Mutant: token ids are taken to count from 2. *)
TokenAfter == 2

RelayToken == 1

CallReturnsTrue(r) ==
  VerifyReturnsTrue(TRUE, nullifierOf(r), RelayToken, Deployer, Deployer)
CallReturnsFalse(r) == VerifyReturnsFalse(TRUE, nullifierOf(r))
CallTraps(r) == ~CallReturnsTrue(r) /\ ~CallReturnsFalse(r)

GetAccount(r) ==
  /\ pc[r] = "account"
  /\ seqRead' = [seqRead EXCEPT ![r] = accountSeq]
  /\ Goto(r, "simulate")
  /\ UNCHANGED <<chainVars, input, memory, database, clock,
                 accountSeq, hash, inFlight, txStatus, attempts>>

(* prepareTransaction simulates the call on the present ledger; a trap is  *)
(* an error, either return value is not.                                   *)
Simulate(r) ==
  /\ pc[r] = "simulate"
  /\ Answer(r, IF CallTraps(r) THEN "refused" ELSE "send")

(* sendTransaction: a stale sequence number is an ERROR.  While another    *)
(* transaction of the account is queued, one for the same nullifier built  *)
(* in the same second is that very transaction (DUPLICATE), any other is   *)
(* turned away (TRY_AGAIN_LATER); the code polls in every case.            *)
Send(r) ==
  /\ pc[r] = "send"
  /\ \/ /\ seqRead[r] # accountSeq
        /\ Goto(r, "failed") /\ UNCHANGED <<hash, inFlight>>
     \/ /\ seqRead[r] = accountSeq
        /\ Goto(r, "poll")
        /\ \/ inFlight = NoRequest /\ inFlight' = r /\ UNCHANGED hash
           \/ inFlight # NoRequest /\ UNCHANGED <<hash, inFlight>>
           \/ /\ inFlight # NoRequest /\ nullifierOf(inFlight) = nullifierOf(r)
              /\ hash' = [hash EXCEPT ![r] = inFlight] /\ UNCHANGED inFlight
  /\ UNCHANGED <<chainVars, input, memory, database, clock,
                 accountSeq, seqRead, txStatus, attempts>>

(* The queue takes the transaction and the answer to the call is lost. *)
SendUnanswered(r) ==
  /\ "rpc" \in Faults
  /\ pc[r] = "send"
  /\ seqRead[r] = accountSeq /\ inFlight = NoRequest
  /\ inFlight' = r
  /\ Goto(r, "failed")
  /\ UNCHANGED <<chainVars, input, memory, database, clock,
                 accountSeq, seqRead, hash, txStatus, attempts>>

(* The network applies the queued transaction: SUCCESS means that the call *)
(* returned, whatever it returned.                                         *)
Land(r) ==
  /\ inFlight = r
  /\ inFlight' = NoRequest
  /\ accountSeq' = accountSeq + 1
  /\ \/ /\ \E c \in Corridor :
             VerifyRetirement(nullifierOf(r), c, RelayToken, Deployer, Deployer)
        /\ txStatus' = [txStatus EXCEPT ![r] = "SUCCESS"]
     \/ /\ CallReturnsFalse(r)
        /\ txStatus' = [txStatus EXCEPT ![r] = "SUCCESS"]
        /\ UNCHANGED chainVars
     \/ /\ CallTraps(r)
        /\ txStatus' = [txStatus EXCEPT ![r] = "FAILED"]
        /\ UNCHANGED chainVars
  /\ UNCHANGED <<input, pc, memory, database, clock,
                 seqRead, hash, attempts>>

(* Its 30 second validity runs out in the queue. *)
Expire(r) ==
  /\ inFlight = r
  /\ inFlight' = NoRequest
  /\ UNCHANGED <<chainVars, input, pc, memory, database, clock,
                 accountSeq, seqRead, hash, txStatus, attempts>>

(* The polling loop, then the check of the final status. *)
status(r) == txStatus[hash[r]]

(* Mutants: one poll too many; the polls are not counted. *)
PollOnceMore(r) ==
  /\ pc[r] = "poll"
  /\ status(r) = "NOT_FOUND"
  /\ attempts[r] <= MaxPolls
  /\ attempts' = [attempts EXCEPT ![r] = @ + 1]
  /\ UNCHANGED <<chainVars, input, pc, memory, database, clock,
                 accountSeq, seqRead, hash, inFlight, txStatus>>

PollUncounted(r) ==
  /\ pc[r] = "poll"
  /\ status(r) = "NOT_FOUND"
  /\ attempts[r] < MaxPolls
  /\ UNCHANGED relayVars

PollAgain(r) ==
  /\ pc[r] = "poll"
  /\ status(r) = "NOT_FOUND"
  /\ attempts[r] < MaxPolls
  /\ attempts' = [attempts EXCEPT ![r] = @ + 1]
  /\ UNCHANGED <<chainVars, input, pc, memory, database, clock,
                 accountSeq, seqRead, hash, inFlight, txStatus>>

(* Mutant: the status is not looked at after the loop. *)
PollUnchecked(r) ==
  /\ pc[r] = "poll"
  /\ status(r) # "NOT_FOUND" \/ attempts[r] = MaxPolls
  /\ Record(r)
  /\ UNCHANGED <<chainVars, input, database, network, clock>>

PollSucceeds(r) ==
  /\ pc[r] = "poll"
  /\ status(r) = "SUCCESS"
  /\ Record(r)
  /\ UNCHANGED <<chainVars, input, database, network, clock>>

PollEnds(r) ==
  /\ pc[r] = "poll"
  /\ \/ status(r) = "FAILED"
     \/ status(r) = "NOT_FOUND" /\ attempts[r] = MaxPolls
  /\ Answer(r, "failed")

RpcError(r) ==
  /\ "rpc" \in Faults
  /\ pc[r] \in {"account", "simulate", "send", "poll"}
  /\ Answer(r, "failed")

--------------------------------------------------------------------------------
(* The two INSERTs. *)

(* Mutant: a nullifier in memory is taken for a stored one. *)
InsertNothing(r) ==
  /\ pc[r] = "insert_nullifier"
  /\ AddCertificate(r)
  /\ Goto(r, "insert_certificate")
  /\ UNCHANGED <<chainVars, input, usedNullifiers, database, network, clock>>

InsertNullifier(r) ==
  /\ pc[r] = "insert_nullifier"
  /\ dbNullifiers' = dbNullifiers \cup {nullifierOf(r)}
  /\ AddCertificate(r)
  /\ Goto(r, "insert_certificate")
  /\ UNCHANGED <<chainVars, input, usedNullifiers, dbCertificates, network, clock>>

(* Mutant: no unique index on nullifier. *)
InsertCertificateTwice(r) ==
  /\ pc[r] = "insert_certificate"
  /\ Goto(r, "verified")
  /\ dbCertificates' =
       IF IdTaken(certId[r]) THEN dbCertificates
       ELSE dbCertificates \cup {Row(certId[r], nullifierOf(r))}
  /\ UNCHANGED <<chainVars, input, memory, dbNullifiers, network, clock>>

(* ON CONFLICT (certificate_id) DO NOTHING; the unique index on nullifier  *)
(* is not covered by it and raises.                                        *)
InsertCertificate(r) ==
  /\ pc[r] = "insert_certificate"
  /\ IF ~IdTaken(certId[r]) /\ NullifierTaken(nullifierOf(r))
       THEN Goto(r, "failed") /\ UNCHANGED dbCertificates
       ELSE /\ Goto(r, "verified")
            /\ dbCertificates' =
                 IF IdTaken(certId[r]) THEN dbCertificates
                 ELSE dbCertificates \cup {Row(certId[r], nullifierOf(r))}
  /\ UNCHANGED <<chainVars, input, memory, dbNullifiers, network, clock>>

(* A query fails before it ran, or its answer is lost after it did. *)
DbError(r) ==
  /\ "db" \in Faults
  /\ Goto(r, "failed")
  /\ \/ /\ pc[r] \in {"db_check", "insert_nullifier", "insert_certificate"}
        /\ UNCHANGED database
     \/ /\ pc[r] = "insert_nullifier"
        /\ dbNullifiers' = dbNullifiers \cup {nullifierOf(r)}
        /\ UNCHANGED dbCertificates
     \/ /\ pc[r] = "insert_certificate"
        /\ ~IdTaken(certId[r]) /\ ~NullifierTaken(nullifierOf(r))
        /\ dbCertificates' = dbCertificates \cup {Row(certId[r], nullifierOf(r))}
        /\ UNCHANGED dbNullifiers
  /\ UNCHANGED <<chainVars, input, memory, network, clock>>

--------------------------------------------------------------------------------
(* The backend restarts, the same day or later: memory is gone, and so are *)
(* the handlers; what is queued in the network is not.  Without a restart  *)
(* the counter alone keeps ids apart, so the day stands still.             *)
Restart ==
  /\ restarts < MaxRestarts
  /\ restarts' = restarts + 1
  /\ day' \in day..MaxDay
  /\ pc' = [r \in Request |-> IF pc[r] \in Waiting THEN "lost" ELSE pc[r]]
  /\ usedNullifiers' = {} /\ certificates' = <<>> /\ sequence' = 0
  /\ UNCHANGED <<chainVars, input, certId, database, network>>

(* The wallet retires its credit without the backend. *)
WalletRetires ==
  /\ \E n \in Nullifier, c \in Corridor, t \in DOMAIN credits :
       VerifyRetirement(n, c, t, Wallet, Wallet)
  /\ UNCHANGED <<input, pc, memory, database, network, clock>>

(* What the backend itself does next for a request it has taken on. *)
Handle(r) ==
  \/ DbCheck(r) \/ ChainCheck(r)
  \/ GetAccount(r) \/ Simulate(r) \/ Send(r)
  \/ PollAgain(r) \/ PollSucceeds(r) \/ PollEnds(r)
  \/ InsertNullifier(r) \/ InsertCertificate(r)

RelayNext ==
  \/ \E r \in Request :
       \/ Relay(r) \/ Handle(r)
       \/ SendUnanswered(r) \/ Land(r) \/ Expire(r)
       \/ RpcError(r) \/ DbError(r)
  \/ Restart
  \/ WalletRetires

RelaySpec == RelayInit /\ [][RelayNext]_relayVars

(* Every call the backend waits for completes or fails. *)
FairRelaySpec == RelaySpec /\ \A r \in Request : WF_relayVars(Handle(r))

--------------------------------------------------------------------------------
(* Properties. *)

Finished == \A r \in Request : pc[r] \in Answered

(* Two requests are never both told that the same nullifier was verified,  *)
(* though both may pass isUsed before either records it: with a database   *)
(* the unique index stops the second certificate.                          *)
VerifiedOnce ==
  \A r, q \in Request :
    pc[r] = "verified" /\ pc[q] = "verified" /\ nullifierOf(r) = nullifierOf(q) => r = q

(* The same while the process that drew the ids lives: after a restart a   *)
(* certificate whose id is taken is not stored, and no index stops another *)
(* for its nullifier.                                                      *)
VerifiedOnceUntilRestart == restarts = 0 => VerifiedOnce

(* The certificate id in an answer {verified: true} opens the certificate  *)
(* of that answer's nullifier (proof.service.spec.ts:35-36).               *)
VerifiedHasCertificate ==
  \A r \in Request : pc[r] = "verified" =>
    getByCertificateId(certId[r]) = {Row(certId[r], nullifierOf(r))}

(* The same while the process that drew the ids lives: two handlers that   *)
(* interleave never draw one id.                                           *)
VerifiedHasCertificateUntilRestart == restarts = 0 => VerifiedHasCertificate

(* A retirement certificate, listed in memory or stored, stands for a      *)
(* retirement on the ledger, whatever crashed or failed meanwhile: for a   *)
(* record and for a credit burned under its nullifier, which of the        *)
(* relay's own credits is token 1 and no other.                            *)
CertificatesBackedOnChain ==
  \A c \in dbCertificates \cup {certificates[i] : i \in DOMAIN certificates} :
    c.id[1] = "CERT" =>
      /\ Recorded(c.nullifier)
      /\ \E t \in DOMAIN credits :
           RetiredWith(t, c.nullifier) /\ (credits[t].owner = Deployer => t = 1)

(* A stored certificate's nullifier is a stored nullifier: what the public *)
(* feed shows, a later isUsed still refuses after a restart.               *)
CertifiedNullifierStored ==
  \A c \in dbCertificates : c.nullifier \in dbNullifiers

(* Once every request is answered and nothing is queued, each retirement   *)
(* that a request brought to the ledger has a certificate.                 *)
RetirementsAreCertified ==
  Finished /\ inFlight = NoRequest =>
    \A r \in Request :
      txStatus[r] = "SUCCESS" /\ Recorded(nullifierOf(r)) =>
        \E q \in Request : pc[q] = "verified" /\ nullifierOf(q) = nullifierOf(r)

(* The ledger turns a relayed retirement down in simulation only when the  *)
(* relay's account holds no live credit any more.                          *)
RefusedOnlyWithoutCredit ==
  (\E r \in Request : pc[r] = "refused") =>
    \A t \in DOMAIN credits : credits[t].owner = Deployer => credits[t].is_retired

(* Every request the backend takes on is answered: no wait of the relay is *)
(* unbounded, the polling loop included.                                   *)
EveryRelayAnswered ==
  \A r \in Request : pc[r] \in Waiting ~> pc[r] \in Answered
================================================================================
