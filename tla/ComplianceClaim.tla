--------------------------- MODULE ComplianceClaim ---------------------------
(***************************************************************************)
(* A net-zero claim from its form to its certificate: the page             *)
(* (NetZeroClaimComponent), ComplianceService, NoirService's compliance    *)
(* half with its circuit, and ProofService.relayComplianceProof, while     *)
(* other pages claim and credits are retired.                              *)
(*                                                                         *)
(* An attempt is one click.  The page waits for it, or has given it up     *)
(* after a network error; the backend goes on with it either way.          *)
(***************************************************************************)
EXTENDS MerkleTree, SequencesExt

CONSTANTS
  Page,         \* open compliance pages
  Retirement,   \* retirement nullifiers, 1..n
  Secret,       \* company secrets, as fields, 1..n
  Period,       \* period ids, as fields, 1..n
  Threshold,    \* commitment thresholds entered
  VolumeOf,     \* the tonnes of each retirement
  Form,         \* nullifier and volume lists entered
  RealProver,   \* the circuit and the WASM modules could be loaded
  CircuitSize,  \* the circuit's array length, 50 in the code
  MaxU64,       \* the largest u64
  MaxAttempts   \* bound: clicks

ASSUME ClaimAssumption ==
  /\ Retirement = 1..Cardinality(Retirement)
  /\ Secret = 1..Cardinality(Secret) /\ Period = 1..Cardinality(Period)
  /\ VolumeOf \in [Retirement -> Nat]
  /\ Form \subseteq [nullifiers : Seq(Nat), volumes : Seq(Nat)]
  /\ RealProver \in BOOLEAN
  /\ Threshold \subseteq Nat
  /\ CircuitSize \in 1..power[TreeDepth]   \* 50 places, and trees of 2^20 leaves
  /\ MaxU64 \in Nat /\ MaxAttempts \in Nat

Attempt == 1..MaxAttempts
NoAttempt == 0

(* Collision-free, and no retirement's nullifier. *)
computeComplianceNullifier(companySecret, periodId) ==
  Cardinality(Retirement) + (companySecret - 1) * Cardinality(Period) + periodId
ComplianceNullifier == {computeComplianceNullifier(s, p) : s \in Secret, p \in Period}
Nullifier == Retirement \cup ComplianceNullifier

VARIABLES
  retired,         \* on the ledger
  usedNullifiers,  \* NullifierService's Set
  dbNullifiers,    \* rows of nullifiers
  certificates,    \* compliance certificates, oldest first
  waitsFor,        \* the attempt each page is busy with
  success,         \* the attempt each page shows as compliant
  attempts,        \* clicks so far
  request,         \* what each attempt was clicked with
  pc,              \* how far each attempt is
  checked,         \* nullifiers its claim has looked up
  claim,           \* those that were found: the claim's nullifiers
  inputs,          \* what its proof is made from
  posted           \* what it relays

backend == <<retired, usedNullifiers, dbNullifiers, certificates>>
page == <<waitsFor, success>>
vars == <<backend, page, attempts, request, pc, checked, claim, inputs, posted>>

Nothing == [nothing |-> TRUE]

Init ==
  /\ retired = {} /\ usedNullifiers = {} /\ dbNullifiers = {} /\ certificates = <<>>
  /\ waitsFor = [p \in Page |-> NoAttempt] /\ success = [p \in Page |-> NoAttempt]
  /\ attempts = 0
  /\ request = [a \in Attempt |-> Nothing]
  /\ pc = [a \in Attempt |-> "new"]
  /\ checked = [a \in Attempt |-> 0]
  /\ claim = [a \in Attempt |-> <<>>]
  /\ inputs = [a \in Attempt |-> Nothing]
  /\ posted = [a \in Attempt |-> Nothing]

Goto(a, label) == pc' = [pc EXCEPT ![a] = label]

(* A credit is retired: by the relay, which remembers it, or by a wallet.  *)
Retire(n) ==
  /\ n \notin retired
  /\ retired' = retired \cup {n}
  /\ \/ usedNullifiers' = usedNullifiers \cup {n} /\ dbNullifiers' = dbNullifiers \cup {n}
     \/ UNCHANGED <<usedNullifiers, dbNullifiers>>
  /\ UNCHANGED <<certificates, page, attempts, request, pc, checked, claim, inputs, posted>>

--------------------------------------------------------------------------------
(* ComplianceService. *)

buildNullifierSetTree(nullifiers) ==
  buildMerkleTree([i \in DOMAIN nullifiers |-> Leaf(nullifiers[i])])

computeNullifierSetRoot(nullifiers) ==
  IF nullifiers = <<>> THEN zeroHashAt[0] ELSE buildNullifierSetTree(nullifiers).root

(* Mutant: the place in the list that was sent, not in the one verified. *)
ProofAtEnd(nullifiers, nullifier) ==
  getMerkleProofFromTree(buildNullifierSetTree(nullifiers), Len(nullifiers) - 1)

(* leaves.indexOf: the first place the nullifier has. *)
computeNullifierSetProof(nullifiers, nullifier) ==
  LET first == CHOOSE i \in DOMAIN nullifiers :
                 nullifiers[i] = nullifier /\ \A j \in 1..(i - 1) : nullifiers[j] # nullifier
  IN  getMerkleProofFromTree(buildNullifierSetTree(nullifiers), first - 1)

(* The claim's nullifiers: those found, in their order, twice if given twice. *)
Verified(a, n, found) == IF found THEN Append(claim[a], n) ELSE claim[a]

(* isUsed of the next nullifier: memory, a row, or the ledger, whose       *)
(* lookup may fail and then counts as unused.  A hit is remembered.        *)
CheckNext(a) ==
  LET n == request[a].nullifiers[checked[a] + 1]
      known == n \in usedNullifiers \cup dbNullifiers
  IN
  /\ pc[a] = "checking"
  /\ \E found \in IF known THEN {TRUE} ELSE {FALSE, (n \in retired)} :
       /\ claim' = [claim EXCEPT ![a] = Verified(a, n, found)]
       /\ usedNullifiers' = IF found THEN usedNullifiers \cup {n} ELSE usedNullifiers
  /\ checked' = [checked EXCEPT ![a] = @ + 1]
  /\ Goto(a, IF checked[a] + 1 = Len(request[a].nullifiers) THEN "claim" ELSE "checking")
  /\ UNCHANGED <<retired, dbNullifiers, certificates, page, attempts, request, inputs, posted>>

(* findComplianceClaims: of everyone, newest first. *)
findComplianceClaims == Reverse(certificates)

(* The latest claim, whoever's: companyId is not looked at. *)
getComplianceStatus ==
  IF findComplianceClaims = <<>> THEN [compliant |-> FALSE]
  ELSE [compliant |-> TRUE, periodId |-> Head(findComplianceClaims).period,
        certificateId |-> Head(findComplianceClaims).attempt]

--------------------------------------------------------------------------------
(* The page and its prover. *)

(* generateClaim: with an empty list only a message is shown. *)
Click(p, form, secret, period) ==
  /\ waitsFor[p] = NoAttempt
  /\ attempts < MaxAttempts /\ attempts' = attempts + 1
  /\ form.nullifiers # <<>>
  /\ waitsFor' = [waitsFor EXCEPT ![p] = attempts']
  /\ success' = [success EXCEPT ![p] = NoAttempt]
  /\ request' = [request EXCEPT ![attempts'] =
       [nullifiers |-> form.nullifiers, volumes |-> form.volumes,
        secret |-> secret, period |-> period]]
  /\ Goto(attempts', "checking")
  /\ UNCHANGED <<backend, checked, claim, inputs, posted>>

(* Mutant: as they were given, whatever was found. *)
VolumesAsGiven(given, n) == given

(* Mutant: as many volumes as there are nullifiers, from the front. *)
VolumesCut(given, n) == [i \in 1..n |-> IF i <= Len(given) THEN given[i] ELSE 0]

(* Used as given, or not at all. *)
VolumesFor(given, n) == IF Len(given) = n THEN given ELSE [i \in 1..n |-> 0]

Done(p, a) == waitsFor[p] = a /\ waitsFor' = [waitsFor EXCEPT ![p] = NoAttempt]

(* Mutant: the early return leaves the page busy. *)
ClaimArrivesStuck(p, a) ==
  /\ waitsFor[p] = a /\ pc[a] = "claim"
  /\ claim[a] = <<>> /\ Goto(a, "over")
  /\ UNCHANGED <<backend, page, attempts, request, checked, claim, inputs, posted>>

(* The claim arrives.  Period, secret and threshold are read again: the    *)
(* fields can be edited meanwhile.                                         *)
ClaimArrives(p, a) ==
  /\ waitsFor[p] = a /\ pc[a] = "claim"
  /\ IF claim[a] = <<>>
       THEN Done(p, a) /\ Goto(a, "over") /\ UNCHANGED inputs
       ELSE /\ \E secret \in Secret, period \in Period, threshold \in Threshold :
                 inputs' = [inputs EXCEPT ![a] =
                   [volumes |-> VolumesFor(request[a].volumes, Len(claim[a])),
                    secret |-> secret, period |-> period, threshold |-> threshold,
                    complianceNullifier |->
                      computeComplianceNullifier(request[a].secret, request[a].period)]]
            /\ Goto(a, "proving") /\ UNCHANGED waitsFor
  /\ UNCHANGED <<backend, success, attempts, request, checked, claim, posted>>

Total(volumes) == FoldSeq(+, 0, volumes)

(* Every nullifier of the claim has its path to the set's root. *)
PathsLeadToRoot(nullifiers) ==
  \A i \in DOMAIN nullifiers :
    LET proof == computeNullifierSetProof(nullifiers, nullifiers[i])
    IN  verify_merkle_inclusion(Leaf(nullifiers[i]), proof.merklePath, proof.merkleIndices)
          = computeNullifierSetRoot(nullifiers)

(* The circuit's arrays have a fixed length, to which mapComplianceInputs  *)
(* does not pad: a shorter claim cannot be executed.                       *)
mapComplianceInputs(nullifiers) == Len(nullifiers) = CircuitSize

(* The circuit's assertions. *)
CircuitAccepts(nullifiers, in) ==
  /\ Total(in.volumes) <= MaxU64 /\ Total(in.volumes) >= in.threshold
  /\ computeComplianceNullifier(in.secret, in.period) = in.complianceNullifier
  /\ PathsLeadToRoot(nullifiers)

(* A proof that cannot be made is simulated. *)
generateComplianceProof(nullifiers, in) ==
  RealProver /\ mapComplianceInputs(nullifiers) /\ CircuitAccepts(nullifiers, in)

(* The proof, real or simulated, then the second POST. *)
Proved(p, a) ==
  /\ waitsFor[p] = a /\ pc[a] = "proving"
  /\ \E period \in Period :
       posted' = [posted EXCEPT ![a] =
         [real |-> generateComplianceProof(claim[a], inputs[a]), period |-> period,
          nullifier |-> inputs[a].complianceNullifier]]
  /\ Goto(a, "relayed")
  /\ UNCHANGED <<backend, page, attempts, request, checked, claim, inputs>>

--------------------------------------------------------------------------------
(* ProofService.relayComplianceProof. *)

(* isUsed begins: memory, then the row is asked for. *)
Relay(a) ==
  /\ pc[a] = "relayed"
  /\ Goto(a, IF posted[a].nullifier \in usedNullifiers THEN "refused" ELSE "lookup")
  /\ UNCHANGED <<backend, page, attempts, request, checked, claim, inputs, posted>>

(* The row's lookup ends.  Nothing is submitted (a stub), so the nullifier *)
(* is remembered at once and its INSERT sent.                              *)
Lookup(a) ==
  /\ pc[a] = "lookup"
  /\ IF posted[a].nullifier \in dbNullifiers
       THEN Goto(a, "refused") /\ UNCHANGED usedNullifiers
       ELSE Goto(a, "insert") /\ usedNullifiers' = usedNullifiers \cup {posted[a].nullifier}
  /\ UNCHANGED <<retired, dbNullifiers, certificates, page, attempts, request, checked, claim,
                 inputs, posted>>

(* Mutant: the row is not waited for, nor missed. *)
RememberOnly(a) ==
  /\ pc[a] = "insert" /\ Goto(a, "certify")
  /\ UNCHANGED <<backend, page, attempts, request, checked, claim, inputs, posted>>

InsertNullifier(a) ==
  /\ pc[a] = "insert"
  /\ dbNullifiers' = dbNullifiers \cup {posted[a].nullifier}
  /\ Goto(a, "certify")
  /\ UNCHANGED <<retired, usedNullifiers, certificates, page, attempts, request, checked, claim,
                 inputs, posted>>

InsertCertificate(a) ==
  /\ pc[a] = "certify"
  /\ certificates' = Append(certificates, [attempt |-> a, period |-> posted[a].period,
                                           nullifier |-> posted[a].nullifier])
  /\ Goto(a, "compliant")
  /\ UNCHANGED <<retired, usedNullifiers, dbNullifiers, page, attempts, request, checked, claim,
                 inputs, posted>>

Handling == {"checking", "lookup", "insert", "certify"}

(* The backend is restarted: its memory and the requests it handles are gone. *)
Restart ==
  /\ usedNullifiers' = {}
  /\ pc' = [a \in Attempt |-> IF pc[a] \in Handling THEN "failed" ELSE pc[a]]
  /\ UNCHANGED <<retired, dbNullifiers, certificates, page, attempts, request, checked, claim,
                 inputs, posted>>

(* A query fails: 500, or {compliant: false}. *)
DbError(a) ==
  /\ pc[a] \in Handling
  /\ Goto(a, "failed")
  /\ UNCHANGED <<backend, page, attempts, request, checked, claim, inputs, posted>>

(* Mutant: any answer is taken for success. *)
AnsweredTrusting(p, a) ==
  /\ Done(p, a) /\ pc[a] \in {"compliant", "refused", "failed"}
  /\ success' = [success EXCEPT ![p] = a]
  /\ Goto(a, "over")
  /\ UNCHANGED <<backend, attempts, request, checked, claim, inputs, posted>>

Answered(p, a) ==
  /\ Done(p, a) /\ pc[a] \in {"compliant", "refused", "failed"}
  /\ success' = [success EXCEPT ![p] = IF pc[a] = "compliant" THEN a ELSE @]
  /\ Goto(a, "over")
  /\ UNCHANGED <<backend, attempts, request, checked, claim, inputs, posted>>

(* The connection breaks while the page waits for the backend. *)
NetworkError(p, a) ==
  /\ Done(p, a) /\ pc[a] # "proving"
  /\ UNCHANGED <<backend, success, attempts, request, pc, checked, claim, inputs, posted>>

Handle(a) ==
  CheckNext(a) \/ Relay(a) \/ Lookup(a) \/ InsertNullifier(a) \/ InsertCertificate(a) \/ DbError(a)
Receive(p, a) == ClaimArrives(p, a) \/ Proved(p, a) \/ Answered(p, a) \/ NetworkError(p, a)

Next ==
  \/ Restart
  \/ \E n \in Retirement : Retire(n)
  \/ \E p \in Page, form \in Form, s \in Secret, k \in Period : Click(p, form, s, k)
  \/ \E a \in Attempt : Handle(a) \/ \E p \in Page : Receive(p, a)

Spec == Init /\ [][Next]_vars

(* Every query and computation ends, and answers reach the page. *)
FairSpec ==
  /\ Spec
  /\ \A a \in Attempt :
       /\ WF_vars(Handle(a))
       /\ \A p \in Page : WF_vars(ClaimArrives(p, a) \/ Proved(p, a) \/ Answered(p, a))

--------------------------------------------------------------------------------
(* Properties. *)

(* The type invariant of the page and the backend's stores; the circuit *)
(* gets as many volumes as nullifiers.                                  *)
ClaimTypeOK ==
  /\ retired \subseteq Retirement
  /\ usedNullifiers \subseteq Nullifier /\ dbNullifiers \subseteq Nullifier
  /\ \A i \in DOMAIN certificates :
       certificates[i].attempt \in Attempt /\ certificates[i].nullifier \in ComplianceNullifier
  /\ waitsFor \in [Page -> Attempt \cup {NoAttempt}] /\ success \in [Page -> Attempt \cup {NoAttempt}]
  /\ \A a \in Attempt :
       /\ Len(claim[a]) <= checked[a]
       /\ inputs[a] # Nothing => Len(inputs[a].volumes) = Len(claim[a])

(* The fields were left alone and the volumes are the retirements'. *)
Honest(a) ==
  /\ inputs[a].secret = request[a].secret /\ inputs[a].period = request[a].period
  /\ request[a].volumes = [i \in DOMAIN request[a].nullifiers |->
                             VolumeOf[request[a].nullifiers[i]]]

(* Where the circuit and its prover can be loaded, a claim that fills the  *)
(* circuit, whose retirements were all found, whose volumes reach the      *)
(* threshold and whose fields were left alone is really proved: the paths  *)
(* ComplianceService computes are those the circuit asserts.               *)
HonestClaimIsProved ==
  \A a \in Attempt :
    /\ posted[a] # Nothing
    /\ RealProver
    /\ Len(claim[a]) = CircuitSize /\ claim[a] = request[a].nullifiers
    /\ Range(claim[a]) \subseteq Retirement /\ Honest(a)
    /\ Total(request[a].volumes) \in inputs[a].threshold..MaxU64
    => posted[a].real

(* A form that pairs every retirement with its tonnes never counts the     *)
(* tonnes of one retirement for another, though the backend may leave some *)
(* of the retirements out of the claim.                                    *)
VolumesBelong ==
  \A a \in Attempt :
    inputs[a] # Nothing /\ Range(claim[a]) \subseteq Retirement /\ Honest(a) =>
      \A i \in DOMAIN claim[a] : inputs[a].volumes[i] \in {0, VolumeOf[claim[a][i]]}

Certified == {certificates[i].nullifier : i \in DOMAIN certificates}

(* What a page shows as compliant is a certificate of that very attempt,   *)
(* for its nullifier, and the status page agrees.                          *)
CompliantIsCertified ==
  \A p \in Page : success[p] # NoAttempt =>
    /\ \E i \in DOMAIN certificates :
         /\ certificates[i].attempt = success[p]
         /\ certificates[i].nullifier = inputs[success[p]].complianceNullifier
    /\ getComplianceStatus.compliant

(* Once a company's period is certified, no further claim of it is let     *)
(* through, whatever is restarted or fails in between; only claims that    *)
(* were already past the check can still succeed.                          *)
LaterClaimIsRefused ==
  [][\A a \in Attempt : pc[a] = "lookup" /\ posted[a].nullifier \in Certified
       => pc'[a] \in {"lookup", "refused", "failed"}]_vars

(* A page that is busy with a claim ends up free: every way through the    *)
(* handlers answers, and every answer, early return and error frees it.    *)
ClaimEnds == \A p \in Page : waitsFor[p] # NoAttempt ~> waitsFor[p] = NoAttempt

--------------------------------------------------------------------------------
(* What the code does not keep. *)

Retirements(a) == Range(claim[a])

(* The retirements of one certified claim are not those of another ("Prevents *)
(* re-use of same retirements", src/README.md:471).  The compliance nullifier  *)
(* is of the company and its period, not of the retirements.                   *)
RetirementsCountOnce ==
  \A i, j \in DOMAIN certificates :
    i # j /\ certificates[i].nullifier # certificates[j].nullifier =>
      Retirements(certificates[i].attempt) \cap Retirements(certificates[j].attempt) = {}

(* One certificate for a company's period: two pages race the check. *)
OneCertificatePerNullifier ==
  \A i, j \in DOMAIN certificates :
    certificates[i].nullifier = certificates[j].nullifier => i = j

(* A claim's nullifiers are of retirements, not of other claims. *)
ClaimIsOfRetirements == \A a \in Attempt : Range(claim[a]) \subseteq Retirement

(* A certificate names the period its nullifier was computed for. *)
CertificatePeriodMatches ==
  \A i \in DOMAIN certificates :
    certificates[i].period = request[certificates[i].attempt].period

(* The circuit's total is of tonnes that were retired. *)
RealClaimIsOfTonnes ==
  \A a \in Attempt : posted[a] # Nothing /\ posted[a].real /\ Range(claim[a]) \subseteq Retirement =>
    Total(inputs[a].volumes) <= Total([i \in DOMAIN claim[a] |-> VolumeOf[claim[a][i]]])
================================================================================
