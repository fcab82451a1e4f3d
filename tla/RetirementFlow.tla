---------------------------- MODULE RetirementFlow ----------------------------
(***************************************************************************)
(* The retirement wizard: RetirementFlowComponent with the components it   *)
(* shows (CreditPortfolioComponent in step 1, ProofGenerateComponent in    *)
(* step 2, WalletConnectComponent beside every step) and NoirService,      *)
(* against a backend whose answers arrive late, in any order, or not at    *)
(* all.                                                                    *)
(*                                                                         *)
(* A component that is not shown does not exist: entering a step makes a   *)
(* new instance, leaving it drops what an instance still waits for.        *)
(***************************************************************************)
EXTENDS Naturals, Sequences

CONSTANTS
  Credit,       \* numbered in the order of the portfolio
  Corridor,
  Eligible,     \* pairs of a credit and a corridor whose minima it meets
  RealProver,   \* the circuit and the WASM modules could be loaded
  NoCorridor, NoPath, NoProof, NoCertificate,
  MaxRequests,  \* bound: Merkle-proof requests of one credit in flight
  MaxSubmits,   \* bound: submissions
  MaxConnects   \* bound: clicks on the wallet's button

ASSUME FlowAssumption ==
  /\ Credit \subseteq Nat
  /\ Eligible \subseteq Credit \X Corridor
  /\ RealProver \in BOOLEAN
  /\ MaxRequests \in Nat \ {0} /\ MaxSubmits \in Nat /\ MaxConnects \in Nat

VARIABLES
  currentStep,
  wallet,            \* WalletConnectComponent: [connected, waits], and its clicks
  walletAddress,     \* the wallet's, or 'dev' when it is ''
  selected,          \* CreditPortfolioComponent's selection
  selectedCredits,   \* RetirementFlowComponent's
  selectedCorridor,
  merkleProof,       \* the credit whose path it is
  requested,         \* Merkle-proof requests in flight, for each credit
  generating,        \* ProofGenerateComponent.generate: what it waits for
  proofResult, certResult, submitting,
  posts,             \* POST /proof/retire in flight
  submits,           \* submissions so far
  used               \* nullifiers retired on the ledger

selection == <<wallet, walletAddress, selected, selectedCredits, selectedCorridor>>
paths == <<merkleProof, requested>>
relay == <<posts, submits, used>>
vars == <<currentStep, selection, paths, generating, proofResult, certResult, submitting, relay>>

Wallet == {"dev", "address"}
Nullifier == Wallet \X Credit \X Corridor
Inputs == [nullifier : Nullifier, path : Credit \cup {NoPath}]
Proof == [nullifier : Nullifier, path : Credit \cup {NoPath}, real : BOOLEAN]

ASSUME AbsentAssumption ==
  /\ NoCorridor \notin Corridor /\ NoProof \notin Proof /\ NoCertificate \notin Nullifier

(* The type invariant.  Every step has what its panel shows without         *)
(* asking: inputs to prove in steps 2 and 3, proofResult()! in step 3, a    *)
(* certificate in step 4 - whenever the answer to a submission moves the   *)
(* wizard on.                                                              *)
FlowTypeOK ==
  /\ currentStep \in 1..4
  /\ currentStep \in {2, 3} => selectedCredits # {} /\ selectedCorridor # NoCorridor
  /\ currentStep = 3 => proofResult # NoProof
  /\ currentStep = 4 => certResult # NoCertificate
  /\ wallet \in [connected : BOOLEAN, waits : {"no", "connect", "balance"}, clicks : 0..MaxConnects]
  /\ wallet.waits = "connect" => ~wallet.connected
  /\ walletAddress \in Wallet
  /\ selected \subseteq Credit /\ selectedCredits \subseteq Credit
  /\ selectedCorridor \in Corridor \cup {NoCorridor}
  /\ merkleProof \in Credit \cup {NoPath}
  /\ requested \in [Credit -> 0..MaxRequests]
  /\ generating \in [waits : {"no", "initialize"}] \cup [waits : {"prove"}, inputs : Inputs]
  /\ proofResult \in Proof \cup {NoProof}
  /\ certResult \in Nullifier \cup {NoCertificate}
  /\ submitting \in BOOLEAN
  /\ posts \in Seq(Proof)
  /\ submits \in 0..MaxSubmits
  /\ used \subseteq Nullifier

Idle == [waits |-> "no"]

Init ==
  /\ currentStep = 1
  /\ wallet = [connected |-> FALSE, waits |-> "no", clicks |-> 0]
  /\ walletAddress = "dev"
  /\ selected = {} /\ selectedCredits = {} /\ selectedCorridor = NoCorridor
  /\ merkleProof = NoPath /\ requested = [c \in Credit |-> 0]
  /\ generating = Idle
  /\ proofResult = NoProof /\ certResult = NoCertificate
  /\ submitting = FALSE /\ posts = <<>> /\ submits = 0 /\ used = {}

First(credits) == CHOOSE c \in credits : \A d \in credits : c <= d

(* goToStep: the components of the step that is left are destroyed. *)
GoTo(n) ==
  /\ currentStep' = n
  /\ selected' = IF n = 1 THEN {} ELSE selected
  /\ generating' = Idle

--------------------------------------------------------------------------------
(* The wallet. *)

besideWallet == <<currentStep, selected, selectedCredits, selectedCorridor, paths, generating,
                  proofResult, certResult, submitting, relay>>

(* handleConnect; its button is there while nothing is connected, and      *)
(* disabled while it loads.                                                *)
handleConnect ==
  /\ ~wallet.connected /\ wallet.waits = "no"
  /\ wallet.clicks < MaxConnects
  /\ wallet' = [wallet EXCEPT !.waits = "connect", !.clicks = @ + 1]
  /\ UNCHANGED <<walletAddress, besideWallet>>

(* Freighter gives its key, or it is not there or refuses. *)
Connected ==
  /\ wallet.waits = "connect"
  /\ wallet' \in {[wallet EXCEPT !.connected = TRUE, !.waits = "balance"], [wallet EXCEPT !.waits = "no"]}
  /\ UNCHANGED <<walletAddress, besideWallet>>

(* getXlmBalance ends, with '0' if it fails; onWalletConnected is given    *)
(* the address as it is now: '' when the wallet was disconnected meanwhile. *)
BalanceArrives ==
  /\ wallet.waits = "balance"
  /\ wallet' = [wallet EXCEPT !.waits = "no"]
  /\ walletAddress' = IF wallet.connected THEN "address" ELSE "dev"
  /\ UNCHANGED besideWallet

(* The wizard is not told. *)
handleDisconnect ==
  /\ wallet.connected
  /\ wallet' = [wallet EXCEPT !.connected = FALSE]
  /\ UNCHANGED <<walletAddress, besideWallet>>

--------------------------------------------------------------------------------
(* Step 1. *)

(* loadMerkleProof: the path known so far is dropped and one is asked for; *)
(* without a credit nothing happens.                                       *)
LoadMerkleProof(credits) ==
  IF credits = {} THEN UNCHANGED paths
  ELSE /\ merkleProof' = NoPath
       /\ requested' = [requested EXCEPT ![First(credits)] = @ + 1]
       /\ requested[First(credits)] < MaxRequests

(* toggleSelect, then onCreditsSelected: the portfolio's own selection     *)
(* replaces the wizard's.                                                  *)
ToggleSelect(c) ==
  /\ currentStep = 1
  /\ selected' = IF c \in selected THEN selected \ {c} ELSE selected \cup {c}
  /\ selectedCredits' = selected'
  /\ LoadMerkleProof(selected')
  /\ UNCHANGED <<currentStep, wallet, walletAddress, selectedCorridor, generating,
                 proofResult, certResult, submitting, relay>>

SelectCorridor(k) ==
  /\ currentStep = 1 /\ selectedCredits # {}
  /\ selectedCorridor' = k
  /\ LoadMerkleProof(selectedCredits)
  /\ UNCHANGED <<currentStep, wallet, walletAddress, selected, selectedCredits, generating,
                 proofResult, certResult, submitting, relay>>

(* Mutant: the button ignores the selection. *)
ProceedUnselected ==
  /\ currentStep = 1
  /\ selectedCorridor # NoCorridor
  /\ GoTo(2)
  /\ UNCHANGED <<wallet, walletAddress, selectedCredits, selectedCorridor, paths,
                 proofResult, certResult, submitting, relay>>

Proceed ==
  /\ currentStep = 1
  /\ selectedCredits # {} /\ selectedCorridor # NoCorridor
  /\ GoTo(2)
  /\ UNCHANGED <<wallet, walletAddress, selectedCredits, selectedCorridor, paths,
                 proofResult, certResult, submitting, relay>>

(* A Merkle proof arrives, whatever is selected by now; or its request     *)
(* fails and only an error is shown.                                       *)
PathArrives(c) ==
  /\ requested[c] > 0
  /\ requested' = [requested EXCEPT ![c] = @ - 1]
  /\ merkleProof' \in {c, merkleProof}
  /\ UNCHANGED <<currentStep, selection, generating, proofResult, certResult, submitting, relay>>

--------------------------------------------------------------------------------
(* Step 2. *)

(* proofInputs: of the first credit alone, with zeros for a missing path. *)
ProofInputs ==
  [nullifier |-> <<walletAddress, First(selectedCredits), selectedCorridor>>,
   path |-> merkleProof]

(* generate() waits for NoirService.initialize, then reads its inputs. *)
Generate ==
  /\ currentStep = 2 /\ generating = Idle
  /\ generating' = [waits |-> "initialize"]
  /\ UNCHANGED <<currentStep, selection, paths, proofResult, certResult, submitting, relay>>

Initialized ==
  /\ generating.waits = "initialize"
  /\ generating' = [waits |-> "prove", inputs |-> ProofInputs]
  /\ UNCHANGED <<currentStep, selection, paths, proofResult, certResult, submitting, relay>>

(* What the circuit asserts of its inputs: inclusion and the two minima. *)
CircuitAccepts(inputs) ==
  LET credit == inputs.nullifier[2]
      corridor == inputs.nullifier[3]
  IN  inputs.path = credit /\ <<credit, corridor>> \in Eligible

(* Mutant: the inclusion check is missing. *)
Proves(inputs) == RealProver /\ <<inputs.nullifier[2], inputs.nullifier[3]>> \in Eligible

(* generateRetirementProof: a proof that cannot be made is simulated. *)
Provable(inputs) == RealProver /\ CircuitAccepts(inputs)

Proved ==
  /\ generating.waits = "prove"
  /\ generating' = Idle
  /\ proofResult' = [nullifier |-> generating.inputs.nullifier, path |-> generating.inputs.path,
                     real |-> Provable(generating.inputs)]
  /\ UNCHANGED <<currentStep, selection, paths, certResult, submitting, relay>>

Review ==
  /\ currentStep = 2 /\ proofResult # NoProof
  /\ GoTo(3)
  /\ UNCHANGED <<wallet, walletAddress, selectedCredits, selectedCorridor, paths,
                 proofResult, certResult, submitting, relay>>

Back ==
  /\ currentStep \in {2, 3}
  /\ GoTo(currentStep - 1)
  /\ UNCHANGED <<wallet, walletAddress, selectedCredits, selectedCorridor, paths,
                 proofResult, certResult, submitting, relay>>

--------------------------------------------------------------------------------
(* Step 3. *)

(* Mutant: the button is not disabled while a submission is under way. *)
SubmitAgain ==
  /\ currentStep = 3 /\ proofResult # NoProof
  /\ submits < MaxSubmits /\ submits' = submits + 1
  /\ submitting' = TRUE
  /\ posts' = Append(posts, proofResult)
  /\ UNCHANGED <<currentStep, selection, paths, generating, proofResult, certResult, used>>

Submit ==
  /\ currentStep = 3 /\ proofResult # NoProof
  /\ ~submitting
  /\ submits < MaxSubmits /\ submits' = submits + 1
  /\ submitting' = TRUE
  /\ posts' = Append(posts, proofResult)
  /\ UNCHANGED <<currentStep, selection, paths, generating, proofResult, certResult, used>>

(* The backend's relay, seen from here: a new nullifier may be retired and *)
(* answered as verified; any other answer is an error, after which the     *)
(* nullifier may be retired all the same.                                  *)
Verified(i) ==
  /\ posts[i].nullifier \notin used
  /\ used' = used \cup {posts[i].nullifier}
  /\ certResult' = posts[i].nullifier
  /\ GoTo(4)

NotVerified(i) ==
  /\ used' \in {used, used \cup {posts[i].nullifier}}
  /\ UNCHANGED <<currentStep, selected, generating, certResult>>

(* Mutant: no finally. *)
AnsweredWithoutFinally(i) ==
  /\ posts' = [k \in 1..(Len(posts) - 1) |-> posts[IF k < i THEN k ELSE k + 1]]
  /\ \/ Verified(i) /\ submitting' = FALSE
     \/ NotVerified(i) /\ UNCHANGED submitting
  /\ UNCHANGED <<wallet, walletAddress, selectedCredits, selectedCorridor, paths, proofResult, submits>>

Answered(i) ==
  /\ posts' = [k \in 1..(Len(posts) - 1) |-> posts[IF k < i THEN k ELSE k + 1]]
  /\ Verified(i) \/ NotVerified(i)
  /\ submitting' = FALSE
  /\ UNCHANGED <<wallet, walletAddress, selectedCredits, selectedCorridor, paths, proofResult, submits>>

(* Mutant: the step alone is reset. *)
ResetStep ==
  /\ currentStep = 4
  /\ GoTo(1)
  /\ selectedCredits' = {} /\ selectedCorridor' = NoCorridor
  /\ UNCHANGED <<wallet, walletAddress, paths, proofResult, certResult, submitting, relay>>

(* "Retire More Credits"; the Merkle proof and its requests stay. *)
Reset ==
  /\ currentStep = 4
  /\ GoTo(1)
  /\ selectedCredits' = {} /\ selectedCorridor' = NoCorridor
  /\ proofResult' = NoProof /\ certResult' = NoCertificate
  /\ UNCHANGED <<wallet, walletAddress, paths, submitting, relay>>

Next ==
  \/ handleConnect \/ Connected \/ BalanceArrives \/ handleDisconnect
  \/ \E c \in Credit : ToggleSelect(c) \/ PathArrives(c)
  \/ \E k \in Corridor : SelectCorridor(k)
  \/ Proceed \/ Generate \/ Initialized \/ Proved \/ Review \/ Back \/ Submit \/ Reset
  \/ \E i \in DOMAIN posts : Answered(i)

Spec == Init /\ [][Next]_vars

(* The HTTP client ends every request with an answer or an error. *)
FairSpec == Spec /\ WF_vars(\E i \in DOMAIN posts : Answered(i))

--------------------------------------------------------------------------------
(* Properties. *)

(* Going back and forth does not submit twice: one POST at a time, and the *)
(* flag that disables the button tells of it.                              *)
OnePostAtATime == Len(posts) = (IF submitting THEN 1 ELSE 0)

(* A certificate shown is of a nullifier retired on the ledger, and        *)
(* nothing of an earlier retirement is left when the next one begins.      *)
CertificateShownIsRetired ==
  certResult # NoCertificate => certResult \in used /\ currentStep = 4

(* Whatever arrives late, a proof that is not simulated has the path of    *)
(* its own credit and meets its corridor's minima.                         *)
RealProofsHold ==
  \A p \in {proofResult} \cup {posts[i] : i \in DOMAIN posts} :
    p # NoProof => (p.real =>
      p.path = p.nullifier[2] /\ <<p.nullifier[2], p.nullifier[3]>> \in Eligible)

(* Every submission ends: the button is enabled again. *)
SubmissionEnds == submitting ~> ~submitting

(* The certificate page shows the selection and the nullifier together:    *)
(* each credit it counts has been retired ("Three retirement certificates  *)
(* minted on Stellar" for three selected credits, README.md:1211).         *)
SelectionIsRetired ==
  currentStep = 4 =>
    \A c \in selectedCredits : \E w \in Wallet : <<w, c, selectedCorridor>> \in used

(* The portfolio marks the credits the wizard will retire. *)
PortfolioShowsSelection == currentStep = 1 => selected = selectedCredits

(* The path used for a proof is that of the credit selected: "Prove:       *)
(* credit was issued by a verified registry" (README.md:106).              *)
PathIsOfSelection ==
  currentStep \in {2, 3} /\ merkleProof # NoPath => merkleProof = First(selectedCredits)

(* The nullifiers the wizard makes are of the wallet it shows. *)
WizardFollowsWallet == ~wallet.connected /\ wallet.waits = "no" => walletAddress = "dev"

(* One credit is retired once: its secret is the wallet's, so that with     *)
(* another wallet, none, or in another corridor it has another nullifier.   *)
CreditIsRetiredOnce == \A m, n \in used : m[2] = n[2] => m = n
================================================================================
