------------------------- MODULE RetirementFlow_proofs -------------------------
(***************************************************************************)
(* What the wizard keeps for any number of credits, corridors, requests    *)
(* and submissions, under every order of clicks and answers.               *)
(***************************************************************************)
EXTENDS RetirementFlow, WellFoundedInduction, TLAPS

(* A set of numbers has a least one. *)
LEMMA LeastNumber ==
  ASSUME NEW T \in SUBSET Nat, T # {}
  PROVE  \E m \in T : \A d \in T : m <= d
<1>. DEFINE less == {s \in Nat \X Nat : s[1] < s[2]}
<1>1. less = OpToRel(<, Nat)
  BY DEF OpToRel
<1>2. IsWellFoundedOn(less, Nat)
  BY <1>1, NatLessThanWellFounded
<1>3. PICK m \in T : \A d \in T : ~(<<d, m>> \in less)
  <2>. HIDE DEF less
  <2>. QED
    BY <1>2, WFMin
<1>4. ASSUME NEW d \in T PROVE m <= d
  <2>1. ~(<<d, m>> \in less) /\ d \in Nat /\ m \in Nat
    BY <1>3
  <2>2. ~(d < m)
    BY <2>1
  <2>. QED
    BY <2>1, <2>2
<1>. QED
  BY <1>4

(* The first credit of a selection is one of it. *)
LEMMA FirstSelected ==
  ASSUME NEW T \in SUBSET Credit, T # {}
  PROVE  First(T) \in T
<1>1. \E m \in T : \A d \in T : m <= d
  BY LeastNumber, FlowAssumption
<1>. QED
  BY <1>1 DEF First

(* An element of a typed sequence is typed. *)
LEMMA ElementTyped ==
  ASSUME NEW S, NEW s \in Seq(S), NEW i \in DOMAIN s
  PROVE  s[i] \in S
OBVIOUS

(* The inductive invariant.  Proving happens in step 2 alone, where there  *)
(* is a selection to prove.                                                *)
FlowInv ==
  /\ FlowTypeOK
  /\ OnePostAtATime
  /\ CertificateShownIsRetired
  /\ RealProofsHold
  /\ generating.waits # "no" => currentStep = 2

(* The wizard starts in it. *)
LEMMA InitFlow == Init => FlowInv
<1>. SUFFICES ASSUME Init PROVE FlowInv
  OBVIOUS
<1>1. requested \in [Credit -> 0..MaxRequests]
  BY FlowAssumption DEF Init
<1>2. posts \in Seq(Proof) /\ Len(posts) = 0 /\ DOMAIN posts = {}
  BY DEF Init
<1>3. FlowTypeOK
  <2>1. /\ wallet \in [connected : BOOLEAN, waits : {"no", "connect", "balance"}, clicks : 0..MaxConnects]
        /\ wallet.waits # "connect"
    BY FlowAssumption DEF Init
  <2>2. generating \in [waits : {"no", "initialize"}]
    BY DEF Init, Idle
  <2>3. walletAddress \in Wallet /\ submits \in 0..MaxSubmits
    BY FlowAssumption DEF Init, Wallet
  <2>4. /\ currentStep = 1
        /\ selected = {} /\ selectedCredits = {} /\ selectedCorridor = NoCorridor
        /\ merkleProof = NoPath /\ proofResult = NoProof /\ certResult = NoCertificate /\ used = {}
    BY DEF Init
  <2>. QED
    <3>1. currentStep \in 1..4
      BY <2>4
    <3>2. submitting \in BOOLEAN
      BY Zenon DEF Init
    <3>3. wallet.waits = "connect" => ~wallet.connected
      BY <2>1
    <3>4. selected \subseteq Credit /\ selectedCredits \subseteq Credit /\ used \subseteq Nullifier
      BY <2>4
    <3>5. currentStep \notin {2, 3} /\ currentStep # 3 /\ currentStep # 4
      BY <2>4
    <3>6. /\ selectedCorridor \in Corridor \cup {NoCorridor} /\ merkleProof \in Credit \cup {NoPath}
          /\ proofResult \in Proof \cup {NoProof} /\ certResult \in Nullifier \cup {NoCertificate}
      BY <2>4
    <3>. QED
      BY <1>1, <1>2, <2>1, <2>2, <2>3, <3>1, <3>2, <3>3, <3>4, <3>5, <3>6, Zenon DEF FlowTypeOK
<1>4. OnePostAtATime
  BY <1>2 DEF Init, OnePostAtATime
<1>5. CertificateShownIsRetired
  BY DEF Init, CertificateShownIsRetired
<1>6. RealProofsHold
  BY <1>2 DEF Init, RealProofsHold
<1>. QED
  BY <1>3, <1>4, <1>5, <1>6 DEF FlowInv, Init, Idle

(* Leaving a step drops what its components were doing. *)
LEMMA GoToTyped ==
  ASSUME FlowTypeOK, NEW n \in 1..4, GoTo(n)
  PROVE  /\ currentStep' = n
         /\ selected' \subseteq Credit
         /\ generating' = [waits |-> "no"]
BY DEF FlowTypeOK, GoTo, Idle

(* Asking for a path keeps the counts of requests. *)
LEMMA LoadTyped ==
  ASSUME FlowTypeOK, NEW T \in SUBSET Credit, LoadMerkleProof(T)
  PROVE  /\ merkleProof' \in Credit \cup {NoPath}
         /\ requested' \in [Credit -> 0..MaxRequests]
<1>1. CASE T = {}
  BY <1>1 DEF LoadMerkleProof, paths, FlowTypeOK
<1>2. CASE T # {}
  <2>1. First(T) \in Credit
    BY <1>2, FirstSelected
  <2>2. requested[First(T)] < MaxRequests /\ requested[First(T)] \in 0..MaxRequests
    BY <1>2, <2>1 DEF LoadMerkleProof, FlowTypeOK
  <2>3. requested[First(T)] + 1 \in 0..MaxRequests
    BY <2>2, FlowAssumption
  <2>. QED
    BY <1>2, <2>1, <2>3 DEF LoadMerkleProof, FlowTypeOK
<1>. QED
  BY <1>1, <1>2

(* The inputs of a proof are well typed once there is a selection. *)
LEMMA InputsTyped ==
  ASSUME FlowTypeOK, selectedCredits # {}, selectedCorridor # NoCorridor
  PROVE  ProofInputs \in Inputs
<1>1. First(selectedCredits) \in Credit
  BY FirstSelected DEF FlowTypeOK
<1>2. <<walletAddress, First(selectedCredits), selectedCorridor>> \in Nullifier
  BY <1>1 DEF FlowTypeOK, Nullifier
<1>. QED
  BY <1>2 DEF FlowTypeOK, ProofInputs, Inputs

(* The wallet's steps keep the invariant: they touch nothing else of it. *)
LEMMA StepWallet ==
  ASSUME FlowInv, handleConnect \/ Connected \/ BalanceArrives \/ handleDisconnect
  PROVE  FlowInv'
<1>. USE DEF FlowInv
<1>1. UNCHANGED besideWallet
  BY DEF handleConnect, Connected, BalanceArrives, handleDisconnect
<1>2. /\ wallet \in [connected : BOOLEAN, waits : {"no", "connect", "balance"}, clicks : 0..MaxConnects]
      /\ wallet.waits = "connect" => ~wallet.connected
      /\ walletAddress \in Wallet
  BY DEF FlowTypeOK
<1>3. /\ wallet' \in [connected : BOOLEAN, waits : {"no", "connect", "balance"}, clicks : 0..MaxConnects]
      /\ wallet'.waits = "connect" => ~wallet'.connected
      /\ walletAddress' \in Wallet
  <2>1. CASE handleConnect
    <3>1. wallet.clicks + 1 \in 0..MaxConnects
      BY <1>2, <2>1, FlowAssumption DEF handleConnect
    <3>2. ~wallet.connected /\ wallet' = [wallet EXCEPT !.waits = "connect", !.clicks = @ + 1]
      BY <2>1 DEF handleConnect
    <3>. QED
      BY <1>2, <2>1, <3>1, <3>2 DEF handleConnect
  <2>2. CASE Connected
    BY <1>2, <2>2 DEF Connected
  <2>3. CASE BalanceArrives
    BY <1>2, <2>3 DEF BalanceArrives, Wallet
  <2>4. CASE handleDisconnect
    BY <1>2, <2>4 DEF handleDisconnect
  <2>. QED
    BY <2>1, <2>2, <2>3, <2>4
<1>4. FlowTypeOK'
  BY <1>1, <1>3 DEF FlowTypeOK, besideWallet, paths, relay
<1>. QED
  BY <1>1, <1>4
     DEF besideWallet, paths, relay, OnePostAtATime, CertificateShownIsRetired, RealProofsHold

(* Selecting in step 1: no proof is under way and nothing is submitted. *)
LEMMA StepSelect ==
  ASSUME FlowInv,
         (\E c \in Credit : ToggleSelect(c)) \/ (\E k \in Corridor : SelectCorridor(k))
  PROVE  FlowInv'
<1>. USE DEF FlowInv
<1>1. /\ currentStep = 1
      /\ UNCHANGED <<currentStep, wallet, walletAddress, generating, proofResult, certResult, submitting, relay>>
  BY DEF ToggleSelect, SelectCorridor
<1>2. /\ selected' \subseteq Credit /\ selectedCredits' \subseteq Credit
      /\ selectedCorridor' \in Corridor \cup {NoCorridor}
      /\ merkleProof' \in Credit \cup {NoPath} /\ requested' \in [Credit -> 0..MaxRequests]
  <2>1. ASSUME NEW c \in Credit, ToggleSelect(c) PROVE <1>2!:
    BY <2>1, LoadTyped DEF ToggleSelect, FlowTypeOK
  <2>2. ASSUME NEW k \in Corridor, SelectCorridor(k) PROVE <1>2!:
    BY <2>2, LoadTyped DEF SelectCorridor, FlowTypeOK
  <2>. QED
    BY <2>1, <2>2
<1>3. FlowTypeOK'
  BY <1>1, <1>2 DEF FlowTypeOK, relay
<1>. QED
  BY <1>1, <1>3 DEF relay, OnePostAtATime, CertificateShownIsRetired, RealProofsHold

(* A path arrives, or its request fails: a proof that is being made keeps  *)
(* the path it was begun with.                                             *)
LEMMA StepPath ==
  ASSUME FlowInv, NEW c \in Credit, PathArrives(c)
  PROVE  FlowInv'
<1>. USE DEF FlowInv
<1>1. UNCHANGED <<currentStep, selection, generating, proofResult, certResult, submitting, relay>>
  BY DEF PathArrives
<1>2. merkleProof' \in Credit \cup {NoPath}
  BY DEF PathArrives, FlowTypeOK
<1>3. requested[c] - 1 \in 0..MaxRequests
  BY FlowAssumption DEF PathArrives, FlowTypeOK
<1>4. requested' \in [Credit -> 0..MaxRequests]
  BY <1>3 DEF PathArrives, FlowTypeOK
<1>5. FlowTypeOK'
  BY <1>1, <1>2, <1>4 DEF FlowTypeOK, selection, relay
<1>. QED
  BY <1>1, <1>5 DEF relay, OnePostAtATime, CertificateShownIsRetired, RealProofsHold

(* Going from step to step keeps the invariant: each button is there when  *)
(* the next step has its data.                                             *)
LEMMA StepMoves ==
  ASSUME FlowInv, Proceed \/ Review \/ Back
  PROVE  FlowInv'
<1>. USE DEF FlowInv
<1>1. UNCHANGED <<wallet, walletAddress, selectedCredits, selectedCorridor, paths,
                  proofResult, certResult, submitting, relay>>
  BY DEF Proceed, Review, Back
<1>2. PICK n \in {1, 2, 3} :
        /\ GoTo(n)
        /\ n \in {2, 3} => selectedCredits # {} /\ selectedCorridor # NoCorridor
        /\ n = 3 => proofResult # NoProof
  BY DEF Proceed, Review, Back, FlowTypeOK
<1>3. /\ currentStep' = n /\ selected' \subseteq Credit /\ generating' = [waits |-> "no"]
  BY <1>2, GoToTyped
<1>4. generating' \in [waits : {"no", "initialize"}] /\ generating'.waits = "no"
  BY <1>3
<1>5. FlowTypeOK'
  BY <1>1, <1>2, <1>3, <1>4 DEF FlowTypeOK, paths, relay
<1>6. certResult = NoCertificate
  BY DEF CertificateShownIsRetired, Proceed, Review, Back
<1>. QED
  BY <1>1, <1>4, <1>5, <1>6 DEF relay, OnePostAtATime, CertificateShownIsRetired, RealProofsHold

(* Making a proof: it is real only if the circuit accepts its inputs.      *)
LEMMA StepProve ==
  ASSUME FlowInv, Generate \/ Initialized \/ Proved
  PROVE  FlowInv'
<1>. USE DEF FlowInv
<1>1. UNCHANGED <<currentStep, selection, paths, certResult, submitting, relay>>
  BY DEF Generate, Initialized, Proved
<1>2. currentStep = 2 /\ selectedCredits # {} /\ selectedCorridor # NoCorridor
  <2>1. currentStep = 2
    BY DEF Generate, Initialized, Proved
  <2>. QED
    BY <2>1 DEF FlowTypeOK
<1>3. /\ generating' \in [waits : {"no", "initialize"}] \cup [waits : {"prove"}, inputs : Inputs]
      /\ proofResult' \in Proof \cup {NoProof}
      /\ proofResult' # NoProof => (proofResult'.real =>
           /\ proofResult'.path = proofResult'.nullifier[2]
           /\ <<proofResult'.nullifier[2], proofResult'.nullifier[3]>> \in Eligible)
  <2>1. CASE Generate
    BY <2>1 DEF Generate, FlowTypeOK, RealProofsHold
  <2>2. CASE Initialized
    BY <1>2, <2>2, InputsTyped DEF Initialized, FlowTypeOK, RealProofsHold
  <2>3. CASE Proved
    <3>1. generating.inputs \in Inputs
      BY <2>3 DEF Proved, FlowTypeOK
    <3>2. Provable(generating.inputs) \in BOOLEAN
      BY FlowAssumption DEF Provable, CircuitAccepts
    <3>3. proofResult' = [nullifier |-> generating.inputs.nullifier, path |-> generating.inputs.path,
                          real |-> Provable(generating.inputs)]
      BY <2>3 DEF Proved
    <3>4. proofResult' \in Proof
      BY <3>1, <3>2, <3>3 DEF Inputs, Proof
    <3>5. generating' \in [waits : {"no", "initialize"}]
      BY <2>3 DEF Proved, Idle
    <3>6. proofResult'.real =>
            /\ proofResult'.path = proofResult'.nullifier[2]
            /\ <<proofResult'.nullifier[2], proofResult'.nullifier[3]>> \in Eligible
      BY <3>3 DEF Provable, CircuitAccepts
    <3>. QED
      BY <3>4, <3>5, <3>6
  <2>. QED
    BY <2>1, <2>2, <2>3
<1>4. FlowTypeOK'
  BY <1>1, <1>2, <1>3 DEF FlowTypeOK, selection, paths, relay
<1>5. RealProofsHold'
  BY <1>1, <1>3 DEF RealProofsHold, relay
<1>. QED
  BY <1>1, <1>2, <1>4, <1>5 DEF relay, OnePostAtATime, CertificateShownIsRetired

(* A submission: the flag is set, and nothing else was in flight. *)
LEMMA StepSubmit ==
  ASSUME FlowInv, Submit
  PROVE  FlowInv'
<1>. USE DEF FlowInv
<1>1. /\ currentStep = 3 /\ proofResult \in Proof /\ ~submitting
      /\ submits < MaxSubmits /\ submits' = submits + 1 /\ submitting' = TRUE
      /\ posts' = Append(posts, proofResult)
      /\ UNCHANGED <<currentStep, selection, paths, generating, proofResult, certResult, used>>
  BY DEF Submit, FlowTypeOK
<1>2. posts \in Seq(Proof) /\ Len(posts) = 0
  BY <1>1 DEF FlowTypeOK, OnePostAtATime
<1>3. posts' \in Seq(Proof) /\ Len(posts') = 1 /\ DOMAIN posts' = {1} /\ posts'[1] = proofResult
  BY <1>1, <1>2
<1>4. submits' \in 0..MaxSubmits
  BY <1>1, FlowAssumption DEF FlowTypeOK
<1>5. FlowTypeOK'
  BY <1>1, <1>3, <1>4 DEF FlowTypeOK, selection, paths
<1>6. RealProofsHold'
  BY <1>1, <1>3 DEF RealProofsHold
<1>. QED
  BY <1>1, <1>3, <1>5, <1>6 DEF OnePostAtATime, CertificateShownIsRetired

(* The answer to a submission, wherever the wizard is by now. *)
LEMMA StepAnswered ==
  ASSUME FlowInv, NEW i \in DOMAIN posts, Answered(i)
  PROVE  FlowInv'
<1>. USE DEF FlowInv
<1>1. /\ Verified(i) \/ NotVerified(i)
      /\ submitting' = FALSE
      /\ UNCHANGED <<wallet, walletAddress, selectedCredits, selectedCorridor, paths, proofResult, submits>>
  BY DEF Answered
<1>2. posts \in Seq(Proof) /\ Len(posts) = 1
  BY DEF FlowTypeOK, OnePostAtATime
<1>3. posts[i].nullifier \in Nullifier
  <2>1. posts[i] \in Proof
    BY <1>2, ElementTyped
  <2>. QED
    BY <2>1 DEF Proof
<1>4. posts' \in Seq(Proof) /\ Len(posts') = 0 /\ DOMAIN posts' = {}
  <2>1. posts' = <<>>
    BY <1>2 DEF Answered
  <2>. QED
    BY <2>1
<1>5. /\ currentStep' \in 1..4 /\ selected' \subseteq Credit /\ used' \subseteq Nullifier
      /\ currentStep' = currentStep \/ currentStep' = 4
      /\ generating' \in [waits : {"no", "initialize"}] \cup [waits : {"prove"}, inputs : Inputs]
      /\ generating'.waits # "no" => currentStep' = 2
      /\ certResult' \in Nullifier \cup {NoCertificate}
      /\ currentStep' = 4 => certResult' # NoCertificate
      /\ certResult' # NoCertificate => certResult' \in used' /\ currentStep' = 4
  <2>1. CASE Verified(i)
    <3>1. currentStep' = 4 /\ selected' \subseteq Credit /\ generating' = [waits |-> "no"]
      BY <2>1, GoToTyped DEF Verified
    <3>2. generating' \in [waits : {"no", "initialize"}] /\ generating'.waits = "no"
      BY <3>1
    <3>. QED
      BY <1>3, <2>1, <3>1, <3>2, AbsentAssumption DEF Verified, FlowTypeOK
  <2>2. CASE NotVerified(i)
    BY <1>3, <2>2 DEF NotVerified, FlowTypeOK, CertificateShownIsRetired
  <2>. QED
    BY <1>1, <2>1, <2>2
<1>6. submitting' \in BOOLEAN
  BY <1>1, Zenon
<1>7. currentStep' \in {2, 3} => selectedCredits' # {} /\ selectedCorridor' # NoCorridor
  BY <1>1, <1>5 DEF FlowTypeOK
<1>8. currentStep' = 3 => proofResult' # NoProof
  BY <1>1, <1>5 DEF FlowTypeOK
<1>9. FlowTypeOK'
  BY <1>1, <1>4, <1>5, <1>6, <1>7, <1>8, Zenon DEF FlowTypeOK, paths
<1>10. RealProofsHold'
  BY <1>1, <1>4 DEF RealProofsHold
<1>. QED
  BY <1>1, <1>4, <1>5, <1>9, <1>10 DEF OnePostAtATime, CertificateShownIsRetired

(* "Retire More Credits" leaves no certificate and no proof behind. *)
LEMMA StepReset ==
  ASSUME FlowInv, Reset
  PROVE  FlowInv'
<1>. USE DEF FlowInv
<1>1. /\ GoTo(1)
      /\ selectedCredits' = {} /\ selectedCorridor' = NoCorridor
      /\ proofResult' = NoProof /\ certResult' = NoCertificate
      /\ UNCHANGED <<wallet, walletAddress, paths, submitting, relay>>
  BY DEF Reset
<1>2. currentStep' = 1 /\ selected' \subseteq Credit /\ generating' = [waits |-> "no"]
  BY <1>1, GoToTyped
<1>3. generating' \in [waits : {"no", "initialize"}] /\ generating'.waits = "no"
  BY <1>2
<1>4. FlowTypeOK'
  BY <1>1, <1>2, <1>3 DEF FlowTypeOK, paths, relay
<1>. QED
  BY <1>1, <1>3, <1>4 DEF relay, OnePostAtATime, CertificateShownIsRetired, RealProofsHold

(* Every click and every answer keeps the invariant. *)
LEMMA StepFlow == FlowInv /\ [Next]_vars => FlowInv'
<1>. SUFFICES ASSUME FlowInv, [Next]_vars PROVE FlowInv'
  OBVIOUS
<1>1. CASE Next
  BY <1>1, StepWallet, StepSelect, StepPath, StepMoves, StepProve, StepSubmit, StepAnswered,
     StepReset
     DEF Next
<1>2. CASE UNCHANGED vars
  <2>1. FlowTypeOK'
    BY <1>2 DEF vars, selection, paths, relay, FlowInv, FlowTypeOK
  <2>2. OnePostAtATime' /\ CertificateShownIsRetired'
    BY <1>2 DEF vars, selection, paths, relay, FlowInv, OnePostAtATime, CertificateShownIsRetired
  <2>3. RealProofsHold'
    BY <1>2 DEF vars, selection, paths, relay, FlowInv, RealProofsHold
  <2>4. (generating.waits # "no" => currentStep = 2)'
    BY <1>2 DEF vars, selection, paths, relay, FlowInv
  <2>. QED
    BY <2>1, <2>2, <2>3, <2>4 DEF FlowInv
<1>. QED
  BY <1>1, <1>2

(* The invariant holds of the wizard at all times. *)
LEMMA FlowInvariant == Spec => []FlowInv
BY InitFlow, StepFlow, PTL DEF Spec

(* Every step of the wizard always has the data its panel shows, whenever  *)
(* the answer to a submission moves it on.                                 *)
THEOREM StepsTyped == Spec => []FlowTypeOK
<1>1. FlowInv => FlowTypeOK
  BY DEF FlowInv
<1>. QED
  BY <1>1, FlowInvariant, PTL

(* Going back and forth never has two submissions in flight. *)
THEOREM SubmitsOnce == Spec => []OnePostAtATime
<1>1. FlowInv => OnePostAtATime
  BY DEF FlowInv
<1>. QED
  BY <1>1, FlowInvariant, PTL

(* A certificate shown is of a nullifier retired on the ledger, and is     *)
(* gone when the next retirement begins.                                   *)
THEOREM CertificateShown == Spec => []CertificateShownIsRetired
<1>1. FlowInv => CertificateShownIsRetired
  BY DEF FlowInv
<1>. QED
  BY <1>1, FlowInvariant, PTL

(* Whatever path arrives late, a proof that is not simulated has the path  *)
(* of its own credit and meets its corridor's minima.                      *)
THEOREM RealProofs == Spec => []RealProofsHold
<1>1. FlowInv => RealProofsHold
  BY DEF FlowInv
<1>. QED
  BY <1>1, FlowInvariant, PTL
================================================================================
