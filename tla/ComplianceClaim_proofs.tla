------------------------ MODULE ComplianceClaim_proofs ------------------------
(***************************************************************************)
(* What claims keep for any number of pages, companies, periods,           *)
(* retirements and attempts, whatever fails or is restarted.               *)
(***************************************************************************)
EXTENDS ComplianceClaim, MerkleTree_proofs, TLAPS

Stage == {"new", "checking", "claim", "proving", "relayed", "lookup", "insert", "certify",
          "compliant", "refused", "failed", "over"}
HasInputs == {"proving", "relayed", "lookup", "insert", "certify", "compliant"}
HasPosted == {"relayed", "lookup", "insert", "certify", "compliant"}

Clicked == [nullifiers : Seq(Nat), volumes : Seq(Nat), secret : Secret, period : Period]

(* The nullifiers found are those looked up, in their order, without those *)
(* not found.                                                              *)
ClaimSoFar(a) ==
  /\ checked[a] \in Nat /\ claim[a] \in Seq(Nat) /\ Len(claim[a]) <= checked[a]
  /\ pc[a] # "new" =>
       /\ request[a] \in Clicked
       /\ checked[a] <= Len(request[a].nullifiers)
       /\ pc[a] = "checking" => checked[a] < Len(request[a].nullifiers)
       /\ Len(claim[a]) = checked[a] => \A i \in 1..checked[a] : claim[a][i] = request[a].nullifiers[i]

(* The circuit's inputs are of the claim and of the request. *)
InputsMatch(a) ==
  /\ inputs[a].volumes = VolumesFor(request[a].volumes, Len(claim[a]))
  /\ inputs[a].complianceNullifier = computeComplianceNullifier(request[a].secret, request[a].period)

HasCertificate(a) ==
  \E i \in DOMAIN certificates :
    certificates[i].attempt = a /\ certificates[i].nullifier = inputs[a].complianceNullifier

(* An attempt's data are those of its stage. *)
AttemptOK(a) ==
  /\ a > attempts => pc[a] = "new"
  /\ pc[a] = "new" => checked[a] = 0 /\ claim[a] = <<>>
  /\ ClaimSoFar(a)
  /\ inputs[a] # Nothing \/ pc[a] \in HasInputs => InputsMatch(a)
  /\ pc[a] \in {"new", "checking", "claim"} => inputs[a] = Nothing
  /\ pc[a] \in HasPosted => posted[a].nullifier = inputs[a].complianceNullifier /\ posted[a].period \in Period
  /\ pc[a] = "certify" => posted[a].nullifier \in dbNullifiers
  /\ pc[a] = "compliant" => HasCertificate(a)

(* What is stored, and every certificate's nullifier is. *)
StoresOK ==
  /\ retired \subseteq Retirement
  /\ usedNullifiers \subseteq Nullifier /\ dbNullifiers \subseteq Nullifier
  /\ certificates \in Seq([attempt : Attempt, period : Period, nullifier : ComplianceNullifier])
  /\ Certified \subseteq dbNullifiers

AttemptsTyped ==
  /\ attempts \in 0..MaxAttempts
  /\ pc \in [Attempt -> Stage] /\ checked \in [Attempt -> Nat] /\ claim \in [Attempt -> Seq(Nat)]
  /\ DOMAIN request = Attempt /\ DOMAIN inputs = Attempt /\ DOMAIN posted = Attempt

PagesTyped ==
  waitsFor \in [Page -> Attempt \cup {NoAttempt}] /\ success \in [Page -> Attempt \cup {NoAttempt}]

PagesOK ==
  \A p \in Page : success[p] # NoAttempt => pc[success[p]] = "over" /\ HasCertificate(success[p])

(* The inductive invariant. *)
ClaimInv ==
  /\ StoresOK /\ AttemptsTyped /\ PagesTyped /\ PagesOK
  /\ \A a \in Attempt : AttemptOK(a)

--------------------------------------------------------------------------------
(* Steps of one attempt. *)

(* A sequence with one more element. *)
LEMMA AppendedIs ==
  ASSUME NEW S, NEW s \in Seq(S), NEW e \in S
  PROVE  /\ Append(s, e) \in Seq(S) /\ Len(Append(s, e)) = Len(s) + 1
         /\ Append(s, e)[Len(s) + 1] = e /\ \A i \in 1..Len(s) : Append(s, e)[i] = s[i]
  OBVIOUS

Frame(a) ==
  \A b \in Attempt \ {a} :
    /\ pc'[b] = pc[b] /\ request'[b] = request[b] /\ checked'[b] = checked[b]
    /\ claim'[b] = claim[b] /\ inputs'[b] = inputs[b] /\ posted'[b] = posted[b]

CertificatesGrow ==
  \A i \in DOMAIN certificates : i \in DOMAIN certificates' /\ certificates'[i] = certificates[i]

(* The other attempts are as they were. *)
LEMMA OthersOK ==
  ASSUME ClaimInv, NEW a \in Attempt, Frame(a), attempts' \in {attempts, attempts + 1},
         dbNullifiers \subseteq dbNullifiers', CertificatesGrow, NEW b \in Attempt, b # a
  PROVE  AttemptOK(b)'
  <1>1. /\ pc'[b] = pc[b] /\ request'[b] = request[b] /\ checked'[b] = checked[b]
        /\ claim'[b] = claim[b] /\ inputs'[b] = inputs[b] /\ posted'[b] = posted[b]
    BY DEF Frame
  <1>2. AttemptOK(b)
    BY DEF ClaimInv
  <1>3. b > attempts' => b > attempts
    BY ClaimAssumption DEF ClaimInv, AttemptsTyped, Attempt
  <1>4. HasCertificate(b) => HasCertificate(b)'
    BY <1>1 DEF HasCertificate, CertificatesGrow
  <1>5. ClaimSoFar(b)'
    BY <1>1, <1>2 DEF AttemptOK, ClaimSoFar
  <1>6. InputsMatch(b) => InputsMatch(b)'
    BY <1>1 DEF InputsMatch
  <1>7. QED
    BY <1>1, <1>2, <1>3, <1>4, <1>5, <1>6 DEF AttemptOK

(* An attempt that is not over takes a step. *)
LEMMA AttemptSteps ==
  ASSUME ClaimInv, NEW a \in Attempt, pc[a] # "over", Frame(a), attempts' \in {attempts, attempts + 1},
         dbNullifiers \subseteq dbNullifiers', CertificatesGrow,
         StoresOK', AttemptsTyped', PagesTyped', AttemptOK(a)',
         \A p \in Page :
           success'[p] \in {success[p], NoAttempt} \/ (success'[p] = a /\ pc'[a] = "over" /\ HasCertificate(a)')
  PROVE  ClaimInv'
  <1>1. \A b \in Attempt : AttemptOK(b)'
    BY OthersOK
  <1>2. ASSUME NEW p \in Page, NEW b, b = success'[p], b # NoAttempt
        PROVE  pc'[b] = "over" /\ HasCertificate(b)'
    <2>1. CASE b = success[p]
      <3>1. b \in Attempt /\ pc[b] = "over" /\ HasCertificate(b) /\ b # a
        BY <1>2, <2>1 DEF ClaimInv, PagesTyped, PagesOK
      <3>2. pc'[b] = "over" /\ inputs'[b] = inputs[b]
        BY <3>1 DEF Frame
      <3>3. HasCertificate(b)'
        BY <3>1, <3>2 DEF HasCertificate, CertificatesGrow
      <3>4. QED
        BY <3>2, <3>3
    <2>2. CASE b = a /\ pc'[a] = "over" /\ HasCertificate(a)'
      BY <2>2
    <2>3. QED
      BY <1>2, <2>1, <2>2
  <1>3. PagesOK'
    BY <1>2 DEF PagesOK, HasCertificate
  <1>4. QED
    BY <1>1, <1>3 DEF ClaimInv

(* A compliance nullifier is one of a company and a period. *)
LEMMA NullifierTyped ==
  ASSUME ClaimInv, NEW a \in Attempt, pc[a] \in HasPosted
  PROVE  posted[a].nullifier \in ComplianceNullifier /\ posted[a].period \in Period
  <1>1. AttemptOK(a) /\ pc[a] \in HasInputs /\ pc[a] # "new"
    BY DEF ClaimInv, HasPosted, HasInputs
  <1>2. request[a].secret \in Secret /\ request[a].period \in Period
    BY <1>1 DEF AttemptOK, ClaimSoFar, Clicked
  <1>3. QED
    BY <1>1, <1>2 DEF AttemptOK, InputsMatch, ComplianceNullifier

(* A step that changes an attempt's stage and neither stores nor pages. *)
LEMMA StageMoves ==
  ASSUME ClaimInv, NEW a \in Attempt, NEW stage \in Stage, Goto(a, stage)
  PROVE  pc'[a] = stage /\ (\A b \in Attempt \ {a} : pc'[b] = pc[b]) /\ pc' \in [Attempt -> Stage]
  BY DEF ClaimInv, AttemptsTyped, Goto

--------------------------------------------------------------------------------
(* Steps. *)

(* The pages and the backend start in the invariant. *)
LEMMA InitClaims == Init => ClaimInv
  <1> SUFFICES ASSUME Init PROVE ClaimInv
    OBVIOUS
  <1>1. StoresOK
    <2>1. Certified = {}
      BY DEF Init, Certified
    <2>2. QED
      BY <2>1 DEF Init, StoresOK
  <1>2. AttemptsTyped
    <2>1. 0 \in 0..MaxAttempts /\ "new" \in Stage /\ <<>> \in Seq(Nat)
      BY ClaimAssumption DEF Stage
    <2>2. QED
      BY <2>1 DEF Init, AttemptsTyped
  <1>3. PagesTyped /\ PagesOK
    BY DEF Init, PagesTyped, PagesOK
  <1>4. ASSUME NEW a \in Attempt PROVE AttemptOK(a)
    <2>1. pc[a] = "new" /\ checked[a] = 0 /\ claim[a] = <<>> /\ inputs[a] = Nothing
      BY DEF Init
    <2>2. ClaimSoFar(a)
      BY <2>1 DEF ClaimSoFar
    <2>3. QED
      BY <2>1, <2>2 DEF AttemptOK, HasInputs, HasPosted
  <1>5. QED
    BY <1>1, <1>2, <1>3, <1>4 DEF ClaimInv

(* What no step of an attempt's handling or of its page changes. *)
LEMMA StoresKept ==
  ASSUME ClaimInv, UNCHANGED <<retired, usedNullifiers, dbNullifiers, certificates>>
  PROVE  StoresOK' /\ CertificatesGrow /\ dbNullifiers \subseteq dbNullifiers'
  BY DEF ClaimInv, StoresOK, Certified, CertificatesGrow

(* A click on Generate keeps the invariant. *)
LEMMA ClickKeeps ==
  ASSUME ClaimInv, NEW p \in Page, NEW form \in Form, NEW secret \in Secret, NEW period \in Period,
         Click(p, form, secret, period)
  PROVE  ClaimInv'
  <1>1. PICK a \in Attempt : a = attempts + 1 /\ attempts' = a
    BY ClaimAssumption DEF Click, ClaimInv, AttemptsTyped, Attempt
  <1>2. AttemptOK(a) /\ pc[a] = "new" /\ checked[a] = 0 /\ claim[a] = <<>> /\ inputs[a] = Nothing
    <2>1. AttemptOK(a) /\ a > attempts
      BY <1>1, ClaimAssumption DEF ClaimInv, AttemptsTyped
    <2>2. QED
      BY <2>1 DEF AttemptOK
  <1>3. /\ pc'[a] = "checking" /\ pc' \in [Attempt -> Stage] /\ DOMAIN request' = Attempt
        /\ request'[a] = [nullifiers |-> form.nullifiers, volumes |-> form.volumes,
                          secret |-> secret, period |-> period]
        /\ Frame(a)
    BY <1>1 DEF Click, Goto, ClaimInv, AttemptsTyped, Stage, Frame
  <1>4. StoresOK' /\ CertificatesGrow /\ dbNullifiers \subseteq dbNullifiers'
    BY StoresKept DEF Click, backend
  <1>5. AttemptsTyped'
    BY <1>1, <1>3, ClaimAssumption DEF Click, ClaimInv, AttemptsTyped, Attempt
  <1>6. PagesTyped' /\ \A q \in Page : success'[q] \in {success[q], NoAttempt}
    BY <1>1 DEF Click, ClaimInv, PagesTyped
  <1>7. UNCHANGED <<checked, claim, inputs, posted>>
    BY DEF Click
  <1>8. ClaimSoFar(a)'
    <2>1. form \in [nullifiers : Seq(Nat), volumes : Seq(Nat)] /\ form.nullifiers # <<>>
      BY ClaimAssumption DEF Click
    <2>2. request'[a] \in Clicked /\ request'[a].nullifiers = form.nullifiers
      BY <1>3, <2>1 DEF Clicked
    <2>3. Len(form.nullifiers) \in Nat /\ 0 < Len(form.nullifiers)
      BY <2>1
    <2>4. checked'[a] = 0 /\ claim'[a] = <<>>
      BY <1>2, <1>7
    <2>5. QED
      BY <1>3, <2>2, <2>3, <2>4 DEF ClaimSoFar
  <1>9. AttemptOK(a)'
    <2>1. ~(a > attempts')
      BY <1>1 DEF Attempt
    <2>2. QED
      BY <1>2, <1>3, <1>7, <1>8, <2>1 DEF AttemptOK, HasInputs, HasPosted
  <1>10. QED
    BY <1>1, <1>2, <1>3, <1>4, <1>5, <1>6, <1>9, AttemptSteps

(* One more nullifier is looked up. *)
LEMMA CheckNextKeeps ==
  ASSUME ClaimInv, NEW a \in Attempt, CheckNext(a)
  PROVE  ClaimInv'
  <1>1. AttemptOK(a) /\ pc[a] = "checking" /\ ClaimSoFar(a) /\ inputs[a] = Nothing
    BY DEF CheckNext, ClaimInv, AttemptOK
  <1>2. PICK m \in Nat, s \in Seq(Nat), given \in Seq(Nat) :
             /\ m = checked[a] /\ s = claim[a] /\ given = request[a].nullifiers
             /\ Len(s) <= m /\ m < Len(given)
             /\ Len(s) = m => \A i \in 1..m : s[i] = given[i]
    BY <1>1 DEF ClaimSoFar, Clicked
  <1>3. PICK n \in Nat : n = given[m + 1]
    BY <1>2
  <1>4. PICK found \in BOOLEAN :
             /\ claim' = [claim EXCEPT ![a] = Verified(a, n, found)]
             /\ usedNullifiers' = IF found THEN usedNullifiers \cup {n} ELSE usedNullifiers
             /\ found => n \in usedNullifiers \cup dbNullifiers \cup retired
    <2> DEFINE Outcome == IF n \in usedNullifiers \cup dbNullifiers THEN {TRUE} ELSE {FALSE, (n \in retired)}
    <2>0. request[a].nullifiers[checked[a] + 1] = n
      BY <1>2, <1>3
    <2>1. PICK found \in Outcome :
               /\ claim' = [claim EXCEPT ![a] = Verified(a, n, found)]
               /\ usedNullifiers' = IF found THEN usedNullifiers \cup {n} ELSE usedNullifiers
      BY <2>0, Zenon DEF CheckNext
    <2>2. CASE n \in usedNullifiers \cup dbNullifiers
      <3>1. found = TRUE
        BY <2>1, <2>2, Zenon
      <3>2. QED
        BY <2>1, <2>2, <3>1, Zenon
    <2>3. CASE n \notin usedNullifiers \cup dbNullifiers
      <3>1. found = FALSE \/ found = (n \in retired)
        BY <2>1, <2>3, Zenon
      <3>2. n \notin retired => (n \in retired) = FALSE
        BY SMT
      <3>3. n \in retired => (n \in retired) = TRUE
        BY Zenon
      <3>4. found = FALSE \/ (found = TRUE /\ n \in retired)
        BY <3>1, <3>2, <3>3, Zenon
      <3>5. CASE found = FALSE
        BY <2>1, <3>5, Zenon
      <3>6. CASE found = TRUE /\ n \in retired
        BY <2>1, <3>6, Zenon
      <3>7. QED
        BY <3>4, <3>5, <3>6
    <2>4. QED
      BY <2>2, <2>3
  <1>5. PICK stage \in {"claim", "checking"} :
             Goto(a, stage) /\ (stage = "checking" => m + 1 # Len(given)) /\ stage \in Stage
    <2>1. Goto(a, IF m + 1 = Len(given) THEN "claim" ELSE "checking")
      BY <1>2 DEF CheckNext
    <2>2. CASE m + 1 = Len(given)
      BY <2>1, <2>2 DEF Stage
    <2>3. CASE m + 1 # Len(given)
      BY <2>1, <2>3 DEF Stage
    <2>4. QED
      BY <2>2, <2>3
  <1>6. PICK t \in Seq(Nat) :
             t = Verified(a, n, found) /\ (found => t = Append(s, n)) /\ (~found => t = s)
    <2>1. Append(s, n) \in Seq(Nat)
      OBVIOUS
    <2>2. CASE found
      BY <1>2, <2>1, <2>2 DEF Verified
    <2>3. CASE ~found
      BY <1>2, <2>3 DEF Verified
    <2>4. QED
      BY <2>2, <2>3
  <1>7. /\ pc'[a] = stage /\ checked'[a] = m + 1 /\ claim'[a] = t /\ Frame(a)
        /\ pc' \in [Attempt -> Stage] /\ checked' \in [Attempt -> Nat] /\ claim' \in [Attempt -> Seq(Nat)]
    <2>1. /\ pc' = [pc EXCEPT ![a] = stage] /\ checked' = [checked EXCEPT ![a] = m + 1]
          /\ claim' = [claim EXCEPT ![a] = t] /\ UNCHANGED <<request, inputs, posted>>
      BY <1>2, <1>4, <1>5, <1>6 DEF CheckNext, Goto
    <2>2. m + 1 \in Nat
      BY <1>2
    <2>3. QED
      BY <1>5, <2>1, <2>2 DEF ClaimInv, AttemptsTyped, Frame
  <1>8. UNCHANGED <<retired, dbNullifiers, certificates, waitsFor, success, attempts, request, inputs, posted>>
    BY DEF CheckNext, page
  <1>9. StoresOK'
    <2>1. n \in Nullifier \/ ~found
      BY <1>4 DEF ClaimInv, StoresOK, Nullifier
    <2>2. usedNullifiers' \subseteq Nullifier
      BY <1>4, <2>1 DEF ClaimInv, StoresOK
    <2>3. QED
      BY <1>8, <2>2 DEF ClaimInv, StoresOK, Certified
  <1>10. AttemptsTyped' /\ PagesTyped'
    BY <1>7, <1>8 DEF ClaimInv, AttemptsTyped, PagesTyped
  <1>11. ClaimSoFar(a)'
    <2>1. Len(t) <= m + 1 /\ (Len(t) = m + 1 => \A i \in 1..(m + 1) : t[i] = given[i])
      <3>1. CASE found
        <4>1. t = Append(s, n)
          BY <1>6, <3>1
        <4>2. Len(Append(s, n)) = Len(s) + 1 /\ (\A i \in 1..Len(s) : Append(s, n)[i] = s[i])
              /\ Append(s, n)[Len(s) + 1] = n
          BY AppendedIs
        <4>3. PICK l \in Nat : l = Len(s)
          OBVIOUS
        <4>4. Len(t) = l + 1 /\ (\A i \in 1..l : t[i] = s[i]) /\ t[l + 1] = n
          BY <4>1, <4>2, <4>3
        <4>5. Len(t) <= m + 1
          BY <1>2, <4>3, <4>4
        <4>6. ASSUME Len(t) = m + 1, NEW i \in 1..(m + 1) PROVE t[i] = given[i]
          <5>1. l = m
            BY <4>4, <4>6
          <5>2. CASE i = m + 1
            BY <1>3, <4>4, <5>1, <5>2
          <5>3. CASE i # m + 1
            <6>1. i \in 1..m /\ i \in 1..l
              BY <5>1, <5>3
            <6>2. Len(s) = m
              BY <4>3, <5>1
            <6>3. t[i] = s[i]
              BY <4>4, <6>1
            <6>4. s[i] = given[i]
              BY <1>2, <6>1, <6>2
            <6>5. QED
              BY <6>3, <6>4
          <5>4. QED
            BY <5>2, <5>3
        <4>7. QED
          BY <4>5, <4>6
      <3>2. CASE ~found
        BY <1>2, <1>6, <3>2
      <3>3. QED
        BY <3>1, <3>2
    <2>2. m + 1 <= Len(given) /\ (stage = "checking" => m + 1 < Len(given)) /\ Len(given) \in Nat
      <3>1. Len(given) \in Nat
        OBVIOUS
      <3>2. m < Len(given) /\ (stage = "checking" => m + 1 # Len(given))
        BY <1>2, <1>5
      <3>3. QED
        BY <3>1, <3>2
    <2>3. request'[a] \in Clicked /\ request'[a].nullifiers = given
      BY <1>1, <1>2, <1>8 DEF ClaimSoFar
    <2>4. QED
      BY <1>7, <2>1, <2>2, <2>3 DEF ClaimSoFar
  <1>12. AttemptOK(a)'
    <2>1. ~(a > attempts') /\ inputs'[a] = Nothing
      BY <1>1, <1>8 DEF AttemptOK
    <2>2. QED
      BY <1>5, <1>7, <1>11, <2>1 DEF AttemptOK, HasInputs, HasPosted
  <1>13. QED
    BY <1>1, <1>7, <1>8, <1>9, <1>10, <1>12, AttemptSteps DEF CertificatesGrow

(* An attempt's stage changes and what it holds stays. *)
LEMMA Advances ==
  ASSUME ClaimInv, NEW a \in Attempt, pc[a] \notin {"new", "over"},
         NEW stage \in Stage \ {"new", "checking", "claim"}, Goto(a, stage),
         UNCHANGED <<attempts, request, checked, claim, inputs, posted>>,
         dbNullifiers \subseteq dbNullifiers', CertificatesGrow, StoresOK', PagesTyped',
         stage \in HasInputs => pc[a] \in HasInputs,
         stage \in HasPosted => pc[a] \in HasPosted,
         stage = "certify" => posted[a].nullifier \in dbNullifiers',
         stage = "compliant" => HasCertificate(a)',
         \A p \in Page :
           success'[p] \in {success[p], NoAttempt} \/ (success'[p] = a /\ stage = "over" /\ HasCertificate(a)')
  PROVE  ClaimInv'
  <1>1. pc'[a] = stage /\ (\A b \in Attempt \ {a} : pc'[b] = pc[b]) /\ pc' \in [Attempt -> Stage]
    BY StageMoves
  <1>2. Frame(a)
    BY <1>1 DEF Frame
  <1>3. AttemptsTyped'
    BY <1>1 DEF ClaimInv, AttemptsTyped
  <1>4. AttemptOK(a)
    BY DEF ClaimInv
  <1>5. ClaimSoFar(a)'
    BY <1>1, <1>4 DEF AttemptOK, ClaimSoFar
  <1>6. InputsMatch(a) => InputsMatch(a)'
    BY DEF InputsMatch
  <1>7. AttemptOK(a)'
    BY <1>1, <1>4, <1>5, <1>6 DEF AttemptOK
  <1>8. QED
    BY <1>1, <1>2, <1>3, <1>7, AttemptSteps

(* The arrival of a proof at the relay keeps the invariant. *)
LEMMA RelayKeeps ==
  ASSUME ClaimInv, NEW a \in Attempt, Relay(a)
  PROVE  ClaimInv'
  <1>1. PICK stage \in {"refused", "lookup"} : Goto(a, stage)
    BY DEF Relay
  <1>2. stage \in Stage \ {"new", "checking", "claim"}
    BY <1>1 DEF Stage
  <1>3. UNCHANGED <<retired, usedNullifiers, dbNullifiers, certificates, waitsFor, success,
                    attempts, request, checked, claim, inputs, posted>> /\ pc[a] = "relayed"
    BY DEF Relay, backend, page
  <1>4. StoresOK' /\ CertificatesGrow /\ dbNullifiers \subseteq dbNullifiers' /\ PagesTyped'
    BY <1>3, StoresKept DEF ClaimInv, PagesTyped
  <1>5. QED
    BY <1>1, <1>2, <1>3, <1>4, Advances DEF HasInputs, HasPosted

(* The lookup of the claim's own nullifier keeps the invariant. *)
LEMMA LookupKeeps ==
  ASSUME ClaimInv, NEW a \in Attempt, Lookup(a)
  PROVE  ClaimInv'
  <1>1. PICK stage \in {"refused", "insert"} : Goto(a, stage)
    BY DEF Lookup
  <1>2. stage \in Stage \ {"new", "checking", "claim"}
    BY <1>1 DEF Stage
  <1>3. UNCHANGED <<retired, dbNullifiers, certificates, waitsFor, success,
                    attempts, request, checked, claim, inputs, posted>> /\ pc[a] = "lookup"
    BY DEF Lookup, page
  <1>4. posted[a].nullifier \in Nullifier
    BY <1>3, NullifierTyped DEF HasPosted, Nullifier
  <1>5. usedNullifiers' \subseteq usedNullifiers \cup {posted[a].nullifier}
    BY DEF Lookup
  <1>6. StoresOK' /\ CertificatesGrow /\ dbNullifiers \subseteq dbNullifiers' /\ PagesTyped'
    BY <1>3, <1>4, <1>5 DEF ClaimInv, StoresOK, Certified, CertificatesGrow, PagesTyped
  <1>7. QED
    BY <1>1, <1>2, <1>3, <1>6, Advances DEF HasInputs, HasPosted

(* The INSERT of the claim's nullifier keeps the invariant. *)
LEMMA InsertNullifierKeeps ==
  ASSUME ClaimInv, NEW a \in Attempt, InsertNullifier(a)
  PROVE  ClaimInv'
  <1>1. "certify" \in Stage \ {"new", "checking", "claim"} /\ Goto(a, "certify")
    BY DEF InsertNullifier, Stage
  <1>2. UNCHANGED <<retired, usedNullifiers, certificates, waitsFor, success,
                    attempts, request, checked, claim, inputs, posted>> /\ pc[a] = "insert"
    BY DEF InsertNullifier, page
  <1>3. posted[a].nullifier \in Nullifier
    BY <1>2, NullifierTyped DEF HasPosted, Nullifier
  <1>4. dbNullifiers' = dbNullifiers \cup {posted[a].nullifier}
    BY DEF InsertNullifier
  <1>5. StoresOK' /\ CertificatesGrow /\ dbNullifiers \subseteq dbNullifiers' /\ PagesTyped'
    BY <1>2, <1>3, <1>4 DEF ClaimInv, StoresOK, Certified, CertificatesGrow, PagesTyped
  <1>6. posted[a].nullifier \in dbNullifiers'
    BY <1>4
  <1>7. QED
    BY <1>1, <1>2, <1>5, <1>6, Advances DEF HasInputs, HasPosted

(* The INSERT of the claim's certificate keeps the invariant. *)
LEMMA InsertCertificateKeeps ==
  ASSUME ClaimInv, NEW a \in Attempt, InsertCertificate(a)
  PROVE  ClaimInv'
  <1> DEFINE S == [attempt : Attempt, period : Period, nullifier : ComplianceNullifier]
  <1>1. "compliant" \in Stage \ {"new", "checking", "claim"} /\ Goto(a, "compliant")
    BY DEF InsertCertificate, Stage
  <1>2. UNCHANGED <<retired, usedNullifiers, dbNullifiers, waitsFor, success,
                    attempts, request, checked, claim, inputs, posted>> /\ pc[a] = "certify"
    BY DEF InsertCertificate, page
  <1>3. /\ posted[a].nullifier = inputs[a].complianceNullifier
        /\ posted[a].nullifier \in dbNullifiers
    BY <1>2 DEF ClaimInv, AttemptOK, HasPosted
  <1>4. PICK c \in S : c = [attempt |-> a, period |-> posted[a].period, nullifier |-> posted[a].nullifier]
    BY <1>2, NullifierTyped DEF HasPosted
  <1>5. certificates' = Append(certificates, c)
    BY <1>4 DEF InsertCertificate
  <1>6. PICK before \in Seq(S) : before = certificates
    BY DEF ClaimInv, StoresOK
  <1>7. /\ Append(before, c) \in Seq(S) /\ Len(Append(before, c)) = Len(before) + 1
        /\ Append(before, c)[Len(before) + 1] = c
        /\ \A i \in 1..Len(before) : Append(before, c)[i] = before[i]
    BY AppendedIs
  <1>8a. PICK after \in Seq(S) : after = Append(before, c)
    BY <1>7
  <1>8b. PICK l \in Nat : l = Len(before)
    OBVIOUS
  <1>8. /\ after = certificates' /\ l = Len(before) /\ Len(after) = l + 1
        /\ after[l + 1] = c /\ \A i \in 1..l : after[i] = before[i]
    BY <1>5, <1>6, <1>7, <1>8a, <1>8b
  <1>9. DOMAIN after = 1..(l + 1) /\ DOMAIN before = 1..l
    BY <1>8
  <1>10. CertificatesGrow
    BY <1>6, <1>8, <1>9 DEF CertificatesGrow
  <1>11. HasCertificate(a)'
    <2>1. l + 1 \in DOMAIN after /\ after[l + 1].attempt = a /\ after[l + 1].nullifier = inputs[a].complianceNullifier
      BY <1>3, <1>4, <1>8, <1>9
    <2>2. QED
      BY <1>2, <1>8, <2>1 DEF HasCertificate
  <1>12. StoresOK'
    <2>1. \A i \in DOMAIN after : after[i].nullifier \in dbNullifiers
      <3>1. \A i \in DOMAIN before : before[i].nullifier \in dbNullifiers
        BY <1>6 DEF ClaimInv, StoresOK, Certified
      <3>2. c.nullifier \in dbNullifiers
        BY <1>3, <1>4
      <3>3. \A i \in DOMAIN after : i = l + 1 \/ i \in 1..l
        BY <1>9
      <3>4. QED
        BY <1>8, <1>9, <3>1, <3>2, <3>3
    <2>2. Certified' \subseteq dbNullifiers'
      BY <1>2, <1>8, <2>1 DEF Certified
    <2>3. QED
      BY <1>2, <1>8, <2>2 DEF ClaimInv, StoresOK
  <1>13. PagesTyped'
    BY <1>2 DEF ClaimInv, PagesTyped
  <1>14. QED
    BY <1>1, <1>2, <1>10, <1>11, <1>12, <1>13, Advances DEF HasInputs, HasPosted

(* A failing query keeps the invariant. *)
LEMMA DbErrorKeeps ==
  ASSUME ClaimInv, NEW a \in Attempt, DbError(a)
  PROVE  ClaimInv'
  <1>1. "failed" \in Stage \ {"new", "checking", "claim"} /\ Goto(a, "failed")
    BY DEF DbError, Stage
  <1>2. UNCHANGED <<retired, usedNullifiers, dbNullifiers, certificates, waitsFor, success,
                    attempts, request, checked, claim, inputs, posted>> /\ pc[a] \notin {"new", "over"}
    BY DEF DbError, Handling, backend, page
  <1>3. StoresOK' /\ CertificatesGrow /\ dbNullifiers \subseteq dbNullifiers' /\ PagesTyped'
    BY <1>2, StoresKept DEF ClaimInv, PagesTyped
  <1>4. /\ "failed" \notin HasInputs /\ "failed" \notin HasPosted
        /\ \A p \in Page : success'[p] = success[p]
    BY <1>2 DEF HasInputs, HasPosted
  <1>5. QED
    BY <1>1, <1>2, <1>3, <1>4, Advances

(* The certificate a page is shown was stored when it was answered. *)
LEMMA AnsweredKeeps ==
  ASSUME ClaimInv, NEW p \in Page, NEW a \in Attempt, Answered(p, a)
  PROVE  ClaimInv'
  <1>1. "over" \in Stage \ {"new", "checking", "claim"} /\ Goto(a, "over")
    BY DEF Answered, Stage
  <1>2. UNCHANGED <<retired, usedNullifiers, dbNullifiers, certificates,
                    attempts, request, checked, claim, inputs, posted>> /\ pc[a] \notin {"new", "over"}
    BY DEF Answered, backend
  <1>3. StoresOK' /\ CertificatesGrow /\ dbNullifiers \subseteq dbNullifiers'
    BY <1>2, StoresKept
  <1>4. PagesTyped'
    BY DEF Answered, Done, ClaimInv, PagesTyped
  <1>5. pc[a] = "compliant" => HasCertificate(a)'
    BY <1>2 DEF ClaimInv, AttemptOK, HasCertificate
  <1>6. \A q \in Page : success'[q] = success[q] \/ (success'[q] = a /\ pc[a] = "compliant")
    BY DEF Answered, ClaimInv, PagesTyped
  <1>7. QED
    BY <1>1, <1>2, <1>3, <1>4, <1>5, <1>6, Advances DEF HasInputs, HasPosted

(* The claim's arrival at the page keeps the invariant. *)
LEMMA ClaimArrivesKeeps ==
  ASSUME ClaimInv, NEW p \in Page, NEW a \in Attempt, ClaimArrives(p, a)
  PROVE  ClaimInv'
  <1>1. pc[a] = "claim" /\ AttemptOK(a) /\ inputs[a] = Nothing
    BY DEF ClaimArrives, ClaimInv, AttemptOK
  <1>2. UNCHANGED <<retired, usedNullifiers, dbNullifiers, certificates, success,
                    attempts, request, checked, claim, posted>>
    BY DEF ClaimArrives, backend
  <1>3. StoresOK' /\ CertificatesGrow /\ dbNullifiers \subseteq dbNullifiers'
    BY <1>2, StoresKept
  <1>4. CASE Done(p, a) /\ Goto(a, "over") /\ UNCHANGED inputs
    <2>1. "over" \in Stage \ {"new", "checking", "claim"} /\ "over" \notin HasInputs /\ "over" \notin HasPosted
      BY DEF Stage, HasInputs, HasPosted
    <2>2. PagesTyped' /\ \A q \in Page : success'[q] = success[q]
      BY <1>2, <1>4 DEF Done, ClaimInv, PagesTyped
    <2>3. QED
      BY <1>1, <1>2, <1>3, <1>4, <2>1, <2>2, Advances
  <1>5. CASE /\ \E secret \in Secret, period \in Period, threshold \in Threshold :
                  inputs' = [inputs EXCEPT ![a] =
                    [volumes |-> VolumesFor(request[a].volumes, Len(claim[a])),
                     secret |-> secret, period |-> period, threshold |-> threshold,
                     complianceNullifier |->
                       computeComplianceNullifier(request[a].secret, request[a].period)]]
             /\ Goto(a, "proving") /\ UNCHANGED waitsFor
    <2>0. PICK volumes, nullifier :
               /\ volumes = VolumesFor(request[a].volumes, Len(claim[a]))
               /\ nullifier = computeComplianceNullifier(request[a].secret, request[a].period)
      OBVIOUS
    <2>0a. PICK secret \in Secret, period \in Period, threshold \in Threshold :
                inputs' = [inputs EXCEPT ![a] =
                  [volumes |-> volumes, secret |-> secret, period |-> period, threshold |-> threshold,
                   complianceNullifier |-> nullifier]]
      BY <1>5, <2>0
    <2> DEFINE in == [volumes |-> volumes, secret |-> secret, period |-> period,
                      threshold |-> threshold, complianceNullifier |-> nullifier]
    <2>1. /\ inputs' = [inputs EXCEPT ![a] = in]
          /\ in.volumes = VolumesFor(request[a].volumes, Len(claim[a]))
          /\ in.complianceNullifier = computeComplianceNullifier(request[a].secret, request[a].period)
      BY <2>0, <2>0a
    <2> HIDE DEF in
    <2>2. /\ pc'[a] = "proving" /\ pc' \in [Attempt -> Stage]
          /\ inputs'[a] = in /\ DOMAIN inputs' = Attempt /\ Frame(a)
      <3>1. "proving" \in Stage
        BY DEF Stage
      <3>2. pc'[a] = "proving" /\ (\A b \in Attempt \ {a} : pc'[b] = pc[b]) /\ pc' \in [Attempt -> Stage]
        BY <1>5, <3>1, StageMoves
      <3>3. QED
        BY <1>2, <2>1, <3>2 DEF ClaimInv, AttemptsTyped, Frame
    <2>3. AttemptsTyped' /\ PagesTyped' /\ \A q \in Page : success'[q] = success[q]
      BY <1>2, <1>5, <2>2 DEF ClaimInv, AttemptsTyped, PagesTyped
    <2>4. ClaimSoFar(a)'
      BY <1>1, <1>2, <2>2 DEF AttemptOK, ClaimSoFar
    <2>5. InputsMatch(a)'
      BY <1>2, <2>1, <2>2 DEF InputsMatch
    <2>6. AttemptOK(a)'
      BY <1>1, <1>2, <2>2, <2>4, <2>5 DEF AttemptOK, HasInputs, HasPosted
    <2>7. QED
      BY <1>1, <1>2, <1>3, <2>2, <2>3, <2>6, AttemptSteps
  <1>6. QED
    BY <1>4, <1>5 DEF ClaimArrives

(* The end of the proof's generation keeps the invariant. *)
LEMMA ProvedKeeps ==
  ASSUME ClaimInv, NEW p \in Page, NEW a \in Attempt, Proved(p, a)
  PROVE  ClaimInv'
  <1>1. pc[a] = "proving" /\ AttemptOK(a) /\ InputsMatch(a)
    BY DEF Proved, ClaimInv, AttemptOK, HasInputs
  <1>2. UNCHANGED <<retired, usedNullifiers, dbNullifiers, certificates, waitsFor, success,
                    attempts, request, checked, claim, inputs>> /\ Goto(a, "relayed")
    BY DEF Proved, backend, page
  <1>3a. PICK real, nullifier :
              real = generateComplianceProof(claim[a], inputs[a]) /\ nullifier = inputs[a].complianceNullifier
    OBVIOUS
  <1>3b. PICK period \in Period :
              posted' = [posted EXCEPT ![a] = [real |-> real, period |-> period, nullifier |-> nullifier]]
    BY <1>3a DEF Proved
  <1> DEFINE post == [real |-> real, period |-> period, nullifier |-> nullifier]
  <1>3. /\ posted' = [posted EXCEPT ![a] = post]
        /\ post.period \in Period /\ post.nullifier = inputs[a].complianceNullifier
    BY <1>3a, <1>3b
  <1> HIDE DEF post
  <1>4. StoresOK' /\ CertificatesGrow /\ dbNullifiers \subseteq dbNullifiers'
    BY <1>2, StoresKept
  <1>5. /\ pc'[a] = "relayed" /\ pc' \in [Attempt -> Stage]
        /\ posted'[a] = post /\ DOMAIN posted' = Attempt /\ Frame(a)
    <2>1. "relayed" \in Stage
      BY DEF Stage
    <2>2. pc'[a] = "relayed" /\ (\A b \in Attempt \ {a} : pc'[b] = pc[b]) /\ pc' \in [Attempt -> Stage]
      BY <1>2, <2>1, StageMoves
    <2>3. QED
      BY <1>2, <1>3, <2>2 DEF ClaimInv, AttemptsTyped, Frame
  <1>6. AttemptsTyped' /\ PagesTyped' /\ \A q \in Page : success'[q] = success[q]
    BY <1>2, <1>5 DEF ClaimInv, AttemptsTyped, PagesTyped
  <1>7. ClaimSoFar(a)'
    BY <1>1, <1>2, <1>5 DEF AttemptOK, ClaimSoFar
  <1>8. InputsMatch(a)'
    BY <1>1, <1>2 DEF InputsMatch
  <1>9. AttemptOK(a)'
    BY <1>1, <1>2, <1>3, <1>5, <1>7, <1>8 DEF AttemptOK, HasInputs, HasPosted
  <1>10. QED
    BY <1>1, <1>2, <1>4, <1>5, <1>6, <1>9, AttemptSteps

(* A step of no attempt: what is stored grows, a page may be freed. *)
LEMMA AttemptsStay ==
  ASSUME ClaimInv, StoresOK', PagesTyped', dbNullifiers \subseteq dbNullifiers',
         UNCHANGED <<certificates, success, attempts, request, pc, checked, claim, inputs, posted>>
  PROVE  ClaimInv'
  <1>1. AttemptsTyped'
    BY DEF ClaimInv, AttemptsTyped
  <1>2. \A a \in Attempt : HasCertificate(a) => HasCertificate(a)'
    BY DEF HasCertificate
  <1>3. PagesOK'
    BY <1>2 DEF ClaimInv, PagesOK, PagesTyped, HasCertificate
  <1>4. ASSUME NEW a \in Attempt PROVE AttemptOK(a)'
    <2>1. AttemptOK(a)
      BY DEF ClaimInv
    <2>2. ClaimSoFar(a)'
      BY <2>1 DEF AttemptOK, ClaimSoFar
    <2>3. InputsMatch(a) => InputsMatch(a)'
      BY DEF InputsMatch
    <2>4. QED
      BY <1>2, <2>1, <2>2, <2>3 DEF AttemptOK
  <1>5. QED
    BY <1>1, <1>3, <1>4 DEF ClaimInv

(* A retirement on the ledger keeps the invariant. *)
LEMMA RetireKeeps ==
  ASSUME ClaimInv, NEW n \in Retirement, Retire(n)
  PROVE  ClaimInv'
  <1>1. UNCHANGED <<certificates, waitsFor, success, attempts, request, pc, checked, claim, inputs, posted>>
    BY DEF Retire, page
  <1>2. /\ retired' \subseteq Retirement /\ dbNullifiers \subseteq dbNullifiers'
        /\ usedNullifiers' \subseteq Nullifier /\ dbNullifiers' \subseteq Nullifier
    BY DEF Retire, ClaimInv, StoresOK, Nullifier
  <1>3. StoresOK' /\ PagesTyped'
    BY <1>1, <1>2 DEF ClaimInv, StoresOK, PagesTyped, Certified
  <1>4. QED
    BY <1>1, <1>2, <1>3, AttemptsStay

(* A connection that breaks keeps the invariant. *)
LEMMA NetworkErrorKeeps ==
  ASSUME ClaimInv, NEW p \in Page, NEW a \in Attempt, NetworkError(p, a)
  PROVE  ClaimInv'
  <1>1. UNCHANGED <<retired, usedNullifiers, dbNullifiers, certificates, success,
                    attempts, request, pc, checked, claim, inputs, posted>>
    BY DEF NetworkError, backend
  <1>2. StoresOK' /\ dbNullifiers \subseteq dbNullifiers'
    BY <1>1, StoresKept
  <1>3. PagesTyped'
    BY <1>1 DEF NetworkError, Done, ClaimInv, PagesTyped
  <1>4. QED
    BY <1>1, <1>2, <1>3, AttemptsStay

(* A restart loses requests that are handled, never an answer that was sent. *)
LEMMA RestartKeeps ==
  ASSUME ClaimInv, Restart
  PROVE  ClaimInv'
  <1>1. UNCHANGED <<retired, dbNullifiers, certificates, waitsFor, success,
                    attempts, request, checked, claim, inputs, posted>> /\ usedNullifiers' = {}
    BY DEF Restart, page
  <1>2. StoresOK' /\ PagesTyped'
    BY <1>1 DEF ClaimInv, StoresOK, PagesTyped, Certified
  <1>3. pc' \in [Attempt -> Stage]
        /\ \A a \in Attempt : pc'[a] = pc[a] \/ (pc[a] \in Handling /\ pc'[a] = "failed")
    BY DEF Restart, ClaimInv, AttemptsTyped, Stage
  <1>4. AttemptsTyped'
    BY <1>1, <1>3 DEF ClaimInv, AttemptsTyped
  <1>5. \A a \in Attempt : HasCertificate(a) => HasCertificate(a)'
    BY <1>1 DEF HasCertificate
  <1>6. PagesOK'
    <2>1. ASSUME NEW p \in Page, NEW b, b = success'[p], b # NoAttempt
          PROVE  pc'[b] = "over" /\ HasCertificate(b)'
      <3>1. b \in Attempt /\ pc[b] = "over" /\ HasCertificate(b)
        BY <1>1, <2>1 DEF ClaimInv, PagesTyped, PagesOK
      <3>2. QED
        BY <1>3, <1>5, <3>1 DEF Handling
    <2>2. QED
      BY <2>1 DEF PagesOK, HasCertificate
  <1>7. ASSUME NEW a \in Attempt PROVE AttemptOK(a)'
    <2>1. AttemptOK(a) /\ (pc'[a] = pc[a] \/ (pc[a] \in Handling /\ pc'[a] = "failed"))
      BY <1>3 DEF ClaimInv
    <2>2. ClaimSoFar(a)'
      BY <1>1, <2>1 DEF AttemptOK, ClaimSoFar, Handling
    <2>3. InputsMatch(a) => InputsMatch(a)'
      BY <1>1 DEF InputsMatch
    <2>4. QED
      BY <1>1, <1>5, <2>1, <2>2, <2>3 DEF AttemptOK, Handling, HasInputs, HasPosted
  <1>8. QED
    BY <1>2, <1>4, <1>6, <1>7 DEF ClaimInv

(* Every step keeps the invariant. *)
LEMMA StepClaims == ClaimInv /\ [Next]_vars => ClaimInv'
  <1> SUFFICES ASSUME ClaimInv, [Next]_vars PROVE ClaimInv'
    OBVIOUS
  <1>1. CASE UNCHANGED vars
    <2>1. UNCHANGED <<retired, usedNullifiers, dbNullifiers, certificates, waitsFor, success,
                      attempts, request, pc, checked, claim, inputs, posted>>
      BY <1>1 DEF vars, backend, page
    <2>2. StoresOK' /\ dbNullifiers \subseteq dbNullifiers' /\ PagesTyped'
      BY <2>1, StoresKept DEF ClaimInv, PagesTyped
    <2>3. QED
      BY <2>1, <2>2, AttemptsStay
  <1>2. CASE Restart
    BY <1>2, RestartKeeps
  <1>3. ASSUME NEW n \in Retirement, Retire(n) PROVE ClaimInv'
    BY <1>3, RetireKeeps
  <1>4. ASSUME NEW p \in Page, NEW form \in Form, NEW s \in Secret, NEW k \in Period, Click(p, form, s, k)
        PROVE  ClaimInv'
    BY <1>4, ClickKeeps
  <1>5. ASSUME NEW a \in Attempt, Handle(a) PROVE ClaimInv'
    BY <1>5, CheckNextKeeps, RelayKeeps, LookupKeeps, InsertNullifierKeeps, InsertCertificateKeeps,
       DbErrorKeeps DEF Handle
  <1>6. ASSUME NEW a \in Attempt, NEW p \in Page, Receive(p, a) PROVE ClaimInv'
    BY <1>6, ClaimArrivesKeeps, ProvedKeeps, AnsweredKeeps, NetworkErrorKeeps DEF Receive
  <1>7. QED
    BY <1>1, <1>2, <1>3, <1>4, <1>5, <1>6 DEF Next

--------------------------------------------------------------------------------
(* What the invariant gives. *)

(* The elements of a sequence are of its set. *)
LEMMA ElementsAre ==
  ASSUME NEW S, NEW s \in Seq(S)
  PROVE  \A i \in DOMAIN s : s[i] \in S
  OBVIOUS

(* Sequences with the same domain are as long. *)
LEMMA SameDomain ==
  ASSUME NEW m \in Nat, NEW n \in Nat, 1..m = 1..n
  PROVE  m = n
  <1>1. CASE m < n
    <2>1. n \in 1..n /\ n \notin 1..m
      BY <1>1
    <2>2. QED
      BY <2>1
  <1>2. CASE n < m
    <2>1. m \in 1..m /\ m \notin 1..n
      BY <1>2
    <2>2. QED
      BY <2>1
  <1>3. QED
    BY <1>1, <1>2

(* The volumes matched to a claim are as many as its nullifiers. *)
LEMMA VolumesForLength ==
  ASSUME NEW given \in Seq(Nat), NEW n \in Nat
  PROVE  Len(VolumesFor(given, n)) = n
  <1>1. CASE Len(given) = n
    BY <1>1 DEF VolumesFor
  <1>2. CASE Len(given) # n
    <2>1. VolumesFor(given, n) = [i \in 1..n |-> 0]
      BY <1>2 DEF VolumesFor
    <2>2. Len([i \in 1..n |-> 0]) = n
      OBVIOUS
    <2>3. QED
      BY <2>1, <2>2
  <1>3. QED
    BY <1>1, <1>2

(* The invariant contains the types. *)
LEMMA Typed == ClaimInv => ClaimTypeOK
  <1> SUFFICES ASSUME ClaimInv PROVE ClaimTypeOK
    OBVIOUS
  <1>1. \A i \in DOMAIN certificates :
          certificates[i].attempt \in Attempt /\ certificates[i].nullifier \in ComplianceNullifier
    <2>1. PICK stored \in Seq([attempt : Attempt, period : Period, nullifier : ComplianceNullifier]) :
               stored = certificates
      BY DEF ClaimInv, StoresOK
    <2>2. \A i \in DOMAIN stored : stored[i] \in [attempt : Attempt, period : Period, nullifier : ComplianceNullifier]
      BY ElementsAre
    <2>3. QED
      BY <2>1, <2>2
  <1>2. ASSUME NEW a \in Attempt
        PROVE  /\ Len(claim[a]) <= checked[a]
               /\ inputs[a] # Nothing => Len(inputs[a].volumes) = Len(claim[a])
    <2>1. AttemptOK(a) /\ ClaimSoFar(a)
      BY DEF ClaimInv, AttemptOK
    <2>2. ASSUME inputs[a] # Nothing PROVE Len(inputs[a].volumes) = Len(claim[a])
      <3>1. InputsMatch(a) /\ request[a] \in Clicked
        BY <2>1, <2>2 DEF AttemptOK, ClaimSoFar
      <3>2. request[a].volumes \in Seq(Nat)
        BY <3>1 DEF Clicked
      <3>3. Len(claim[a]) \in Nat
        BY <2>1 DEF ClaimSoFar
      <3>4. Len(VolumesFor(request[a].volumes, Len(claim[a]))) = Len(claim[a])
        BY <3>2, <3>3, VolumesForLength
      <3>5. QED
        BY <3>1, <3>4 DEF InputsMatch
    <2>3. QED
      BY <2>1, <2>2 DEF ClaimSoFar
  <1>3. QED
    BY <1>1, <1>2 DEF ClaimInv, StoresOK, PagesTyped, ClaimTypeOK

(* Volumes are used as given only when no retirement was left out. *)
LEMMA Belong == ClaimInv => VolumesBelong
  <1> SUFFICES ASSUME ClaimInv, NEW a \in Attempt, inputs[a] # Nothing, Honest(a), NEW i \in DOMAIN claim[a]
               PROVE  inputs[a].volumes[i] \in {0, VolumeOf[claim[a][i]]}
    BY DEF VolumesBelong
  <1>1. AttemptOK(a) /\ ClaimSoFar(a) /\ InputsMatch(a) /\ request[a] \in Clicked /\ pc[a] # "new"
    BY DEF ClaimInv, AttemptOK, ClaimSoFar
  <1> DEFINE lookedUp == request[a].nullifiers
  <1>2. /\ lookedUp \in Seq(Nat) /\ request[a].volumes \in Seq(Nat)
        /\ claim[a] \in Seq(Nat) /\ checked[a] \in Nat /\ Len(claim[a]) <= checked[a]
        /\ checked[a] <= Len(lookedUp)
        /\ Len(claim[a]) = checked[a] => \A k \in 1..checked[a] : claim[a][k] = lookedUp[k]
    <2>1. lookedUp \in Seq(Nat) /\ request[a].volumes \in Seq(Nat)
      BY <1>1 DEF Clicked
    <2>2. QED
      BY <1>1, <2>1 DEF ClaimSoFar
  <1>found. PICK found \in Seq(Nat) : found = claim[a]
    BY <1>2
  <1>sent. PICK sent \in Seq(Nat) : sent = lookedUp
    BY <1>2
  <1>given. PICK given \in Seq(Nat) : given = request[a].volumes
    BY <1>2
  <1>m. PICK m \in Nat : m = checked[a]
    BY <1>2
  <1>order. /\ Len(found) <= m /\ m <= Len(sent)
            /\ Len(found) = m => \A k \in 1..m : found[k] = sent[k]
    BY <1>2, <1>found, <1>sent, <1>m
  <1>3. given = [k \in DOMAIN sent |-> VolumeOf[sent[k]]]
    BY <1>sent, <1>given DEF Honest
  <1>4. inputs[a].volumes = VolumesFor(given, Len(found)) /\ i \in 1..Len(found)
    <2>1. inputs[a].volumes = VolumesFor(given, Len(found))
      BY <1>1, <1>found, <1>given DEF InputsMatch
    <2>2. QED
      BY <1>found, <2>1
  <1> HIDE DEF lookedUp
  <1>5. CASE Len(given) = Len(found)
    <2>1. DOMAIN given = 1..Len(given) /\ DOMAIN sent = 1..Len(sent) /\ DOMAIN given = DOMAIN sent
      <3>1. DOMAIN given = 1..Len(given) /\ DOMAIN sent = 1..Len(sent)
        OBVIOUS
      <3>2. DOMAIN given = DOMAIN sent
        BY <1>3, Zenon
      <3>3. QED
        BY <3>1, <3>2
    <2>2. Len(given) = Len(sent)
      <3>1. Len(given) \in Nat /\ Len(sent) \in Nat
        OBVIOUS
      <3>2. 1..Len(given) = 1..Len(sent)
        BY <2>1
      <3>3. QED
        BY <3>1, <3>2, SameDomain
    <2>3. Len(found) = m /\ i \in 1..m /\ i \in DOMAIN sent
      <3>1. Len(found) \in Nat /\ Len(sent) \in Nat
        OBVIOUS
      <3>2. Len(found) = Len(given)
        BY <1>5
      <3>3. Len(sent) = Len(found) /\ Len(found) <= m /\ m <= Len(sent)
        BY <3>2, <2>2, <1>order
      <3>4. Len(found) = m /\ Len(sent) = m
        BY <3>1, <3>3
      <3>5. i \in 1..m
        BY <3>4, <1>4
      <3>6. QED
        BY <3>4, <3>5, <2>1
    <2>4. found[i] = sent[i]
      BY <1>order, <2>3
    <2>5. given[i] = VolumeOf[found[i]]
      BY <1>3, <2>3, <2>4
    <2>6. QED
      BY <1>found, <1>4, <1>5, <2>5 DEF VolumesFor
  <1>6. CASE Len(given) # Len(found)
    BY <1>4, <1>6 DEF VolumesFor
  <1>7. QED
    BY <1>5, <1>6

(* The invariant gives each page that shows success its certificate. *)
LEMMA ShownIsCertified == ClaimInv => CompliantIsCertified
  <1> SUFFICES ASSUME ClaimInv, NEW p \in Page, success[p] # NoAttempt
               PROVE  HasCertificate(success[p]) /\ getComplianceStatus.compliant
    BY DEF CompliantIsCertified, HasCertificate
  <1>1. HasCertificate(success[p])
    BY DEF ClaimInv, PagesOK
  <1>2. PICK stored \in Seq([attempt : Attempt, period : Period, nullifier : ComplianceNullifier]) :
             stored = certificates
    BY DEF ClaimInv, StoresOK
  <1>3. Len(stored) \in Nat /\ 1 \in 1..Len(stored)
    BY <1>1, <1>2 DEF HasCertificate
  <1>4. 1 \in DOMAIN Reverse(stored)
    BY <1>3 DEF Reverse
  <1>5. findComplianceClaims # <<>>
    BY <1>2, <1>4 DEF findComplianceClaims
  <1>6. QED
    BY <1>1, <1>5 DEF getComplianceStatus

(* A claim whose nullifier is certified already is refused, fails or waits. *)
LEMMA LaterSteps ==
  ASSUME ClaimInv, [Next]_vars, NEW a \in Attempt, pc[a] = "lookup", posted[a].nullifier \in Certified
  PROVE  pc'[a] \in {"lookup", "refused", "failed"}
  <1>1. posted[a].nullifier \in dbNullifiers /\ pc \in [Attempt -> Stage]
    BY DEF ClaimInv, StoresOK, AttemptsTyped
  <1>2. CASE UNCHANGED vars
    BY <1>2 DEF vars
  <1>3. CASE Restart
    BY <1>3 DEF Restart
  <1>4. ASSUME NEW n \in Retirement, Retire(n) PROVE pc'[a] = "lookup"
    BY <1>4 DEF Retire
  <1>5. ASSUME NEW p \in Page, NEW form \in Form, NEW s \in Secret, NEW k \in Period, Click(p, form, s, k)
        PROVE  pc'[a] = "lookup"
    <2>1. a <= attempts
      <3>1. ~(a > attempts)
        BY DEF ClaimInv, AttemptOK
      <3>2. a \in Nat /\ attempts \in Nat
        BY ClaimAssumption DEF ClaimInv, AttemptsTyped, Attempt
      <3>3. QED
        BY <3>1, <3>2
    <2>2. a # attempts + 1 /\ attempts' = attempts + 1
      BY <1>5, <2>1, ClaimAssumption DEF Click, ClaimInv, AttemptsTyped, Attempt
    <2>3. QED
      BY <1>1, <1>5, <2>2 DEF Click, Goto
  <1>6. ASSUME NEW b \in Attempt, b # a, Handle(b) PROVE pc'[a] = "lookup"
    BY <1>1, <1>6
       DEF Handle, CheckNext, Relay, Lookup, InsertNullifier, InsertCertificate, DbError, Goto
  <1>7. CASE Handle(a)
    BY <1>1, <1>7
       DEF Handle, CheckNext, Relay, Lookup, InsertNullifier, InsertCertificate, DbError, Goto
  <1>8. ASSUME NEW b \in Attempt, NEW p \in Page, Receive(p, b) PROVE pc'[a] = "lookup"
    BY <1>1, <1>8 DEF Receive, ClaimArrives, Proved, Answered, NetworkError, Goto
  <1>9. QED
    BY <1>2, <1>3, <1>4, <1>5, <1>6, <1>7, <1>8 DEF Next

--------------------------------------------------------------------------------
(* What was proved is what was asserted of the claim and its inputs. *)

(* A proof is of the claim and the inputs as they still are. *)
PostedOf(a) ==
  /\ pc[a] \notin {"new", "checking", "claim", "proving"}
  /\ inputs[a].threshold \in Threshold /\ InputsMatch(a)
  /\ posted[a].real = generateComplianceProof(claim[a], inputs[a])

PostedInv ==
  \A a \in Attempt :
    /\ posted[a] # Nothing => PostedOf(a)
    /\ pc[a] = "proving" => inputs[a].threshold \in Threshold

(* Before the first click nothing is posted. *)
LEMMA InitPosted == Init => PostedInv
  <1> SUFFICES ASSUME Init, NEW a \in Attempt PROVE posted[a] = Nothing /\ pc[a] = "new"
    BY DEF PostedInv
  <1>1. QED
    BY DEF Init

(* What an attempt posted stays as long as its claim, inputs and request do *)
(* and its stage is none of the earlier ones.                               *)
LEMMA PostedStays ==
  ASSUME PostedInv, NEW a \in Attempt,
         UNCHANGED <<posted[a], inputs[a], claim[a], request[a]>>,
         pc'[a] = pc[a] \/ pc'[a] \notin {"new", "checking", "claim", "proving"}
  PROVE  /\ posted'[a] # Nothing => PostedOf(a)'
         /\ pc'[a] = "proving" => inputs'[a].threshold \in Threshold
  <1>1. ASSUME posted[a] # Nothing PROVE PostedOf(a)'
    <2>1. PostedOf(a)
      BY <1>1 DEF PostedInv
    <2>2. InputsMatch(a)'
      BY <2>1 DEF PostedOf, InputsMatch
    <2>3. posted'[a].real = generateComplianceProof(claim'[a], inputs'[a])
      BY <2>1 DEF PostedOf
    <2>4. QED
      BY <2>1, <2>2, <2>3 DEF PostedOf
  <1>2. QED
    BY <1>1 DEF PostedInv

(* A step of one attempt leaves the others as they are. *)
LEMMA OthersUntouched ==
  ASSUME ClaimInv, [Next]_vars, NEW b \in Attempt,
         ~(\E p \in Page, form \in Form, s \in Secret, k \in Period :
             Click(p, form, s, k) /\ b = attempts + 1),
         ~CheckNext(b),
         ~(\E p \in Page : ClaimArrives(p, b) \/ Proved(p, b))
  PROVE  /\ UNCHANGED <<posted[b], inputs[b], claim[b], request[b]>>
         /\ pc'[b] = pc[b] \/ pc'[b] \notin {"new", "checking", "claim", "proving"}
  <1>1. /\ pc \in [Attempt -> Stage] /\ DOMAIN request = Attempt /\ DOMAIN inputs = Attempt
        /\ DOMAIN posted = Attempt /\ DOMAIN claim = Attempt
    BY DEF ClaimInv, AttemptsTyped
  <1>2. CASE UNCHANGED vars
    BY <1>2 DEF vars
  <1>3. CASE Restart
    BY <1>1, <1>3 DEF Restart
  <1>4. ASSUME NEW n \in Retirement, Retire(n) PROVE UNCHANGED <<posted, inputs, claim, request, pc>>
    BY <1>4 DEF Retire
  <1>5. ASSUME NEW p \in Page, NEW form \in Form, NEW s \in Secret, NEW k \in Period, Click(p, form, s, k)
        PROVE  UNCHANGED <<posted[b], inputs[b], claim[b], request[b], pc[b]>>
    <2>1. b # attempts + 1
      BY <1>5
    <2>2. QED
      BY <1>1, <1>5, <2>1 DEF Click, Goto
  <1>6. ASSUME NEW a \in Attempt, Handle(a)
        PROVE  /\ UNCHANGED <<posted[b], inputs[b], claim[b], request[b]>>
               /\ pc'[b] = pc[b] \/ pc'[b] \notin {"new", "checking", "claim", "proving"}
    <2>1. CASE CheckNext(a)
      <3>1. a # b
        BY <2>1
      <3>2. QED
        BY <1>1, <2>1, <3>1 DEF CheckNext, Goto
    <2>2. CASE Relay(a) \/ Lookup(a) \/ InsertNullifier(a) \/ InsertCertificate(a) \/ DbError(a)
      BY <1>1, <2>2 DEF Relay, Lookup, InsertNullifier, InsertCertificate, DbError, Goto
    <2>3. QED
      BY <1>6, <2>1, <2>2 DEF Handle
  <1>7. ASSUME NEW a \in Attempt, NEW p \in Page, Receive(p, a)
        PROVE  /\ UNCHANGED <<posted[b], inputs[b], claim[b], request[b]>>
               /\ pc'[b] = pc[b] \/ pc'[b] \notin {"new", "checking", "claim", "proving"}
    <2>1. CASE ClaimArrives(p, a) \/ Proved(p, a)
      <3>1. a # b
        BY <2>1
      <3>2. QED
        BY <1>1, <2>1, <3>1 DEF ClaimArrives, Proved, Goto
    <2>2. CASE Answered(p, a) \/ NetworkError(p, a)
      BY <1>1, <2>2 DEF Answered, NetworkError, Goto
    <2>3. QED
      BY <1>7, <2>1, <2>2 DEF Receive
  <1>8. QED
    BY <1>2, <1>3, <1>4, <1>5, <1>6, <1>7 DEF Next

(* Every step keeps that. *)
LEMMA StepPosted == ClaimInv /\ PostedInv /\ [Next]_vars => PostedInv'
  <1> SUFFICES ASSUME ClaimInv, PostedInv, [Next]_vars, NEW b \in Attempt
               PROVE  /\ posted'[b] # Nothing => PostedOf(b)'
                      /\ pc'[b] = "proving" => inputs'[b].threshold \in Threshold
    BY DEF PostedInv
  <1>1. /\ pc \in [Attempt -> Stage] /\ DOMAIN request = Attempt /\ DOMAIN inputs = Attempt
        /\ DOMAIN posted = Attempt /\ DOMAIN claim = Attempt /\ attempts \in Nat
    BY ClaimAssumption DEF ClaimInv, AttemptsTyped
  <1>2. ASSUME NEW p \in Page, NEW form \in Form, NEW s \in Secret, NEW k \in Period,
               Click(p, form, s, k), b = attempts + 1
        PROVE  posted'[b] = Nothing /\ pc'[b] = "checking"
    <2>1. b > attempts /\ AttemptOK(b)
      BY <1>1, <1>2 DEF ClaimInv
    <2>2. pc[b] = "new"
      BY <2>1 DEF AttemptOK
    <2>3. posted[b] = Nothing
      BY <2>2 DEF PostedInv, PostedOf
    <2>4. QED
      BY <1>1, <1>2, <2>3 DEF Click, Goto
  <1>3. ASSUME CheckNext(b) PROVE posted'[b] = Nothing /\ pc'[b] # "proving"
    <2>1. pc[b] = "checking"
      BY <1>3 DEF CheckNext
    <2>2. posted[b] = Nothing
      BY <2>1 DEF PostedInv, PostedOf
    <2>3. QED
      BY <1>1, <1>3, <2>2 DEF CheckNext, Goto
  <1>4. ASSUME NEW p \in Page, ClaimArrives(p, b)
        PROVE  posted'[b] = Nothing /\ (pc'[b] = "proving" => inputs'[b].threshold \in Threshold)
    <2>1. pc[b] = "claim"
      BY <1>4 DEF ClaimArrives
    <2>2. posted'[b] = Nothing
      BY <1>4, <2>1 DEF ClaimArrives, PostedInv, PostedOf
    <2>3. CASE Goto(b, "over")
      BY <1>1, <2>2, <2>3 DEF Goto
    <2>4. ASSUME NEW secret \in Secret, NEW period \in Period, NEW threshold \in Threshold,
                 NEW volumes, NEW nullifier,
                 inputs' = [inputs EXCEPT ![b] =
                   [volumes |-> volumes, secret |-> secret, period |-> period,
                    threshold |-> threshold, complianceNullifier |-> nullifier]]
          PROVE  inputs'[b].threshold \in Threshold
      BY <1>1, <2>4
    <2>5. QED
      BY <1>4, <2>2, <2>3, <2>4 DEF ClaimArrives
  <1>5. ASSUME NEW p \in Page, Proved(p, b) PROVE PostedOf(b)' /\ pc'[b] = "relayed"
    <2>1. pc[b] = "proving" /\ UNCHANGED <<claim, inputs, request>> /\ pc'[b] = "relayed"
      BY <1>1, <1>5 DEF Proved, Goto
    <2>2. inputs[b].threshold \in Threshold /\ InputsMatch(b)
      BY <2>1 DEF PostedInv, ClaimInv, AttemptOK, HasInputs
    <2>3. PICK real, nullifier :
               real = generateComplianceProof(claim[b], inputs[b]) /\ nullifier = inputs[b].complianceNullifier
      OBVIOUS
    <2>4. PICK period \in Period :
               posted' = [posted EXCEPT ![b] = [real |-> real, period |-> period, nullifier |-> nullifier]]
      BY <1>5, <2>3 DEF Proved
    <2>5. posted'[b].real = real
      BY <1>1, <2>4
    <2>6. posted'[b].real = generateComplianceProof(claim'[b], inputs'[b])
      BY <2>1, <2>3, <2>5
    <2>7. InputsMatch(b)'
      BY <2>1, <2>2 DEF InputsMatch
    <2>8. QED
      BY <2>1, <2>2, <2>6, <2>7 DEF PostedOf
  <1>6. QED
    BY <1>2, <1>3, <1>4, <1>5, OthersUntouched, PostedStays

--------------------------------------------------------------------------------
(* The paths of a nullifier set are those the circuit asserts. *)

(* Every nullifier of a list that fits a tree has its path to the set's root. *)
LEMMA SetPathsLeadToRoot ==
  ASSUME NEW list \in Seq(Nat), list # <<>>, Len(list) <= power[TreeDepth]
  PROVE  PathsLeadToRoot(list)
  <1> SUFFICES ASSUME NEW i \in DOMAIN list
               PROVE  LET proof == computeNullifierSetProof(list, list[i])
                      IN  verify_merkle_inclusion(Leaf(list[i]), proof.merklePath, proof.merkleIndices)
                            = computeNullifierSetRoot(list)
    BY Zenon DEF PathsLeadToRoot
  <1> DEFINE IsFirst(j) == list[j] = list[i] /\ \A k \in 1..(j - 1) : list[k] # list[i]
             first == CHOOSE j \in DOMAIN list : IsFirst(j)
             leaves == [j \in DOMAIN list |-> Leaf(list[j])]
             Same == {j \in DOMAIN list : list[j] = list[i]}
  <1>1. DOMAIN list = 1..Len(list) /\ Len(list) \in Nat
    OBVIOUS
  <1>2. \E j \in DOMAIN list : IsFirst(j)
    <2>1. Same \in SUBSET Nat /\ Same # {}
      BY <1>1
    <2>2. PICK j \in Same : \A k \in Same : j <= k
      <3> HIDE DEF Same
      <3>1. QED
        BY <2>1, LeastElement
    <2>3. \A k \in 1..(j - 1) : list[k] # list[i]
      BY <1>1, <2>2
    <2>4. QED
      BY <2>2, <2>3
  <1>3. first \in DOMAIN list /\ IsFirst(first)
    <2> HIDE DEF IsFirst
    <2>1. QED
      BY <1>2, Zenon
  <1>4. leaves[first] = Leaf(list[i]) /\ first - 1 + 1 = first
    BY <1>1, <1>3
  <1>5. Len(leaves) = Len(list)
    BY <1>1
  <1> DEFINE tree == buildMerkleTree(leaves)
             proof == getMerkleProofFromTree(tree, first - 1)
  <1>6. computeNullifierSetProof(list, list[i]) = proof
    BY DEF computeNullifierSetProof, buildNullifierSetTree
  <1>7. computeNullifierSetRoot(list) = tree.root
    BY DEF computeNullifierSetRoot, buildNullifierSetTree
  <1>8. first - 1 \in 0..(Len(leaves) - 1)
    BY <1>1, <1>3, <1>5
  <1>9. proof.root = tree.root
    BY DEF getMerkleProofFromTree
  <1> HIDE DEF first, leaves
  <1>10. /\ proof.creditHash = leaves[first - 1 + 1]
         /\ verify_merkle_inclusion(proof.creditHash, proof.merklePath, proof.merkleIndices) = proof.root
    BY <1>1, <1>5, <1>8, PathLeadsToRoot
  <1>11. proof.creditHash = Leaf(list[i])
    BY <1>4, <1>10
  <1> HIDE DEF proof, tree
  <1>12. QED
    BY <1>6, <1>7, <1>9, <1>10, <1>11

(* What an honest claim posted is what the circuit accepts. *)
LEMMA HonestIsReal == ClaimInv /\ PostedInv => HonestClaimIsProved
  <1> SUFFICES ASSUME ClaimInv, PostedInv, NEW a \in Attempt, posted[a] # Nothing, RealProver,
                      Len(claim[a]) = CircuitSize, claim[a] = request[a].nullifiers, Honest(a),
                      Total(request[a].volumes) \in inputs[a].threshold..MaxU64
               PROVE  posted[a].real
    BY DEF HonestClaimIsProved
  <1>1. PostedOf(a) /\ ClaimSoFar(a) /\ pc[a] # "new"
    BY DEF PostedInv, PostedOf, ClaimInv, AttemptOK
  <1>2. PICK found \in Seq(Nat), given \in Seq(Nat) :
             found = claim[a] /\ given = request[a].volumes
    BY <1>1 DEF ClaimSoFar, Clicked
  <1>3. CircuitSize \in Nat \ {0} /\ CircuitSize <= power[TreeDepth]
    BY ClaimAssumption, Powers, TreeDepthAssumption
  <1>4. PathsLeadToRoot(found)
    <2>1. found # <<>> /\ Len(found) <= power[TreeDepth]
      BY <1>2, <1>3
    <2>2. QED
      BY <2>1, SetPathsLeadToRoot
  <1>5. inputs[a].volumes = given
    <2>1. DOMAIN given = DOMAIN found
      BY <1>2 DEF Honest
    <2>2. 1..Len(given) = 1..Len(found) /\ Len(given) \in Nat /\ Len(found) \in Nat
      BY <2>1
    <2>3. Len(given) = Len(found)
      BY <2>2, SameDomain
    <2>4. QED
      BY <1>1, <1>2, <2>3 DEF PostedOf, InputsMatch, VolumesFor
  <1>6. Total(given) <= MaxU64 /\ Total(given) >= inputs[a].threshold
    <2>1. Total(given) \in inputs[a].threshold..MaxU64 /\ inputs[a].threshold \in Nat /\ MaxU64 \in Nat
      BY <1>1, <1>2, ClaimAssumption DEF PostedOf
    <2>2. QED
      BY <2>1
  <1>7. computeComplianceNullifier(inputs[a].secret, inputs[a].period) = inputs[a].complianceNullifier
    BY <1>1 DEF PostedOf, InputsMatch, Honest
  <1>8. CircuitAccepts(found, inputs[a])
    BY <1>4, <1>5, <1>6, <1>7 DEF CircuitAccepts
  <1>9. generateComplianceProof(found, inputs[a])
    BY <1>2, <1>8 DEF generateComplianceProof, mapComplianceInputs
  <1>10. posted[a].real = generateComplianceProof(found, inputs[a])
    BY <1>1, <1>2 DEF PostedOf
  <1>11. QED
    BY <1>9, <1>10, Zenon

--------------------------------------------------------------------------------
(* Why claims end.                                                         *)

(* The steps at most ahead of an attempt. *)
StepsAhead(a) ==
  CASE pc[a] = "checking" -> Len(request[a].nullifiers) - checked[a] + 7
    [] pc[a] = "claim" -> 7
    [] pc[a] = "proving" -> 6
    [] pc[a] = "relayed" -> 5
    [] pc[a] = "lookup" -> 4
    [] pc[a] = "insert" -> 3
    [] pc[a] = "certify" -> 2
    [] pc[a] \in {"compliant", "refused", "failed"} -> 1
    [] OTHER -> 0

(* Once clicked, an attempt stays where it is or has less ahead of it. *)
OnlyAdvances(a) ==
  pc[a] # "new" => UNCHANGED <<pc[a], checked[a]>> \/ StepsAhead(a)' < StepsAhead(a)

(* A busy page waits for an attempt under way, and no other page does. *)
BusyInv ==
  \A p \in Page : waitsFor[p] # NoAttempt =>
    /\ pc[waitsFor[p]] \notin {"new", "over"}
    /\ \A q \in Page : waitsFor[q] = waitsFor[p] => q = p

(* What an attempt under way has ahead of it. *)
LEMMA AheadCounts ==
  ASSUME ClaimInv, NEW a \in Attempt, pc[a] \notin {"new", "over"}
  PROVE  /\ StepsAhead(a) \in Nat \ {0}
         /\ pc[a] = "checking" => StepsAhead(a) > 7
  <1>1. pc[a] \in Stage \ {"new", "over"} /\ ClaimSoFar(a)
    BY DEF ClaimInv, AttemptsTyped, AttemptOK
  <1>2. CASE pc[a] = "checking"
    <2>1. request[a].nullifiers \in Seq(Nat) /\ checked[a] \in Nat
          /\ checked[a] < Len(request[a].nullifiers)
      BY <1>1, <1>2 DEF ClaimSoFar, Clicked
    <2>2. PICK n \in Nat, m \in Nat : n = Len(request[a].nullifiers) /\ m = checked[a] /\ m < n
      BY <2>1
    <2>3. StepsAhead(a) = n - m + 7
      BY <1>2, <2>2 DEF StepsAhead
    <2>4. n - m + 7 \in Nat \ {0} /\ n - m + 7 > 7
      BY <2>2
    <2>5. QED
      BY <2>3, <2>4, Zenon
  <1>3. CASE pc[a] # "checking"
    BY <1>1, <1>3 DEF StepsAhead, Stage
  <1>4. QED
    BY <1>2, <1>3

(* One attempt goes on to a later stage. *)
LEMMA StageAdvances ==
  ASSUME ClaimInv, NEW a \in Attempt, NEW stage \in Stage \ {"new", "checking"}, Goto(a, stage),
         UNCHANGED <<request, checked>>,
         \/ pc[a] = "checking" /\ stage = "failed"
         \/ pc[a] = "claim" /\ stage \in {"proving", "over"}
         \/ pc[a] = "proving" /\ stage = "relayed"
         \/ pc[a] = "relayed" /\ stage \in {"lookup", "refused"}
         \/ pc[a] = "lookup" /\ stage \in {"insert", "refused", "failed"}
         \/ pc[a] = "insert" /\ stage \in {"certify", "failed"}
         \/ pc[a] = "certify" /\ stage \in {"compliant", "failed"}
         \/ pc[a] \in {"compliant", "refused", "failed"} /\ stage = "over"
  PROVE  /\ \A b \in Attempt : OnlyAdvances(b)
         /\ StepsAhead(a)' < StepsAhead(a)
         /\ pc'[a] = stage /\ \A b \in Attempt \ {a} : pc'[b] = pc[b]
  <1>1. pc'[a] = stage /\ \A b \in Attempt \ {a} : pc'[b] = pc[b]
    BY StageMoves
  <1>2. StepsAhead(a)' < StepsAhead(a)
    <2>1. CASE pc[a] = "checking"
      <3>1. StepsAhead(a)' = 1
        BY <1>1, <2>1 DEF StepsAhead
      <3>2. StepsAhead(a) \in Nat /\ StepsAhead(a) > 7
        BY <2>1, AheadCounts
      <3>3. QED
        BY <3>1, <3>2
    <2>2. CASE pc[a] # "checking"
      BY <1>1, <2>2 DEF StepsAhead
    <2>3. QED
      BY <2>1, <2>2
  <1>3. QED
    BY <1>1, <1>2 DEF OnlyAdvances

(* The backend's steps. *)
LEMMA HandleAdvances ==
  ASSUME ClaimInv, NEW a \in Attempt, Handle(a)
  PROVE  /\ \A b \in Attempt : OnlyAdvances(b)
         /\ StepsAhead(a)' < StepsAhead(a)
         /\ waitsFor' = waitsFor /\ pc'[a] \notin {"new", "over"}
         /\ \A b \in Attempt \ {a} : pc'[b] = pc[b]
  <1>1. CASE CheckNext(a)
    <2>1. pc[a] = "checking" /\ AttemptOK(a)
      BY <1>1 DEF CheckNext, ClaimInv
    <2>2. PICK n \in Nat, m \in Nat : n = Len(request[a].nullifiers) /\ m = checked[a] /\ m < n
      BY <2>1 DEF AttemptOK, ClaimSoFar, Clicked
    <2>3. PICK stage \in {"claim", "checking"} : Goto(a, stage) /\ (stage = "claim" <=> m + 1 = n)
      <3>1. Goto(a, IF m + 1 = n THEN "claim" ELSE "checking")
        BY <1>1, <2>2 DEF CheckNext
      <3>2. QED
        BY <3>1
    <2>4. pc'[a] = stage /\ \A b \in Attempt \ {a} : pc'[b] = pc[b]
      BY <2>3, StageMoves DEF Stage
    <2>5. checked'[a] = m + 1 /\ (\A b \in Attempt \ {a} : checked'[b] = checked[b])
          /\ UNCHANGED <<request, waitsFor>>
      BY <1>1, <2>2 DEF CheckNext, page, ClaimInv, AttemptsTyped
    <2>6. StepsAhead(a) = n - m + 7
      BY <2>1, <2>2 DEF StepsAhead
    <2>7. StepsAhead(a)' = IF stage = "claim" THEN 7 ELSE n - (m + 1) + 7
      BY <2>2, <2>3, <2>4, <2>5 DEF StepsAhead
    <2>8. StepsAhead(a)' < StepsAhead(a)
      BY <2>2, <2>6, <2>7
    <2>9. QED
      BY <2>3, <2>4, <2>5, <2>8 DEF OnlyAdvances
  <1>2. CASE ~CheckNext(a)
    <2>1. UNCHANGED <<request, checked, waitsFor>>
      BY <1>2 DEF Handle, Relay, Lookup, InsertNullifier, InsertCertificate, DbError, page
    <2>2. \E stage \in Stage \ {"new", "checking", "over"} :
            /\ Goto(a, stage)
            /\ \/ pc[a] = "checking" /\ stage = "failed"
               \/ pc[a] = "relayed" /\ stage \in {"lookup", "refused"}
               \/ pc[a] = "lookup" /\ stage \in {"insert", "refused", "failed"}
               \/ pc[a] = "insert" /\ stage \in {"certify", "failed"}
               \/ pc[a] = "certify" /\ stage \in {"compliant", "failed"}
      <3>1. CASE Relay(a)
        BY <3>1 DEF Relay, Stage
      <3>2. CASE Lookup(a)
        BY <3>2 DEF Lookup, Stage
      <3>3. CASE InsertNullifier(a)
        BY <3>3 DEF InsertNullifier, Stage
      <3>4. CASE InsertCertificate(a)
        BY <3>4 DEF InsertCertificate, Stage
      <3>5. CASE DbError(a)
        BY <3>5 DEF DbError, Handling, Stage
      <3>6. QED
        BY <1>2, <3>1, <3>2, <3>3, <3>4, <3>5 DEF Handle
    <2>3. PICK stage \in Stage \ {"new", "checking", "over"} :
            /\ Goto(a, stage)
            /\ \/ pc[a] = "checking" /\ stage = "failed"
               \/ pc[a] = "relayed" /\ stage \in {"lookup", "refused"}
               \/ pc[a] = "lookup" /\ stage \in {"insert", "refused", "failed"}
               \/ pc[a] = "insert" /\ stage \in {"certify", "failed"}
               \/ pc[a] = "certify" /\ stage \in {"compliant", "failed"}
      BY <2>2
    <2>4. QED
      BY <2>1, <2>3, StageAdvances
  <1>3. QED
    BY <1>1, <1>2

(* The page's steps: it goes on, or is free again. *)
LEMMA ReceiveAdvances ==
  ASSUME ClaimInv, NEW p \in Page, NEW a \in Attempt, Receive(p, a)
  PROVE  /\ waitsFor[p] = a
         /\ \A b \in Attempt : OnlyAdvances(b)
         /\ \A b \in Attempt \ {a} : pc'[b] = pc[b]
         /\ \/ waitsFor' = waitsFor /\ pc'[a] \notin {"new", "over"}
            \/ waitsFor' = [waitsFor EXCEPT ![p] = NoAttempt]
         /\ NetworkError(p, a) \/ StepsAhead(a)' < StepsAhead(a)
  <1>1. CASE NetworkError(p, a)
    BY <1>1 DEF NetworkError, Done, OnlyAdvances
  <1>2. CASE ~NetworkError(p, a)
    <2>1. UNCHANGED <<request, checked>> /\ waitsFor[p] = a
      BY <1>2 DEF Receive, ClaimArrives, Proved, Answered, Done
    <2>2. \E stage \in {"proving", "relayed", "over"} :
            /\ Goto(a, stage)
            /\ \/ pc[a] = "claim" /\ stage \in {"proving", "over"}
               \/ pc[a] = "proving" /\ stage = "relayed"
               \/ pc[a] \in {"compliant", "refused", "failed"} /\ stage = "over"
            /\ IF stage = "over" THEN waitsFor' = [waitsFor EXCEPT ![p] = NoAttempt]
               ELSE waitsFor' = waitsFor
      <3>1. CASE ClaimArrives(p, a)
        BY <3>1 DEF ClaimArrives, Done
      <3>2. CASE Proved(p, a)
        BY <3>2 DEF Proved, page
      <3>3. CASE Answered(p, a)
        BY <3>3 DEF Answered, Done
      <3>4. QED
        BY <1>2, <3>1, <3>2, <3>3 DEF Receive
    <2>3. PICK stage \in {"proving", "relayed", "over"} :
            /\ Goto(a, stage)
            /\ \/ pc[a] = "claim" /\ stage \in {"proving", "over"}
               \/ pc[a] = "proving" /\ stage = "relayed"
               \/ pc[a] \in {"compliant", "refused", "failed"} /\ stage = "over"
            /\ IF stage = "over" THEN waitsFor' = [waitsFor EXCEPT ![p] = NoAttempt]
               ELSE waitsFor' = waitsFor
      BY <2>2
    <2>4. stage \in Stage \ {"new", "checking"}
      BY <2>3 DEF Stage
    <2>5. QED
      BY <2>1, <2>3, <2>4, StageAdvances
  <1>3. QED
    BY <1>1, <1>2

(* The others' steps move no attempt on but to its failure. *)
LEMMA RestAdvances ==
  ASSUME ClaimInv, Restart \/ (\E n \in Retirement : Retire(n)) \/ UNCHANGED vars
  PROVE  /\ \A b \in Attempt : OnlyAdvances(b)
         /\ waitsFor' = waitsFor
         /\ \A b \in Attempt : pc'[b] \in {pc[b], "failed"}
  <1>1. CASE Restart
    <2>1. waitsFor' = waitsFor /\ UNCHANGED <<request, checked>>
          /\ \A b \in Attempt : pc'[b] = IF pc[b] \in Handling THEN "failed" ELSE pc[b]
      BY <1>1 DEF Restart, page
    <2>2. ASSUME NEW b \in Attempt, pc[b] \in Handling PROVE StepsAhead(b)' < StepsAhead(b)
      <3>1. StepsAhead(b)' = 1
        BY <2>1, <2>2 DEF StepsAhead
      <3>2. CASE pc[b] = "checking"
        <4>1. StepsAhead(b) \in Nat /\ StepsAhead(b) > 7
          BY <3>2, AheadCounts
        <4>2. QED
          BY <3>1, <4>1
      <3>3. CASE pc[b] # "checking"
        BY <2>2, <3>1, <3>3 DEF Handling, StepsAhead
      <3>4. QED
        BY <3>2, <3>3
    <2>3. QED
      BY <2>1, <2>2 DEF OnlyAdvances
  <1>2. CASE \E n \in Retirement : Retire(n)
    BY <1>2 DEF Retire, page, OnlyAdvances
  <1>3. CASE UNCHANGED vars
    BY <1>3 DEF vars, page, OnlyAdvances
  <1>4. QED
    BY <1>1, <1>2, <1>3

(* A click waits for an attempt that is new to every page. *)
LEMMA ClickWaits ==
  ASSUME ClaimInv, BusyInv, NEW p \in Page, NEW form \in Form, NEW secret \in Secret,
         NEW period \in Period, Click(p, form, secret, period)
  PROVE  (\A b \in Attempt : OnlyAdvances(b)) /\ BusyInv'
  <1>1. PICK a \in Attempt : a = attempts + 1 /\ attempts' = a
    BY ClaimAssumption DEF Click, ClaimInv, AttemptsTyped, Attempt
  <1>2. pc[a] = "new" /\ a # NoAttempt
    <2>1. AttemptOK(a) /\ a > attempts
      BY <1>1, ClaimAssumption DEF ClaimInv, AttemptsTyped
    <2>2. QED
      BY <2>1 DEF AttemptOK, Attempt, NoAttempt
  <1>3. /\ pc'[a] = "checking" /\ waitsFor' = [waitsFor EXCEPT ![p] = a] /\ checked' = checked
        /\ \A b \in Attempt \ {a} : pc'[b] = pc[b] /\ request'[b] = request[b]
    BY <1>1 DEF Click, Goto, ClaimInv, AttemptsTyped
  <1>4. ASSUME NEW b \in Attempt PROVE OnlyAdvances(b)
    BY <1>2, <1>3 DEF OnlyAdvances
  <1>5. \A q \in Page : /\ waitsFor[q] \in Attempt \cup {NoAttempt} /\ waitsFor[q] # a
                        /\ waitsFor'[q] = IF q = p THEN a ELSE waitsFor[q]
    BY <1>2, <1>3 DEF BusyInv, ClaimInv, PagesTyped
  <1>6. BusyInv'
    <2> SUFFICES ASSUME NEW q \in Page, waitsFor'[q] # NoAttempt
                 PROVE  /\ pc'[waitsFor'[q]] \notin {"new", "over"}
                        /\ \A t \in Page : waitsFor'[t] = waitsFor'[q] => t = q
      BY DEF BusyInv
    <2>1. CASE q = p
      BY <1>3, <1>5, <2>1
    <2>2. CASE q # p
      <3>1. waitsFor[q] # NoAttempt /\ waitsFor'[q] = waitsFor[q] /\ waitsFor[q] \in Attempt \ {a}
        BY <1>5, <2>2
      <3>2. pc[waitsFor[q]] \notin {"new", "over"} /\ \A t \in Page : waitsFor[t] = waitsFor[q] => t = q
        BY <3>1 DEF BusyInv
      <3>3. QED
        BY <1>3, <1>5, <3>1, <3>2
    <2>3. QED
      BY <2>1, <2>2
  <1>7. QED
    BY <1>4, <1>6

(* Every step moves attempts on only, and leaves no page behind. *)
LEMMA StepAdvances ==
  ASSUME ClaimInv, BusyInv, [Next]_vars
  PROVE  (\A b \in Attempt : OnlyAdvances(b)) /\ BusyInv'
  <1>1. waitsFor \in [Page -> Attempt \cup {NoAttempt}] /\ NoAttempt \notin Attempt
    BY DEF ClaimInv, PagesTyped, Attempt, NoAttempt
  <1>2. ASSUME waitsFor' = waitsFor,
               \A b \in Attempt : pc[b] \notin {"new", "over"} => pc'[b] \notin {"new", "over"}
        PROVE  BusyInv'
    BY <1>1, <1>2 DEF BusyInv
  <1>3. ASSUME NEW p \in Page, NEW a \in Attempt, waitsFor[p] = a,
               waitsFor' = [waitsFor EXCEPT ![p] = NoAttempt],
               \A b \in Attempt \ {a} : pc'[b] = pc[b]
        PROVE  BusyInv'
    <2>1. \A q \in Page : waitsFor'[q] = IF q = p THEN NoAttempt ELSE waitsFor[q]
      BY <1>1, <1>3
    <2>2. ASSUME NEW q \in Page, waitsFor'[q] # NoAttempt
          PROVE  /\ pc'[waitsFor'[q]] \notin {"new", "over"}
                 /\ \A t \in Page : waitsFor'[t] = waitsFor'[q] => t = q
      <3>1. q # p /\ waitsFor'[q] = waitsFor[q] /\ waitsFor[q] \in Attempt
        BY <1>1, <2>1, <2>2
      <3>2. waitsFor[q] # a
        BY <1>1, <1>3, <3>1 DEF BusyInv
      <3>3. pc'[waitsFor[q]] = pc[waitsFor[q]]
        BY <1>3, <3>1, <3>2
      <3>4. pc[waitsFor[q]] \notin {"new", "over"} /\ \A t \in Page : waitsFor[t] = waitsFor[q] => t = q
        BY <1>1, <3>1 DEF BusyInv
      <3>5. QED
        BY <2>1, <2>2, <3>1, <3>3, <3>4
    <2>3. QED
      BY <2>2 DEF BusyInv
  <1>4. CASE Restart \/ (\E n \in Retirement : Retire(n)) \/ UNCHANGED vars
    BY <1>2, <1>4, RestAdvances
  <1>5. ASSUME NEW p \in Page, NEW form \in Form, NEW s \in Secret, NEW k \in Period, Click(p, form, s, k)
        PROVE  (\A b \in Attempt : OnlyAdvances(b)) /\ BusyInv'
    BY <1>5, ClickWaits
  <1>6. ASSUME NEW a \in Attempt, Handle(a)
        PROVE  (\A b \in Attempt : OnlyAdvances(b)) /\ BusyInv'
    BY <1>2, <1>6, HandleAdvances
  <1>7. ASSUME NEW a \in Attempt, NEW p \in Page, Receive(p, a)
        PROVE  (\A b \in Attempt : OnlyAdvances(b)) /\ BusyInv'
    <2>1. (\A b \in Attempt : OnlyAdvances(b)) /\ waitsFor[p] = a
          /\ \A b \in Attempt \ {a} : pc'[b] = pc[b]
      BY <1>7, ReceiveAdvances
    <2>2. CASE waitsFor' = waitsFor /\ pc'[a] \notin {"new", "over"}
      BY <1>2, <2>1, <2>2
    <2>3. CASE waitsFor' = [waitsFor EXCEPT ![p] = NoAttempt]
      BY <1>3, <2>1, <2>3
    <2>4. QED
      BY <1>7, <2>1, <2>2, <2>3, ReceiveAdvances
  <1>8. QED
    BY <1>4, <1>5, <1>6, <1>7 DEF Next

--------------------------------------------------------------------------------
(* The theorems. *)

(* The inductive invariant holds in every reachable state. *)
THEOREM ClaimInvariant == Spec => []ClaimInv
  BY InitClaims, StepClaims, PTL DEF Spec

(* The type invariant; the circuit gets as many volumes as nullifiers. *)
THEOREM ClaimTyped == Spec => []ClaimTypeOK
  BY ClaimInvariant, Typed, PTL

(* No retirement's tonnes are counted for another, whichever of the *)
(* nullifiers the backend leaves out (net-zero-claim.component.ts). *)
THEOREM TonnesBelong == Spec => []VolumesBelong
  BY ClaimInvariant, Belong, PTL

(* What a page shows as compliant is stored as certified, for that very *)
(* attempt, whatever was restarted since (proof.service.ts).            *)
THEOREM CompliantHasCertificate == Spec => []CompliantIsCertified
  BY ClaimInvariant, ShownIsCertified, PTL

(* A claim that looks up a certified nullifier is refused or fails: the  *)
(* row is stored before its certificate and outlives the backend's Set.  *)
THEOREM CertifiedOnceForAll == Spec => LaterClaimIsRefused
  <1>1. ClaimInv /\ [Next]_vars =>
          [\A a \in Attempt : pc[a] = "lookup" /\ posted[a].nullifier \in Certified
             => pc'[a] \in {"lookup", "refused", "failed"}]_vars
    BY LaterSteps
  <1>2. QED
    BY <1>1, ClaimInvariant, PTL DEF Spec, LaterClaimIsRefused

(* An honest claim that fills the circuit is really proved: the paths that *)
(* ComplianceService computes are those the circuit asserts, for every list *)
(* of retirements and every depth of the trees (compliance.service.ts).    *)
THEOREM HonestClaimProved == Spec => []HonestClaimIsProved
  <1>1. Spec => []PostedInv
    BY InitPosted, ClaimInvariant, StepPosted, PTL DEF Spec
  <1>2. QED
    BY <1>1, ClaimInvariant, HonestIsReal, PTL

(* Why a page gets free: it is busy only with an attempt that has steps    *)
(* ahead of it, which is no other page's, and no step of anyone, a failure *)
(* or a restart included, takes an attempt anywhere but nearer its end; a  *)
(* step of its own handler always does.                                    *)
THEOREM AttemptsOnlyAdvance ==
  Spec => /\ [](\A p \in Page : waitsFor[p] # NoAttempt =>
                  /\ StepsAhead(waitsFor[p]) \in Nat \ {0}
                  /\ \A q \in Page : waitsFor[q] = waitsFor[p] => q = p)
          /\ [][/\ \A a \in Attempt : OnlyAdvances(a)
                /\ \A a \in Attempt : Handle(a) => StepsAhead(a)' < StepsAhead(a)]_vars
  <1>1. Init => BusyInv
    BY DEF Init, BusyInv
  <1>2. ClaimInv /\ BusyInv /\ [Next]_vars => BusyInv'
    BY StepAdvances
  <1>3. ClaimInv /\ BusyInv /\ [Next]_vars
          => [/\ \A a \in Attempt : OnlyAdvances(a)
              /\ \A a \in Attempt : Handle(a) => StepsAhead(a)' < StepsAhead(a)]_vars
    BY StepAdvances, HandleAdvances
  <1>4. ClaimInv /\ BusyInv => \A p \in Page : waitsFor[p] # NoAttempt =>
                                 /\ StepsAhead(waitsFor[p]) \in Nat \ {0}
                                 /\ \A q \in Page : waitsFor[q] = waitsFor[p] => q = p
    BY AheadCounts DEF BusyInv, ClaimInv, PagesTyped
  <1>5. QED
    BY <1>1, <1>2, <1>3, <1>4, ClaimInvariant, PTL DEF Spec
================================================================================
