--------------------------- MODULE ProofRelay_proofs ---------------------------
(***************************************************************************)
(* What the contracts guarantee for every set of users, nullifiers and     *)
(* corridors and any number of credits, and what the relay keeps over them *)
(* for any number of requests, polls and restarts.                         *)
(*                                                                         *)
(* The contracts' part rests on one fact about each call (StepCases): only *)
(* verify_retirement and a direct burn retire a credit, and each retires   *)
(* exactly one credit that was live.                                       *)
(***************************************************************************)
EXTENDS ProofRelay, TLAPS

--------------------------------------------------------------------------------
(* The contracts. *)

(* Overwriting one element of a sequence keeps its type and its length. *)
LEMMA UpdateTyped ==
  ASSUME NEW S, NEW s \in Seq(S), NEW i \in DOMAIN s, NEW x \in S
  PROVE  /\ [s EXCEPT ![i] = x] \in Seq(S)
         /\ Len([s EXCEPT ![i] = x]) = Len(s)
  OBVIOUS

(* A burn, by the verifier or directly, keeps `credits` a list of credits. *)
LEMMA BurnTyped ==
  ASSUME TypeOK, NEW t, NEW owner, NEW n \in Nullifier, NEW auth,
         CR!BurnOnRetirement(t, owner, n, auth)
  PROVE  /\ credits' \in Seq(CR!Credit)
         /\ Len(credits') <= MaxCredits
<1>. DEFINE c == [credits[t] EXCEPT !.is_retired = TRUE, !.nullifier = n]
<1>1. t \in DOMAIN credits /\ credits' = [credits EXCEPT ![t] = c]
  BY DEF CR!BurnOnRetirement, CR!MayBurn
<1>2. credits[t] \in CR!Credit
  BY <1>1 DEF TypeOK
<1>3. c \in CR!Credit
  BY <1>2 DEF CR!Credit
<1>. QED
  BY <1>1, <1>3, UpdateTyped DEF TypeOK

(* The contracts start well typed. *)
LEMMA InitTyped == Init => TypeOK
<1>. SUFFICES ASSUME Init PROVE TypeOK
  OBVIOUS
<1>1. credits \in Seq(CR!Credit) /\ Len(credits) <= MaxCredits
  BY DataAssumption DEF Init, CR!Init
<1>2. log \in Seq(Event)
  BY DEF Init
<1>3. records \in [Nullifier -> Corridor \cup {NoRecord}]
  BY DEF Init
<1>. QED
  BY <1>1, <1>2, <1>3, AddressAssumption DEF Init, TypeOK, NR!Init, CR!Init

(* Every call keeps the types of the contracts' storage and of the log. *)
LEMMA StepTyped == TypeOK /\ [Next]_vars => TypeOK'
<1>. SUFFICES ASSUME TypeOK, [Next]_vars PROVE TypeOK'
  OBVIOUS
<1>. USE AddressAssumption, DataAssumption DEF TypeOK, nrVars, crVars, rvVars
<1>1. CASE Initialize
  BY <1>1 DEF Initialize
<1>2. ASSUME NEW enabled \in BOOLEAN, SetTestMode(enabled) PROVE TypeOK'
  BY <1>2 DEF SetTestMode
<1>3. ASSUME NEW n \in Nullifier, NEW c \in Corridor, NEW t \in 1..MaxCredits,
             NEW owner \in Address, NEW signer \in Account,
             VerifyRetirement(n, c, t, owner, signer)
      PROVE  TypeOK'
  <2>1. used' \subseteq Nullifier /\ count' \in Nat
    BY <1>3 DEF VerifyRetirement, NR!Record
  <2>2. credits' \in Seq(CR!Credit) /\ Len(credits') <= MaxCredits
    BY <1>3, BurnTyped DEF VerifyRetirement
  <2>3. records' \in [Nullifier -> Corridor \cup {NoRecord}]
    BY <1>3 DEF VerifyRetirement
  <2>4. log' \in Seq(Event)
    <3>1. <<Nullified(n), Burned(t, n), Retired(n, c)>> \in Seq(Event)
      BY DEF Event, Nullified, Burned, Retired
    <3>. QED  BY <3>1, <1>3 DEF VerifyRetirement
  <2>. QED
    BY <1>3, <2>1, <2>2, <2>3, <2>4 DEF VerifyRetirement, NR!Record, CR!BurnOnRetirement
<1>4. ASSUME NEW v \in Address, NRInitialize(v) PROVE TypeOK'
  BY <1>4 DEF NRInitialize, NR!Initialize
<1>5. ASSUME NEW n \in Nullifier, NEW caller \in RecordCaller, DirectRecord(n, caller)
      PROVE  TypeOK'
  BY <1>5 DEF DirectRecord, NR!Record, Event, Nullified
<1>6. ASSUME NEW a \in Account, CRInitialize(a) PROVE TypeOK'
  BY <1>6 DEF CRInitialize, CR!Initialize, Address
<1>7. ASSUME NEW to \in Address, NEW signer \in Account, IssueCredit(to, signer)
      PROVE  TypeOK'
  <2>1. [owner |-> to, is_retired |-> FALSE, nullifier |-> ZeroNullifier] \in CR!Credit
    BY DEF CR!Credit
  <2>2. credits' \in Seq(CR!Credit) /\ Len(credits') <= MaxCredits
    BY <1>7, <2>1 DEF IssueCredit, CR!IssueCredit
  <2>. QED
    BY <1>7, <2>2 DEF IssueCredit, CR!IssueCredit
<1>8. ASSUME NEW t \in 1..MaxCredits, NEW to \in Address, NEW signer \in Account,
             TransferCredit(t, to, signer)
      PROVE  TypeOK'
  <2>. DEFINE moved == [credits[t] EXCEPT !.owner = to]
  <2>1. t \in DOMAIN credits /\ credits' = [credits EXCEPT ![t] = moved]
    BY <1>8 DEF TransferCredit, CR!TransferCredit
  <2>2. moved \in CR!Credit
    <3>1. credits[t] \in CR!Credit
      BY <2>1
    <3>. QED  BY <3>1 DEF CR!Credit
  <2>3. credits' \in Seq(CR!Credit) /\ Len(credits') <= MaxCredits
    BY <2>1, <2>2, UpdateTyped
  <2>. QED
    BY <1>8, <2>3 DEF TransferCredit, CR!TransferCredit
<1>9. ASSUME NEW v \in VerifierChoice, NEW signer \in Account, SetVerifier(v, signer)
      PROVE  TypeOK'
  BY <1>9 DEF SetVerifier, CR!SetVerifier
<1>10. ASSUME NEW t \in 1..MaxCredits, NEW owner \in Address, NEW n \in Nullifier,
              NEW signer \in Account, DirectBurn(t, owner, n, signer)
       PROVE  TypeOK'
  <2>1. credits' \in Seq(CR!Credit) /\ Len(credits') <= MaxCredits
    BY <1>10, BurnTyped DEF DirectBurn
  <2>2. log' \in Seq(Event)
    BY <1>10 DEF DirectBurn, Event, Burned
  <2>. QED
    BY <1>10, <2>1, <2>2 DEF DirectBurn, CR!BurnOnRetirement
<1>11. CASE UNCHANGED vars
  BY <1>11 DEF vars
<1>. QED
  BY <1>1, <1>2, <1>3, <1>4, <1>5, <1>6, <1>7, <1>8, <1>9, <1>10, <1>11 DEF Next

(* The contracts' storage and the log are always well typed. *)
THEOREM TypeCorrect == Spec => []TypeOK
  BY InitTyped, StepTyped, PTL DEF Spec

--------------------------------------------------------------------------------
(* A burn retires exactly one credit, a live one, under the nullifier given. *)
LEMMA BurnEffect ==
  ASSUME TypeOK, NEW t, NEW owner, NEW n \in Nullifier, NEW auth,
         CR!BurnOnRetirement(t, owner, n, auth)
  PROVE  /\ \A m \in Nullifier : ~RetiredWith(t, m)
         /\ \A m \in Nullifier, s \in 1..MaxCredits :
              RetiredWith(s, m)' <=> RetiredWith(s, m) \/ (s = t /\ m = n)
<1>1. t \in DOMAIN credits /\ ~credits[t].is_retired
  BY DEF CR!BurnOnRetirement, CR!MayBurn
<1>2. credits[t] \in CR!Credit
  BY <1>1 DEF TypeOK
<1>3. /\ DOMAIN credits' = DOMAIN credits
      /\ credits'[t].is_retired
      /\ credits'[t].nullifier = n
      /\ \A s \in DOMAIN credits : s # t => credits'[s] = credits[s]
  BY <1>1, <1>2 DEF TypeOK, CR!BurnOnRetirement, CR!Credit
<1>. QED
  BY <1>1, <1>3 DEF RetiredWith

(* Every other call leaves the retirements as they were. *)
LEMMA StepCases ==
  ASSUME TypeOK, [Next]_vars
  PROVE  \/ \E n \in Nullifier, c \in Corridor, t \in 1..MaxCredits,
               owner \in Address, signer \in Account :
              VerifyRetirement(n, c, t, owner, signer)
         \/ \E t \in 1..MaxCredits, owner \in Address, n \in Nullifier,
               signer \in Account : DirectBurn(t, owner, n, signer)
         \/ /\ records' = records
            /\ \A n \in Nullifier, t \in 1..MaxCredits :
                 RetiredWith(t, n)' <=> RetiredWith(t, n)
<1>. DEFINE Quiet == /\ records' = records
                     /\ \A n \in Nullifier, t \in 1..MaxCredits :
                          RetiredWith(t, n)' <=> RetiredWith(t, n)
<1>. USE DEF nrVars, crVars, rvVars, RetiredWith
<1>1. CASE Initialize
  BY <1>1 DEF Initialize
<1>2. ASSUME NEW enabled \in BOOLEAN, SetTestMode(enabled) PROVE Quiet
  BY <1>2 DEF SetTestMode
<1>4. ASSUME NEW v \in Address, NRInitialize(v) PROVE Quiet
  BY <1>4 DEF NRInitialize, NR!Initialize
<1>5. ASSUME NEW n \in Nullifier, NEW caller \in RecordCaller, DirectRecord(n, caller)
      PROVE  Quiet
  BY <1>5 DEF DirectRecord
<1>6. ASSUME NEW a \in Account, CRInitialize(a) PROVE Quiet
  BY <1>6 DEF CRInitialize, CR!Initialize
<1>7. ASSUME NEW to \in Address, NEW signer \in Account, IssueCredit(to, signer)
      PROVE  Quiet
  <2>1. /\ DOMAIN credits' = DOMAIN credits \cup {Len(credits) + 1}
        /\ ~credits'[Len(credits) + 1].is_retired
        /\ \A t \in DOMAIN credits : credits'[t] = credits[t]
    BY <1>7 DEF IssueCredit, CR!IssueCredit, TypeOK
  <2>. QED  BY <1>7, <2>1 DEF IssueCredit, TypeOK
<1>8. ASSUME NEW t \in 1..MaxCredits, NEW to \in Address, NEW signer \in Account,
             TransferCredit(t, to, signer)
      PROVE  Quiet
  <2>1. t \in DOMAIN credits /\ credits[t] \in CR!Credit
    BY <1>8 DEF TransferCredit, CR!TransferCredit, TypeOK
  <2>2. /\ DOMAIN credits' = DOMAIN credits
        /\ credits'[t].is_retired = credits[t].is_retired
        /\ credits'[t].nullifier = credits[t].nullifier
        /\ \A s \in DOMAIN credits : s # t => credits'[s] = credits[s]
    BY <1>8, <2>1 DEF TransferCredit, CR!TransferCredit, CR!Credit, TypeOK
  <2>. QED  BY <1>8, <2>1, <2>2 DEF TransferCredit
<1>9. ASSUME NEW v \in VerifierChoice, NEW signer \in Account, SetVerifier(v, signer)
      PROVE  Quiet
  BY <1>9 DEF SetVerifier, CR!SetVerifier
<1>11. CASE UNCHANGED vars
  BY <1>11 DEF vars
<1>. QED
  BY <1>1, <1>2, <1>4, <1>5, <1>6, <1>7, <1>8, <1>9, <1>11 DEF Next

(* verify_retirement: one live credit retired, one fresh nullifier spent,  *)
(* one record written, all under the same nullifier.                       *)
LEMMA VerifyEffect ==
  ASSUME TypeOK, NEW n \in Nullifier, NEW c \in Corridor, NEW t \in 1..MaxCredits,
         NEW owner \in Address, NEW signer \in Account,
         VerifyRetirement(n, c, t, owner, signer)
  PROVE  /\ \A m \in Nullifier : ~RetiredWith(t, m)
         /\ \A m \in Nullifier, s \in 1..MaxCredits :
              RetiredWith(s, m)' <=> RetiredWith(s, m) \/ (s = t /\ m = n)
         /\ \A m \in Nullifier : Recorded(m)' <=> Recorded(m) \/ m = n
         /\ n \notin used /\ used' = used \cup {n}
         /\ authorized' = authorized
<1>1. CR!BurnOnRetirement(t, owner, n, {Self, signer})
  BY DEF VerifyRetirement
<1>2. /\ \A m \in Nullifier : ~RetiredWith(t, m)
      /\ \A m \in Nullifier, s \in 1..MaxCredits :
           RetiredWith(s, m)' <=> RetiredWith(s, m) \/ (s = t /\ m = n)
  BY <1>1, BurnEffect
<1>3. \A m \in Nullifier : Recorded(m)' <=> Recorded(m) \/ m = n
  BY DataAssumption DEF VerifyRetirement, Recorded, TypeOK
<1>. QED
  BY <1>2, <1>3 DEF VerifyRetirement, NR!Record, NR!IsUsed

--------------------------------------------------------------------------------
(* Before the registry is initialised nothing is used: without it a        *)
(* nullifier used in the meantime would survive its initialisation.        *)
NothingUsedYet == authorized = NoAddress => used = {}

(* The invariant that is inductive whoever may burn. *)
Backed ==
  /\ TypeOK
  /\ RecordsBackedByBurn
  /\ UsedMatchesRecords
  /\ NothingUsedYet

(* The contracts start backed. *)
LEMMA InitBacked == Init => Backed
  BY InitTyped DEF Init, NR!Init, Backed, RecordsBackedByBurn, UsedMatchesRecords,
     NothingUsedYet, Recorded

(* Every call keeps the records, the burns and the nullifiers in step. *)
LEMMA StepBacked == Backed /\ [Next]_vars => Backed'
<1>. SUFFICES ASSUME Backed, [Next]_vars
              PROVE  RecordsBackedByBurn' /\ UsedMatchesRecords' /\ NothingUsedYet'
  BY StepTyped DEF Backed
<1>. USE DEF Backed
<1>1. RecordsBackedByBurn'
  <2>1. ASSUME NEW n \in Nullifier, NEW c \in Corridor, NEW t \in 1..MaxCredits,
               NEW owner \in Address, NEW signer \in Account,
               VerifyRetirement(n, c, t, owner, signer)
        PROVE  RecordsBackedByBurn'
    BY <2>1, VerifyEffect DEF RecordsBackedByBurn
  <2>2. ASSUME NEW t \in 1..MaxCredits, NEW owner \in Address, NEW n \in Nullifier,
               NEW signer \in Account, DirectBurn(t, owner, n, signer)
        PROVE  RecordsBackedByBurn'
    <3>1. CR!BurnOnRetirement(t, owner, n, {signer}) /\ records' = records
      BY <2>2 DEF DirectBurn
    <3>2. \A m \in Nullifier, s \in 1..MaxCredits :
            RetiredWith(s, m) => RetiredWith(s, m)'
      BY <3>1, BurnEffect
    <3>. QED  BY <3>1, <3>2 DEF RecordsBackedByBurn, Recorded
  <2>3. ASSUME records' = records,
               \A n \in Nullifier, t \in 1..MaxCredits :
                 RetiredWith(t, n)' <=> RetiredWith(t, n)
        PROVE  RecordsBackedByBurn'
    BY <2>3 DEF RecordsBackedByBurn, Recorded
  <2>. QED  BY <2>1, <2>2, <2>3, StepCases
<1>2. UsedMatchesRecords' /\ NothingUsedYet'
  <2>. USE DEF UsedMatchesRecords, NothingUsedYet
  <2>1. ASSUME NEW n \in Nullifier, NEW c \in Corridor, NEW t \in 1..MaxCredits,
               NEW owner \in Address, NEW signer \in Account,
               VerifyRetirement(n, c, t, owner, signer)
        PROVE  UsedMatchesRecords' /\ NothingUsedYet'
    <3>1. authorized # NoAddress
      BY <2>1 DEF VerifyRetirement, VerifyReturnsTrue, NR!CallerAuthorized
    <3>2. used' = used \cup {n} /\ authorized' = authorized
      BY <2>1, VerifyEffect
    <3>3. \A m \in Nullifier : Recorded(m)' <=> Recorded(m) \/ m = n
      BY <2>1, VerifyEffect
    <3>. QED  BY <3>1, <3>2, <3>3 DEF TypeOK
  <2>2. ASSUME NEW n \in Nullifier, NEW caller \in RecordCaller, DirectRecord(n, caller)
        PROVE  UsedMatchesRecords' /\ NothingUsedYet'
    <3>1. authorized = caller /\ authorized # NoAddress
      BY <2>2, AddressAssumption DEF DirectRecord, NR!Record, NR!CallerAuthorized
    <3>. QED  BY <2>2, <3>1 DEF DirectRecord, NR!Record, Recorded
  <2>3. ASSUME NEW v \in Address, NRInitialize(v)
        PROVE  UsedMatchesRecords' /\ NothingUsedYet'
    BY <2>3, AddressAssumption DEF NRInitialize, NR!Initialize, Recorded, rvVars
  <2>4. ASSUME UNCHANGED nrVars, UNCHANGED records
        PROVE  UsedMatchesRecords' /\ NothingUsedYet'
    BY <2>4 DEF nrVars, Recorded
  <2>. QED
    BY <2>1, <2>2, <2>3, <2>4
    DEF Next, Initialize, SetTestMode, CRInitialize, IssueCredit, TransferCredit,
        SetVerifier, DirectBurn, vars, nrVars, rvVars
<1>. QED  BY <1>1, <1>2

(* Whoever the admin lets burn, and whatever accounts do directly with the *)
(* registries, each retirement record has its burned credit and its used   *)
(* nullifier, and where only the verifier contract calls record in its own *)
(* name, a used nullifier has its record.                                  *)
THEOREM RetirementsBacked == Spec => [](RecordsBackedByBurn /\ UsedMatchesRecords)
<1>1. Spec => []Backed
  BY InitBacked, StepBacked, PTL DEF Spec
<1>2. Backed => RecordsBackedByBurn /\ UsedMatchesRecords
  BY DEF Backed
<1>. QED  BY <1>1, <1>2, PTL

(* A retirement record always has its burned credit. *)
THEOREM NoRecordWithoutBurn == Spec => []RecordsBackedByBurn
<1>1. RecordsBackedByBurn /\ UsedMatchesRecords => RecordsBackedByBurn
  OBVIOUS
<1>. QED  BY <1>1, RetirementsBacked, PTL

--------------------------------------------------------------------------------
(* What RetiredEventsMatchRecords asks of one retired event. *)
Matched(i) ==
  /\ log[i].corridor = records[log[i].nullifier]
  /\ i > 2
  /\ log[i - 2] = Nullified(log[i].nullifier)
  /\ \E t \in 1..MaxCredits :
       log[i - 1] = Burned(t, log[i].nullifier) /\ RetiredWith(t, log[i].nullifier)
  /\ \A j \in DOMAIN log :
       log[j].type = "retired" /\ log[j].nullifier = log[i].nullifier => i = j

(* What a transaction adds to the log leaves the rest of it in place. *)
LEMMA LogGrows ==
  ASSUME NEW S, NEW s \in Seq(S), NEW e \in S
  PROVE  /\ Len(Append(s, e)) = Len(s) + 1
         /\ DOMAIN Append(s, e) = 1..Len(s) + 1
         /\ \A i \in 1..Len(s) : Append(s, e)[i] = s[i]
         /\ Append(s, e)[Len(s) + 1] = e
  OBVIOUS

(* A retired event is of a nullifier that has its record. *)
LEMMA RetiredIsRecorded ==
  ASSUME TypeOK, RetiredEventsMatchRecords, NEW i \in DOMAIN log, log[i].type = "retired"
  PROVE  log[i].nullifier \in Nullifier /\ Recorded(log[i].nullifier)
<1>1. log[i] \in Event
  BY DEF TypeOK
<1>2. log[i].nullifier \in Nullifier /\ log[i].corridor \in Corridor
  BY <1>1 DEF Event
<1>. QED
  BY <1>2, DataAssumption DEF RetiredEventsMatchRecords, Recorded

(* A call that writes no record and publishes at most an event of another  *)
(* type keeps the events matched, as no burned credit is ever unburned.    *)
LEMMA OtherEvents ==
  ASSUME TypeOK, RetiredEventsMatchRecords, records' = records,
         \A m \in Nullifier, s \in 1..MaxCredits : RetiredWith(s, m) => RetiredWith(s, m)',
         \/ log' = log
         \/ \E e \in Event : e.type # "retired" /\ log' = Append(log, e)
  PROVE  RetiredEventsMatchRecords'
<1>1. /\ Len(log) \in Nat /\ DOMAIN log = 1..Len(log)
      /\ DOMAIN log \subseteq DOMAIN log' /\ \A i \in DOMAIN log : log'[i] = log[i]
      /\ \A i \in DOMAIN log' : log'[i].type = "retired" => i \in DOMAIN log
  <2>1. CASE log' = log
    BY <2>1 DEF TypeOK
  <2>2. ASSUME NEW e \in Event, e.type # "retired", log' = Append(log, e)
        PROVE  <1>1!:
    BY <2>2, LogGrows DEF TypeOK
  <2>. QED  BY <2>1, <2>2
<1>2. ASSUME NEW i \in DOMAIN log', log'[i].type = "retired" PROVE Matched(i)'
  <2>1. i \in DOMAIN log /\ log'[i] = log[i]
    BY <1>1, <1>2
  <2>2. PICK m \in Nullifier : m = log[i].nullifier
    BY <1>2, <2>1, RetiredIsRecorded
  <2>3. Matched(i)
    BY <1>2, <2>1 DEF RetiredEventsMatchRecords, Matched
  <2>4. PICK t \in 1..MaxCredits : log[i - 1] = Burned(t, m) /\ RetiredWith(t, m)
    BY <2>2, <2>3 DEF Matched
  <2>5. i > 2 /\ i - 1 \in DOMAIN log /\ i - 2 \in DOMAIN log
    BY <1>1, <2>1, <2>3 DEF Matched
  <2>6. log'[i - 1] = Burned(t, m) /\ RetiredWith(t, m)' /\ log'[i - 2] = Nullified(m)
    BY <1>1, <2>2, <2>3, <2>4, <2>5 DEF Matched
  <2>7. \A j \in DOMAIN log' : log'[j].type = "retired" /\ log'[j].nullifier = m => i = j
    BY <1>1, <2>2, <2>3 DEF Matched
  <2>8. log'[i].nullifier = m /\ log'[i].corridor = records'[m]
    BY <2>1, <2>2, <2>3 DEF Matched
  <2>. QED  BY <2>5, <2>6, <2>7, <2>8 DEF Matched, RetiredWith
<1>3. ASSUME NEW n \in Nullifier, Recorded(n)'
      PROVE  \E i \in DOMAIN log' : log'[i].type = "retired" /\ log'[i].nullifier = n
  BY <1>1, <1>3 DEF RetiredEventsMatchRecords, Recorded
<1>. QED  BY <1>2, <1>3 DEF RetiredEventsMatchRecords, Matched

(* verify_retirement publishes its three events together, for a nullifier  *)
(* that had no record and therefore no event.                              *)
LEMMA VerifyEvents ==
  ASSUME Backed, RetiredEventsMatchRecords,
         NEW n \in Nullifier, NEW c \in Corridor, NEW t \in 1..MaxCredits,
         NEW owner \in Address, NEW signer \in Account,
         VerifyRetirement(n, c, t, owner, signer)
  PROVE  RetiredEventsMatchRecords'
<1>. DEFINE k == Len(log)
<1>. USE DEF Backed
<1>1. /\ k \in Nat /\ DOMAIN log = 1..k /\ DOMAIN log' = 1..(k + 3)
      /\ \A i \in 1..k : log'[i] = log[i]
      /\ log'[k + 1] = Nullified(n) /\ log'[k + 2] = Burned(t, n) /\ log'[k + 3] = Retired(n, c)
  <2>1. log \in Seq(Event) /\ log' = log \o <<Nullified(n), Burned(t, n), Retired(n, c)>>
    BY DEF VerifyRetirement, TypeOK
  <2>2. /\ Nullified(n) \in Event /\ Burned(t, n) \in Event /\ Retired(n, c) \in Event
    BY DEF Event, Nullified, Burned, Retired
  <2>. QED  BY <2>1, <2>2
<1>2. records' = [records EXCEPT ![n] = c] /\ records \in [Nullifier -> Corridor \cup {NoRecord}]
  BY DEF VerifyRetirement, TypeOK
<1>3. /\ \A m \in Nullifier, s \in 1..MaxCredits :
           RetiredWith(s, m)' <=> RetiredWith(s, m) \/ (s = t /\ m = n)
      /\ \A m \in Nullifier : Recorded(m)' <=> Recorded(m) \/ m = n
      /\ ~Recorded(n)
  BY VerifyEffect DEF UsedMatchesRecords
<1>4. \A i \in DOMAIN log' : log'[i].type = "retired" => i \in 1..k \/ i = k + 3
  BY <1>1 DEF Nullified, Burned
<1>5. \A i \in 1..k : log[i].type = "retired" =>
        log[i].nullifier \in Nullifier /\ log[i].nullifier # n
  BY <1>1, <1>3, RetiredIsRecorded
<1>6. ASSUME NEW i \in DOMAIN log', log'[i].type = "retired" PROVE Matched(i)'
  <2>1. CASE i \in 1..k
    <3>1. log'[i] = log[i] /\ log[i].type = "retired"
      BY <1>1, <1>6, <2>1
    <3>2. PICK m \in Nullifier : m = log[i].nullifier /\ m # n
      BY <1>5, <2>1, <3>1
    <3>3. Matched(i)
      BY <1>1, <2>1, <3>1 DEF RetiredEventsMatchRecords, Matched
    <3>4. PICK s \in 1..MaxCredits : log[i - 1] = Burned(s, m) /\ RetiredWith(s, m)
      BY <3>2, <3>3 DEF Matched
    <3>5. i > 2 /\ i - 1 \in 1..k /\ i - 2 \in 1..k
      BY <1>1, <2>1, <3>3 DEF Matched
    <3>6. log'[i - 1] = Burned(s, m) /\ RetiredWith(s, m)' /\ log'[i - 2] = Nullified(m)
      BY <1>1, <1>3, <3>2, <3>3, <3>4, <3>5 DEF Matched
    <3>7. log'[i].nullifier = m /\ log'[i].corridor = records'[m]
      BY <1>2, <3>1, <3>2, <3>3 DEF Matched
    <3>8. ASSUME NEW j \in DOMAIN log', log'[j].type = "retired", log'[j].nullifier = m
          PROVE  i = j
      <4>1. CASE j \in 1..k
        BY <1>1, <3>2, <3>3, <3>8, <4>1 DEF Matched
      <4>2. CASE j = k + 3
        BY <1>1, <3>2, <3>8, <4>2 DEF Retired
      <4>. QED  BY <1>4, <3>8, <4>1, <4>2
    <3>. QED  BY <3>5, <3>6, <3>7, <3>8 DEF Matched, RetiredWith
  <2>2. CASE i = k + 3
    <3>1. log'[i] = Retired(n, c) /\ i > 2 /\ i - 1 = k + 2 /\ i - 2 = k + 1
      BY <1>1, <2>2
    <3>2. log'[i].corridor = c /\ log'[i].nullifier = n
      BY <3>1 DEF Retired
    <3>3. log'[i].corridor = records'[n]
      BY <1>2, <3>2
    <3>4. log'[i - 1] = Burned(t, n) /\ RetiredWith(t, n)' /\ log'[i - 2] = Nullified(n)
      BY <1>1, <1>3, <3>1
    <3>5. ASSUME NEW j \in DOMAIN log', log'[j].type = "retired", log'[j].nullifier = n
          PROVE  i = j
      BY <1>1, <1>4, <1>5, <2>2, <3>5
    <3>. QED  BY <3>1, <3>2, <3>3, <3>4, <3>5 DEF Matched, RetiredWith
  <2>. QED  BY <1>4, <1>6, <2>1, <2>2
<1>7. ASSUME NEW m \in Nullifier, Recorded(m)'
      PROVE  \E i \in DOMAIN log' : log'[i].type = "retired" /\ log'[i].nullifier = m
  <2>1. CASE m = n
    <3>1. k + 3 \in DOMAIN log' /\ log'[k + 3].type = "retired" /\ log'[k + 3].nullifier = n
      BY <1>1 DEF Retired
    <3>. QED  BY <2>1, <3>1
  <2>2. CASE Recorded(m)
    BY <1>1, <2>2 DEF RetiredEventsMatchRecords
  <2>. QED  BY <1>3, <1>7, <2>1, <2>2
<1>. QED  BY <1>6, <1>7 DEF RetiredEventsMatchRecords, Matched

(* Every call keeps the events matched. *)
LEMMA StepEvents ==
  Backed /\ RetiredEventsMatchRecords /\ [Next]_vars => RetiredEventsMatchRecords'
<1>. SUFFICES ASSUME Backed, RetiredEventsMatchRecords, [Next]_vars
              PROVE  RetiredEventsMatchRecords'
  OBVIOUS
<1>. USE DEF Backed
<1>1. ASSUME NEW t \in 1..MaxCredits, NEW owner \in Address, NEW n \in Nullifier,
             NEW signer \in Account, DirectBurn(t, owner, n, signer)
      PROVE  RetiredEventsMatchRecords'
  <2>1. \A m \in Nullifier, s \in 1..MaxCredits : RetiredWith(s, m) => RetiredWith(s, m)'
    BY <1>1, BurnEffect DEF DirectBurn
  <2>2. Burned(t, n) \in Event /\ Burned(t, n).type # "retired"
    BY DEF Burned, Event
  <2>. QED  BY <1>1, <2>1, <2>2, OtherEvents DEF DirectBurn
<1>2. ASSUME NEW n \in Nullifier, NEW caller \in RecordCaller, DirectRecord(n, caller)
      PROVE  RetiredEventsMatchRecords'
  <2>1. \A m \in Nullifier, s \in 1..MaxCredits : RetiredWith(s, m) => RetiredWith(s, m)'
    BY <1>2 DEF DirectRecord, crVars, RetiredWith
  <2>2. Nullified(n) \in Event /\ Nullified(n).type # "retired"
    BY DEF Nullified, Event
  <2>. QED  BY <1>2, <2>1, <2>2, OtherEvents DEF DirectRecord
<1>3. ASSUME UNCHANGED <<records, log>>,
             \A m \in Nullifier, s \in 1..MaxCredits : RetiredWith(s, m)' <=> RetiredWith(s, m)
      PROVE  RetiredEventsMatchRecords'
  BY <1>3, OtherEvents
<1>4. \/ \E n \in Nullifier, c \in Corridor, t \in 1..MaxCredits, owner \in Address, signer \in Account :
           VerifyRetirement(n, c, t, owner, signer)
      \/ \E t \in 1..MaxCredits, owner \in Address, n \in Nullifier, signer \in Account :
           DirectBurn(t, owner, n, signer)
      \/ \E n \in Nullifier, caller \in RecordCaller : DirectRecord(n, caller)
      \/ log' = log
  BY DEF Next, vars, rvVars, Initialize, SetTestMode, NRInitialize, CRInitialize, IssueCredit,
         TransferCredit, SetVerifier
<1>. QED  BY <1>1, <1>2, <1>3, <1>4, StepCases, VerifyEvents

(* From the events alone an indexer rebuilds the records: each retired     *)
(* event closes its transaction's three and says what the record says, and *)
(* each record has exactly one.                                            *)
THEOREM EventsMatch == Spec => []RetiredEventsMatchRecords
<1>1. Init => Backed /\ RetiredEventsMatchRecords
  <2>1. Init => RetiredEventsMatchRecords
    BY DEF Init, RetiredEventsMatchRecords, Recorded
  <2>. QED  BY <2>1, InitBacked
<1>2. Backed /\ RetiredEventsMatchRecords /\ [Next]_vars => (Backed /\ RetiredEventsMatchRecords)'
  BY StepBacked, StepEvents
<1>. QED  BY <1>1, <1>2, PTL DEF Spec

--------------------------------------------------------------------------------
(* The invariant that is inductive once only the verifier contract burns. *)
Unique ==
  /\ Backed
  /\ BurnsAreRecorded
  /\ OneCreditPerNullifier

(* An account's own burn needs an admin that named an account. *)
LEMMA NoDirectBurn ==
  ASSUME TypeOK, VerifierChoice = {Self}, NEW t, NEW owner, NEW n, NEW signer \in Account
  PROVE  ~DirectBurn(t, owner, n, signer)
  BY AddressAssumption DEF TypeOK, DirectBurn, CR!BurnOnRetirement, CR!MayBurn

(* No credit is retired at the start. *)
LEMMA InitUnique == Init => Unique
<1>. SUFFICES ASSUME Init PROVE BurnsAreRecorded /\ OneCreditPerNullifier
  BY InitBacked DEF Unique
<1>1. \A n \in Nullifier, t \in 1..MaxCredits : ~RetiredWith(t, n)
  BY DEF Init, CR!Init, RetiredWith
<1>. QED  BY <1>1 DEF BurnsAreRecorded, OneCreditPerNullifier

(* verify_retirement keeps the retirements unique: it spends a nullifier   *)
(* that was unused, so unrecorded, so of no retired credit.                *)
LEMMA VerifyUnique ==
  ASSUME Unique, NEW n \in Nullifier, NEW c \in Corridor, NEW t \in 1..MaxCredits,
         NEW owner \in Address, NEW signer \in Account,
         VerifyRetirement(n, c, t, owner, signer)
  PROVE  Unique'
<1>. USE DEF Unique, Backed
<1>1. \A m \in Nullifier, s \in 1..MaxCredits :
        RetiredWith(s, m)' <=> RetiredWith(s, m) \/ (s = t /\ m = n)
  BY VerifyEffect
<1>2. \A m \in Nullifier : Recorded(m)' <=> Recorded(m) \/ m = n
  BY VerifyEffect
<1>3. \A s \in 1..MaxCredits : ~RetiredWith(s, n)
  <2>1. ~Recorded(n)
    BY VerifyEffect DEF UsedMatchesRecords
  <2>. QED  BY <2>1 DEF BurnsAreRecorded
<1>4. BurnsAreRecorded' /\ OneCreditPerNullifier'
  BY <1>1, <1>2, <1>3 DEF BurnsAreRecorded, OneCreditPerNullifier
<1>5. Backed'
  <2>1. Next
    BY DEF Next
  <2>. QED  BY <2>1, StepBacked
<1>. QED  BY <1>4, <1>5

(* So does every other call, once no account burns directly. *)
LEMMA StepUnique ==
  ASSUME VerifierChoice = {Self}
  PROVE  Unique /\ [Next]_vars => Unique'
<1>. SUFFICES ASSUME Unique, [Next]_vars
              PROVE  BurnsAreRecorded' /\ OneCreditPerNullifier'
  BY StepBacked DEF Unique
<1>1. ASSUME NEW n \in Nullifier, NEW c \in Corridor, NEW t \in 1..MaxCredits,
             NEW owner \in Address, NEW signer \in Account,
             VerifyRetirement(n, c, t, owner, signer)
      PROVE  BurnsAreRecorded' /\ OneCreditPerNullifier'
  BY <1>1, VerifyUnique DEF Unique
<1>2. ASSUME records' = records,
             \A n \in Nullifier, t \in 1..MaxCredits :
               RetiredWith(t, n)' <=> RetiredWith(t, n)
      PROVE  BurnsAreRecorded' /\ OneCreditPerNullifier'
  BY <1>2 DEF Unique, BurnsAreRecorded, OneCreditPerNullifier, Recorded
<1>. QED  BY <1>1, <1>2, StepCases, NoDirectBurn DEF Unique, Backed

(* When the admin only ever names the verifier contract as the burner, as  *)
(* contracts/scripts/deploy.sh does, a nullifier retires at most one credit *)
(* and every burned credit has its retirement record.                      *)
THEOREM RetirementsUnique ==
  ASSUME VerifierChoice = {Self}
  PROVE  Spec => [](OneCreditPerNullifier /\ BurnsAreRecorded)
<1>1. Init => Unique
  BY InitUnique
<1>2. Unique /\ [Next]_vars => Unique'
  BY StepUnique
<1>3. Unique => OneCreditPerNullifier /\ BurnsAreRecorded
  BY DEF Unique
<1>. QED  BY <1>1, <1>2, <1>3, PTL DEF Spec

(* Under the same premise a burned credit always has its record. *)
THEOREM NoBurnWithoutRecord ==
  ASSUME VerifierChoice = {Self}
  PROVE  Spec => []BurnsAreRecorded
<1>1. OneCreditPerNullifier /\ BurnsAreRecorded => BurnsAreRecorded
  OBVIOUS
<1>. QED  BY <1>1, RetirementsUnique, PTL

--------------------------------------------------------------------------------
(* No call touches a retired credit. *)
LEMMA RetiredCreditFrozen ==
  ASSUME TypeOK, [Next]_vars, NEW s \in DOMAIN credits, credits[s].is_retired
  PROVE  credits'[s] = credits[s]
<1>1. ASSUME NEW to \in Address, NEW signer \in Account, IssueCredit(to, signer)
      PROVE  credits'[s] = credits[s]
  BY <1>1 DEF IssueCredit, CR!IssueCredit, TypeOK
<1>2. ASSUME NEW t \in 1..MaxCredits, NEW to \in Address, NEW signer \in Account,
             TransferCredit(t, to, signer)
      PROVE  credits'[s] = credits[s]
  BY <1>2 DEF TransferCredit, CR!TransferCredit, TypeOK
<1>3. ASSUME NEW t, NEW owner, NEW n, NEW auth, CR!BurnOnRetirement(t, owner, n, auth)
      PROVE  credits'[s] = credits[s]
  BY <1>3 DEF CR!BurnOnRetirement, CR!MayBurn, TypeOK
<1>4. CASE credits' = credits
  BY <1>4
<1>. QED
  BY <1>1, <1>2, <1>3, <1>4
  DEF Next, Initialize, SetTestMode, VerifyRetirement, NRInitialize, DirectRecord,
      CRInitialize, CR!Initialize, SetVerifier, CR!SetVerifier, DirectBurn, vars, crVars

(* A retirement is final: after it no call changes the credit, and no call *)
(* rewrites a retirement record.                                           *)
THEOREM RetirementFinal == Spec => RetirementIsFinal
<1>1. ASSUME Backed, [Next]_vars, NEW n \in Nullifier, Recorded(n)
      PROVE  records'[n] = records[n]
  <2>1. ASSUME NEW m \in Nullifier, NEW c \in Corridor, NEW t \in 1..MaxCredits,
               NEW owner \in Address, NEW signer \in Account,
               VerifyRetirement(m, c, t, owner, signer)
        PROVE  records'[n] = records[n]
    <3>1. m \notin used /\ n \in used
      BY <1>1, <2>1, VerifyEffect DEF Backed, UsedMatchesRecords
    <3>. QED  BY <2>1, <3>1, <1>1 DEF VerifyRetirement, Backed, TypeOK
  <2>2. ASSUME NEW m, NEW t, NEW owner, NEW signer, DirectBurn(t, owner, m, signer)
        PROVE  records'[n] = records[n]
    BY <2>2 DEF DirectBurn
  <2>. QED  BY <1>1, <2>1, <2>2, StepCases DEF Backed
<1>2. Backed /\ [Next]_vars =>
        [/\ \A t \in DOMAIN credits : credits[t].is_retired => credits'[t] = credits[t]
         /\ \A n \in Nullifier : Recorded(n) => records'[n] = records[n]]_vars
  BY <1>1, RetiredCreditFrozen DEF Backed
<1>. QED  BY <1>2, InitBacked, StepBacked, PTL DEF Spec, RetirementIsFinal

--------------------------------------------------------------------------------
(* What the ledger sees is what the credits' metadata says. *)
LedgerView ==
  /\ \A n \in Nullifier, t \in 1..MaxCredits :
       <<n, t>> \in retirements <=> RetiredWith(t, n)
  /\ retirements \subseteq Nullifier \X (1..MaxCredits)
  /\ \A t \in DOMAIN credits : Ledger!IsRetired(t) <=> credits[t].is_retired

(* The ledger's view is exact in every well-typed state. *)
LEMMA RetirementsAre == TypeOK => LedgerView
<1>. SUFFICES ASSUME TypeOK PROVE LedgerView
  OBVIOUS
<1>1. DOMAIN credits \subseteq 1..MaxCredits
  BY DataAssumption DEF TypeOK
<1>2. \A t \in DOMAIN credits : credits[t].nullifier \in Nullifier
  <2>. TAKE t \in DOMAIN credits
  <2>1. credits[t] \in CR!Credit
    BY DEF TypeOK
  <2>. QED  BY <2>1 DEF CR!Credit
<1>3. \A n \in Nullifier, t \in 1..MaxCredits :
        <<n, t>> \in retirements <=> RetiredWith(t, n)
  BY DEF retirements, RetiredWith
<1>4. retirements \subseteq Nullifier \X (1..MaxCredits)
  BY <1>1, <1>2 DEF retirements
<1>5. \A t \in DOMAIN credits : Ledger!IsRetired(t) <=> credits[t].is_retired
  BY <1>1, <1>2, <1>3 DEF RetiredWith, Ledger!IsRetired
<1>. QED  BY <1>3, <1>4, <1>5 DEF LedgerView

(* So it is after a step that keeps the types. *)
LEMMA RetirementsAreAfter == TypeOK' => LedgerView'
  BY RetirementsAre, PTL

(* The types of the ledger's holders. *)
LEMMA OwnersAre ==
  ASSUME TypeOK
  PROVE  owners \in Seq(Address) /\ Len(owners) = Len(credits)
<1>1. \A t \in DOMAIN credits : credits[t].owner \in Address
  <2>. TAKE t \in DOMAIN credits
  <2>1. credits[t] \in CR!Credit
    BY DEF TypeOK
  <2>. QED  BY <2>1 DEF CR!Credit
<1>2. DOMAIN credits = 1..Len(credits) /\ Len(credits) \in Nat
  BY DEF TypeOK
<1>. QED  BY <1>1, <1>2 DEF owners

(* verify_retirement is the ledger's retirement. *)
LEMMA VerifyRefines ==
  ASSUME Unique, TypeOK', NEW n \in Nullifier, NEW c \in Corridor, NEW t \in 1..MaxCredits,
         NEW owner \in Address, NEW signer \in Account,
         VerifyRetirement(n, c, t, owner, signer)
  PROVE  Ledger!Retire(n, t)
<1>. USE DEF Unique, Backed
<1>1. t \in DOMAIN credits /\ ~credits[t].is_retired
  BY DEF VerifyRetirement, CR!BurnOnRetirement, CR!MayBurn
<1>2. ~Ledger!IsRetired(t)
  BY <1>1, RetirementsAre DEF LedgerView
<1>3. ~Ledger!IsSpent(n)
  <2>1. ~Recorded(n)
    BY VerifyEffect DEF UsedMatchesRecords
  <2>. QED  BY <2>1, RetirementsAre DEF LedgerView, BurnsAreRecorded, Ledger!IsSpent
<1>4. owners' = owners
  <2>1. DOMAIN credits' = DOMAIN credits
    BY <1>1 DEF VerifyRetirement, CR!BurnOnRetirement
  <2>2. \A s \in DOMAIN credits : credits'[s].owner = credits[s].owner
    BY <1>1 DEF VerifyRetirement, CR!BurnOnRetirement, TypeOK, CR!Credit
  <2>. QED  BY <2>1, <2>2 DEF owners
<1>. LedgerView /\ LedgerView'
  BY RetirementsAre, RetirementsAreAfter
<1>5. retirements' = retirements \cup {<<n, t>>}
  <2>1. \A m \in Nullifier, s \in 1..MaxCredits :
          <<m, s>> \in retirements' <=> <<m, s>> \in retirements \/ (s = t /\ m = n)
    <3>1. \A m \in Nullifier, s \in 1..MaxCredits :
            RetiredWith(s, m)' <=> RetiredWith(s, m) \/ (s = t /\ m = n)
      BY VerifyEffect
    <3>2. \A m \in Nullifier, s \in 1..MaxCredits :
            <<m, s>> \in retirements' <=> RetiredWith(s, m)'
      BY DEF LedgerView
    <3>. QED  BY <3>1, <3>2 DEF LedgerView
  <2>2. retirements' \subseteq Nullifier \X (1..MaxCredits)
    BY DEF LedgerView
  <2>. QED  BY <2>1, <2>2 DEF LedgerView
<1>6. t \in DOMAIN owners
  BY <1>1 DEF owners
<1>. QED  BY <1>2, <1>3, <1>4, <1>5, <1>6 DEF Ledger!Retire

(* Every transaction is a step of the ledger or a stutter. *)
LEMMA StepRefines ==
  ASSUME VerifierChoice = {Self}, Unique, [Next]_vars, TypeOK'
  PROVE  [Ledger!Next]_<<owners, retirements>>
<1>. USE DEF Unique, Backed
<1>1. ASSUME NEW n \in Nullifier, NEW c \in Corridor, NEW t \in 1..MaxCredits,
             NEW owner \in Address, NEW signer \in Account,
             VerifyRetirement(n, c, t, owner, signer)
      PROVE  Ledger!Retire(n, t)
  BY <1>1, VerifyRefines
<1>2. ASSUME NEW to \in Address, NEW signer \in Account, IssueCredit(to, signer)
      PROVE  Ledger!Issue(to)
  <2>1. /\ Len(credits) < MaxCredits
        /\ DOMAIN credits' = 1..Len(credits) + 1
        /\ credits'[Len(credits) + 1].owner = to
        /\ \A t \in 1..Len(credits) : credits'[t] = credits[t]
        /\ ~credits'[Len(credits) + 1].is_retired
    BY <1>2 DEF IssueCredit, CR!IssueCredit, TypeOK
  <2>2. owners' = Append(owners, to)
    BY <2>1, OwnersAre DEF owners, TypeOK
  <2>3. retirements' = retirements
    BY <2>1 DEF retirements, TypeOK
  <2>. QED  BY <2>1, <2>2, <2>3, OwnersAre DEF Ledger!Issue
<1>3. ASSUME NEW t \in 1..MaxCredits, NEW to \in Address, NEW signer \in Account,
             TransferCredit(t, to, signer)
      PROVE  Ledger!Transfer(t, to)
  <2>1. t \in DOMAIN credits /\ ~credits[t].is_retired
    BY <1>3 DEF TransferCredit, CR!TransferCredit
  <2>2. /\ DOMAIN credits' = DOMAIN credits
        /\ credits'[t] = [credits[t] EXCEPT !.owner = to]
        /\ \A s \in DOMAIN credits : s # t => credits'[s] = credits[s]
        /\ credits[t] \in CR!Credit
    BY <1>3, <2>1 DEF TransferCredit, CR!TransferCredit, TypeOK
  <2>3. \A s \in DOMAIN credits : /\ credits'[s].is_retired = credits[s].is_retired
                                  /\ credits'[s].nullifier = credits[s].nullifier
                                  /\ credits'[s].owner = IF s = t THEN to ELSE credits[s].owner
    BY <2>2 DEF CR!Credit
  <2>4. retirements' = retirements
    BY <2>2, <2>3 DEF retirements
  <2>5. owners' = [owners EXCEPT ![t] = to]
    BY <2>1, <2>2, <2>3 DEF owners
  <2>6. ~Ledger!IsRetired(t) /\ t \in DOMAIN owners
    BY <2>1, RetirementsAre DEF LedgerView, owners
  <2>. QED  BY <2>4, <2>5, <2>6 DEF Ledger!Transfer
<1>4. CASE credits' = credits
  BY <1>4 DEF owners, retirements
<1>. QED
  BY <1>1, <1>2, <1>3, <1>4, NoDirectBurn
  DEF Next, Ledger!Next, Initialize, SetTestMode, NRInitialize, DirectRecord,
      CRInitialize, CR!Initialize, SetVerifier, CR!SetVerifier, vars, crVars

(* Seen as owners and retirements, the three contracts implement the       *)
(* abstract ledger whenever only the verifier contract may burn.           *)
THEOREM LedgerImplemented ==
  ASSUME VerifierChoice = {Self}
  PROVE  Spec => ImplementsLedger
<1>1. Init => Unique /\ Ledger!Init
  <2>1. Init => Ledger!Init
    BY DEF Init, CR!Init, Ledger!Init, owners, retirements
  <2>. QED  BY <2>1, InitUnique
<1>2. Unique /\ [Next]_vars => Unique' /\ [Ledger!Next]_<<owners, retirements>>
  BY StepUnique, StepRefines, StepTyped DEF Unique, Backed
<1>. QED  BY <1>1, <1>2, PTL DEF Spec, ImplementsLedger, Ledger!Spec

--------------------------------------------------------------------------------
(* The relay's part of the ledger. *)

(* A step of the relay leaves the contracts alone or retires one credit,   *)
(* and of the relay's own the one it names.                                *)
RetiresOne(n) ==
  \E c \in Corridor, t \in 1..MaxCredits, owner \in Address, signer \in Account :
    VerifyRetirement(n, c, t, owner, signer) /\ (owner = Deployer => t = RelayToken)

(* The contracts are only touched by a relayed transaction or the wallet. *)
LEMMA LandRetires ==
  ASSUME TypeOK, NEW r \in Request, input \in [Request -> [kind : Kind, nullifier : Nullifier]],
         NEW c \in Corridor, VerifyRetirement(nullifierOf(r), c, RelayToken, Deployer, Deployer)
  PROVE  RetiresOne(nullifierOf(r))
  <1>1. RelayToken \in 1..MaxCredits /\ Deployer \in Address /\ Deployer \in Account
    BY RelayAssumption, DataAssumption DEF RelayToken, Address
  <1>2. QED
    BY <1>1 DEF RetiresOne

(* So does a retirement sent from a wallet. *)
LEMMA WalletRetiresOne ==
  ASSUME TypeOK, WalletRetires
  PROVE  \E n \in Nullifier : RetiresOne(n)
  <1>1. PICK n \in Nullifier, c \in Corridor, t \in DOMAIN credits : VerifyRetirement(n, c, t, Wallet, Wallet)
    BY DEF WalletRetires
  <1>2. t \in 1..MaxCredits /\ Wallet \in Address /\ Wallet \in Account /\ Wallet # Deployer
    BY RelayAssumption, DataAssumption DEF TypeOK, Address
  <1>3. QED
    BY <1>1, <1>2 DEF RetiresOne

(* A retirement keeps the contracts' types and adds one record. *)
LEMMA RetiredOne ==
  ASSUME TypeOK, NEW n \in Nullifier, RetiresOne(n)
  PROVE  /\ TypeOK' /\ UNCHANGED <<authorized, testMode>>
         /\ Recorded(n)' /\ used' = used \cup {n}
         /\ \A m \in Nullifier : Recorded(m) => Recorded(m)'
  <1>1. PICK c \in Corridor, t \in 1..MaxCredits, owner \in Address, signer \in Account :
             VerifyRetirement(n, c, t, owner, signer)
    BY DEF RetiresOne
  <1>2. TypeOK'
    <2>1. [Next]_vars
      BY <1>1 DEF Next
    <2>2. QED
      BY <2>1, StepTyped
  <1>3. UNCHANGED <<authorized, testMode>> /\ used' = used \cup {n}
    BY <1>1 DEF VerifyRetirement, NR!Record
  <1>4. records' = [records EXCEPT ![n] = c] /\ c # NoRecord
    BY <1>1, DataAssumption DEF VerifyRetirement
  <1>5. QED
    BY <1>2, <1>3, <1>4 DEF Recorded, TypeOK

--------------------------------------------------------------------------------
(* Types. *)

Stage == {"new"} \cup Waiting \cup Answered

Elements(s) == {s[i] : i \in DOMAIN s}

(* A sequence with one more element, in front. *)
LEMMA Prepended ==
  ASSUME NEW S, NEW s \in Seq(S), NEW e \in S, NEW t \in Seq(S),
         Len(t) = Len(s) + 1, t[1] = e, \A i \in 1..Len(s) : t[i + 1] = s[i]
  PROVE  Elements(t) = Elements(s) \cup {e}
  <1>2. PICK l \in Nat : l = Len(s)
    OBVIOUS
  <1>3. Len(t) = l + 1 /\ t[1] = e /\ \A i \in 1..l : t[i + 1] = s[i]
    BY <1>2
  <1>4. DOMAIN t = 1..(l + 1) /\ DOMAIN s = 1..l
    BY <1>2, <1>3
  <1>5. ASSUME NEW i \in DOMAIN t, i # 1 PROVE i - 1 \in DOMAIN s /\ t[i] = s[i - 1]
    <2>1. i - 1 \in 1..l /\ (i - 1) + 1 = i
      BY <1>4, <1>5
    <2>2. QED
      BY <1>3, <1>4, <2>1
  <1>6. ASSUME NEW j \in DOMAIN s PROVE j + 1 \in DOMAIN t /\ t[j + 1] = s[j]
    BY <1>3, <1>4
  <1>7. 1 \in DOMAIN t
    BY <1>4
  <1>8. ASSUME NEW i \in DOMAIN t PROVE t[i] \in Elements(s) \cup {e}
    BY <1>3, <1>5 DEF Elements
  <1>9. ASSUME NEW j \in DOMAIN s PROVE s[j] \in Elements(t)
    BY <1>6 DEF Elements
  <1>10. e \in Elements(t)
    BY <1>3, <1>7 DEF Elements
  <1>11. Elements(t) \subseteq Elements(s) \cup {e}
    BY <1>8 DEF Elements
  <1>12. Elements(s) \subseteq Elements(t)
    BY <1>9 DEF Elements
  <1>13. QED
    BY <1>10, <1>11, <1>12

Listed == Elements(certificates)

MemoryTyped ==
  /\ certId \in [Request -> CertificateId \cup {NoId}]
  /\ certificates \in Seq(Certificate) /\ sequence \in Nat /\ usedNullifiers \subseteq Nullifier

(* A certificate is added to the list, under the next id. *)
LEMMA Added ==
  ASSUME RelayTypeOK, NEW r \in Request, AddCertificate(r)
  PROVE  /\ certId' \in [Request -> CertificateId \cup {NoId}]
         /\ certificates' \in Seq(Certificate) /\ sequence' \in Nat /\ sequence' = sequence + 1
         /\ certId'[r] = <<input[r].kind, day, sequence + 1>> /\ certId'[r] \in CertificateId
         /\ \A q \in Request \ {r} : certId'[q] = certId[q]
         /\ Listed' = Listed \cup {Row(certId'[r], nullifierOf(r))}
  <1>1. PICK id \in CertificateId : id = <<input[r].kind, day, sequence + 1>>
    <2>1. input[r].kind \in Kind /\ day \in 1..MaxDay /\ sequence + 1 \in Nat
      BY DEF RelayTypeOK
    <2>2. QED
      BY <2>1 DEF CertificateId
  <1>2. sequence' = sequence + 1 /\ certId' = [certId EXCEPT ![r] = id]
        /\ certificates' = <<[id |-> id, nullifier |-> nullifierOf(r)]>> \o certificates
    BY <1>1 DEF AddCertificate
  <1>3. PICK c \in Certificate : c = [id |-> id, nullifier |-> nullifierOf(r)]
    BY DEF RelayTypeOK, Certificate, nullifierOf
  <1>4. PICK s \in Seq(Certificate) : s = certificates
    BY DEF RelayTypeOK
  <1>5. certificates' = <<c>> \o s
    BY <1>2, <1>3, <1>4
  <1>6. certId' \in [Request -> CertificateId \cup {NoId}] /\ certId'[r] = id
        /\ \A q \in Request \ {r} : certId'[q] = certId[q]
    BY <1>2 DEF RelayTypeOK
  <1>7. PICK t \in Seq(Certificate) : t = certificates' /\ t = <<c>> \o s
    <2>1. <<c>> \o s \in Seq(Certificate)
      OBVIOUS
    <2>2. QED
      BY <1>5, <2>1
  <1>8. Len(t) = Len(s) + 1 /\ t[1] = c /\ \A i \in 1..Len(s) : t[i + 1] = s[i]
    BY <1>7
  <1>9. Elements(t) = Elements(s) \cup {c}
    BY <1>8, Prepended
  <1>10. Listed' = Listed \cup {c}
    BY <1>4, <1>7, <1>9 DEF Listed
  <1>11. sequence' \in Nat
    BY <1>2 DEF RelayTypeOK
  <1>12. QED
    BY <1>1, <1>2, <1>3, <1>6, <1>7, <1>10, <1>11 DEF Row

(* A handler moves on. *)
LEMMA Moved ==
  ASSUME RelayTypeOK, NEW r \in Request, NEW p \in Stage, Goto(r, p)
  PROVE  pc' \in [Request -> Stage] /\ pc'[r] = p /\ \A q \in Request \ {r} : pc'[q] = pc[q]
  BY DEF RelayTypeOK, Stage, Goto

--------------------------------------------------------------------------------
(* What a step is. *)

Undrawn == {"new", "db_check", "chain_check", "account", "simulate", "send", "poll", "insert_nullifier"}

(* Where the ledger is asked, a retirement is only recorded once it succeeded. *)
Confirmed(r) == UseVerifier /\ input[r].kind = "CERT" => pc[r] = "poll" /\ status(r) = "SUCCESS"

(* A handler passes, or fails, a check, or records a nullifier in memory. *)
MemoryStep(r) ==
  /\ pc[r] \in Undrawn /\ usedNullifiers' \subseteq Nullifier
  /\ UNCHANGED <<chainVars, input, database, network, clock>>
  /\ \/ /\ \E p \in Undrawn \cup {"rejected"} :
             Goto(r, p) /\ (p = "insert_nullifier" => UseDb /\ Confirmed(r))
        /\ UNCHANGED <<certificates, sequence, certId>>
     \/ ~UseDb /\ Confirmed(r) /\ Goto(r, "verified") /\ AddCertificate(r)

(* A handler talks to the ledger. *)
LedgerStep(r) ==
  /\ pc[r] \in Undrawn
  /\ \E p \in {"simulate", "send", "poll", "refused", "failed"} : Goto(r, p)
  /\ UNCHANGED <<chainVars, input, memory, database, clock, txStatus, accountSeq, attempts>>
  /\ seqRead' \in [Request -> Nat]
  /\ inFlight' \in {inFlight, r}
  /\ \/ UNCHANGED hash
     \/ /\ inFlight # NoRequest /\ nullifierOf(inFlight) = nullifierOf(r)
        /\ hash' = [hash EXCEPT ![r] = inFlight]

(* Nothing of any handler but its count of polls changes. *)
WorldStep ==
  /\ UNCHANGED <<input, pc, memory, database, clock, seqRead, hash>>
  /\ inFlight' \in {inFlight, NoRequest} /\ accountSeq' \in Nat
  /\ attempts' \in [Request -> 0..MaxPolls]
  /\ \/ UNCHANGED <<chainVars, txStatus>>
     \/ UNCHANGED txStatus /\ \E n \in Nullifier : RetiresOne(n)
     \/ \E r \in Request :
          /\ RetiresOne(nullifierOf(r)) \/ (UNCHANGED chainVars /\ CallReturnsFalse(r))
          /\ txStatus' = [txStatus EXCEPT ![r] = "SUCCESS"]
     \/ \E r \in Request : UNCHANGED chainVars /\ txStatus' = [txStatus EXCEPT ![r] = "FAILED"]

(* A nullifier is remembered. *)
LEMMA NullifierOf ==
  ASSUME RelayTypeOK, NEW r \in Request
  PROVE  nullifierOf(r) \in Nullifier /\ input[r].kind \in Kind
  BY DEF RelayTypeOK, nullifierOf

(* Recording the nullifier of a verified proof is a step of the memory. *)
LEMMA RecordSteps ==
  ASSUME RelayTypeOK, NEW r \in Request, pc[r] \in Undrawn, Confirmed(r), Record(r),
         UNCHANGED <<chainVars, input, database, network, clock>>
  PROVE  MemoryStep(r)
  <1>1. usedNullifiers' \subseteq Nullifier
    BY NullifierOf DEF Record, RelayTypeOK
  <1>2. CASE UseDb
    <2>1. Goto(r, "insert_nullifier") /\ UNCHANGED <<certificates, sequence, certId>>
      BY <1>2 DEF Record
    <2>2. "insert_nullifier" \in Undrawn \cup {"rejected"}
      BY DEF Undrawn
    <2>3. QED
      BY <1>1, <1>2, <2>1, <2>2 DEF MemoryStep
  <1>3. CASE ~UseDb
    BY <1>1, <1>3 DEF Record, MemoryStep
  <1>4. QED
    BY <1>2, <1>3

(* A check that leaves the list alone. *)
LEMMA CheckSteps ==
  ASSUME RelayTypeOK, NEW r \in Request, pc[r] \in Undrawn,
         NEW p \in (Undrawn \cup {"rejected"}) \ {"insert_nullifier"}, Goto(r, p),
         UNCHANGED <<certificates, sequence, certId>>, usedNullifiers' \subseteq Nullifier,
         UNCHANGED <<chainVars, input, database, network, clock>>
  PROVE  MemoryStep(r)
  BY DEF MemoryStep

(* So is a check that found no use of the nullifier. *)
LEMMA CheckPassedSteps ==
  ASSUME RelayTypeOK, NEW r \in Request, pc[r] \in Undrawn, CheckPassed(r),
         UNCHANGED <<chainVars, input, database, network, clock>>
  PROVE  MemoryStep(r)
  <1>1. CASE UseVerifier /\ input[r].kind = "CERT"
    <2>1. Goto(r, "account") /\ UNCHANGED memory
      BY <1>1 DEF CheckPassed
    <2>2. /\ "account" \in (Undrawn \cup {"rejected"}) \ {"insert_nullifier"}
          /\ UNCHANGED <<certificates, sequence, certId>> /\ usedNullifiers' \subseteq Nullifier
      BY <2>1 DEF Undrawn, memory, RelayTypeOK
    <2>3. QED
      BY <2>1, <2>2, CheckSteps
  <1>2. CASE ~(UseVerifier /\ input[r].kind = "CERT")
    <2>1. Record(r) /\ Confirmed(r)
      BY <1>2 DEF CheckPassed, Confirmed
    <2>2. QED
      BY <2>1, RecordSteps
  <1>3. QED
    BY <1>1, <1>2

(* So is a check that found one. *)
LEMMA CheckHitSteps ==
  ASSUME RelayTypeOK, NEW r \in Request, pc[r] \in Undrawn, CheckHit(r),
         UNCHANGED <<chainVars, input, database, network, clock>>
  PROVE  MemoryStep(r)
  <1>1. /\ Goto(r, "rejected") /\ "rejected" \in (Undrawn \cup {"rejected"}) \ {"insert_nullifier"}
        /\ UNCHANGED <<certificates, sequence, certId>> /\ usedNullifiers' \subseteq Nullifier
    BY NullifierOf DEF CheckHit, RelayTypeOK
  <1>2. QED
    BY <1>1, CheckSteps

(* So is what follows the database's answer to a check. *)
LEMMA AfterDbCheckSteps ==
  ASSUME RelayTypeOK, NEW r \in Request, pc[r] \in Undrawn, AfterDbCheck(r),
         UNCHANGED <<chainVars, input, database, network, clock>>
  PROVE  MemoryStep(r)
  <1>1. CASE UseRegistry
    <2>1. Goto(r, "chain_check") /\ UNCHANGED memory
      BY <1>1 DEF AfterDbCheck
    <2>2. /\ "chain_check" \in (Undrawn \cup {"rejected"}) \ {"insert_nullifier"}
          /\ UNCHANGED <<certificates, sequence, certId>> /\ usedNullifiers' \subseteq Nullifier
      BY <2>1 DEF Undrawn, memory, RelayTypeOK
    <2>3. QED
      BY <2>1, <2>2, CheckSteps
  <1>2. CASE ~UseRegistry
    <2>1. CheckPassed(r)
      BY <1>2 DEF AfterDbCheck
    <2>2. QED
      BY <2>1, CheckPassedSteps
  <1>3. QED
    BY <1>1, <1>2

(* The handlers of the checks. *)
LEMMA ChecksStep ==
  ASSUME RelayTypeOK, NEW r \in Request, Relay(r) \/ DbCheck(r) \/ ChainCheck(r) \/ PollSucceeds(r)
  PROVE  MemoryStep(r)
  <1>1. pc[r] \in Undrawn /\ UNCHANGED <<chainVars, input, database, network, clock>>
    BY DEF Relay, DbCheck, ChainCheck, PollSucceeds, Undrawn
  <1>2. CASE Relay(r)
    <2>1. ASSUME NEW p \in {"rejected", "db_check"}, Goto(r, p), UNCHANGED memory
          PROVE  MemoryStep(r)
      <3>1. /\ p \in (Undrawn \cup {"rejected"}) \ {"insert_nullifier"}
            /\ UNCHANGED <<certificates, sequence, certId>> /\ usedNullifiers' \subseteq Nullifier
        BY <2>1 DEF Undrawn, memory, RelayTypeOK
      <3>2. QED
        BY <1>1, <2>1, <3>1, CheckSteps
    <2>2. \/ \E p \in {"rejected", "db_check"} : Goto(r, p) /\ UNCHANGED memory
          \/ AfterDbCheck(r)
      BY <1>2 DEF Relay
    <2>3. QED
      BY <1>1, <2>1, <2>2, AfterDbCheckSteps
  <1>3. CASE DbCheck(r)
    BY <1>1, <1>3, CheckHitSteps, AfterDbCheckSteps DEF DbCheck
  <1>4. CASE ChainCheck(r)
    BY <1>1, <1>4, CheckHitSteps, CheckPassedSteps DEF ChainCheck
  <1>5. CASE PollSucceeds(r)
    <2>1. Record(r) /\ Confirmed(r)
      BY <1>5 DEF PollSucceeds, Confirmed
    <2>2. QED
      BY <1>1, <2>1, RecordSteps
  <1>6. QED
    BY <1>2, <1>3, <1>4, <1>5

(* The handlers that talk to the ledger. *)
LEMMA LedgerSteps ==
  ASSUME RelayTypeOK, NEW r \in Request,
         \/ GetAccount(r) \/ Simulate(r) \/ Send(r) \/ SendUnanswered(r) \/ PollEnds(r) \/ RpcError(r)
  PROVE  LedgerStep(r)
  <1> USE DEF Undrawn, LedgerStep
  <1>1. CASE GetAccount(r)
    BY <1>1 DEF GetAccount, RelayTypeOK
  <1>2. ASSUME NEW p \in {"send", "refused", "failed"}, Answer(r, p), pc[r] \in Undrawn PROVE LedgerStep(r)
    BY <1>2 DEF Answer, network, RelayTypeOK
  <1>3. CASE Simulate(r)
    <2>1. PICK p \in {"send", "refused"} : Answer(r, p)
      BY <1>3 DEF Simulate
    <2>2. QED
      BY <1>2, <1>3, <2>1 DEF Simulate
  <1>4. CASE Send(r)
    BY <1>4 DEF Send, RelayTypeOK
  <1>5. CASE SendUnanswered(r)
    BY <1>5 DEF SendUnanswered, RelayTypeOK
  <1>6. CASE PollEnds(r)
    BY <1>2, <1>6 DEF PollEnds
  <1>7. CASE RpcError(r)
    BY <1>2, <1>7 DEF RpcError
  <1>8. QED
    BY <1>1, <1>3, <1>4, <1>5, <1>6, <1>7

(* The network, the wallet and the polls. *)
LEMMA WorldSteps ==
  ASSUME RelayTypeOK,
         \/ \E r \in Request : Land(r) \/ Expire(r) \/ PollAgain(r)
         \/ WalletRetires
         \/ UNCHANGED relayVars
  PROVE  WorldStep
  <1> USE DEF WorldStep
  <1>1. ASSUME NEW r \in Request, Land(r) PROVE WorldStep
    <2>1. accountSeq' \in Nat /\ UNCHANGED <<input, pc, memory, database, clock, seqRead, hash, attempts>>
          /\ inFlight' = NoRequest /\ attempts' \in [Request -> 0..MaxPolls]
      BY <1>1 DEF Land, RelayTypeOK
    <2>2. CASE /\ \E c \in Corridor :
                    VerifyRetirement(nullifierOf(r), c, RelayToken, Deployer, Deployer)
               /\ txStatus' = [txStatus EXCEPT ![r] = "SUCCESS"]
      <3>1. RetiresOne(nullifierOf(r))
        BY <2>2, LandRetires DEF RelayTypeOK
      <3>2. QED
        BY <2>1, <2>2, <3>1
    <2>3. CASE /\ CallReturnsFalse(r)
               /\ txStatus' = [txStatus EXCEPT ![r] = "SUCCESS"]
               /\ UNCHANGED chainVars
      BY <2>1, <2>3
    <2>4. CASE txStatus' = [txStatus EXCEPT ![r] = "FAILED"] /\ UNCHANGED chainVars
      BY <2>1, <2>4
    <2>5. QED
      BY <1>1, <2>2, <2>3, <2>4 DEF Land
  <1>2. ASSUME NEW r \in Request, Expire(r) PROVE WorldStep
    BY <1>2 DEF Expire, RelayTypeOK
  <1>3. ASSUME NEW r \in Request, PollAgain(r) PROVE WorldStep
    <2>1. attempts[r] + 1 \in 0..MaxPolls
      BY <1>3, RelayAssumption DEF PollAgain, RelayTypeOK
    <2>2. attempts' \in [Request -> 0..MaxPolls]
      BY <1>3, <2>1 DEF PollAgain, RelayTypeOK
    <2>3. QED
      BY <1>3, <2>2 DEF PollAgain, RelayTypeOK
  <1>4. CASE WalletRetires
    <2>1. \E n \in Nullifier : RetiresOne(n)
      BY <1>4, WalletRetiresOne DEF RelayTypeOK
    <2>2. QED
      BY <1>4, <2>1 DEF WalletRetires, network, RelayTypeOK
  <1>5. CASE UNCHANGED relayVars
    BY <1>5 DEF relayVars, network, RelayTypeOK
  <1>6. QED
    BY <1>1, <1>2, <1>3, <1>4, <1>5

(* Every step of the relay is one of seven kinds. *)
LEMMA StepKinds ==
  ASSUME RelayTypeOK, [RelayNext]_relayVars
  PROVE  \/ \E r \in Request : MemoryStep(r) \/ LedgerStep(r)
         \/ \E r \in Request : InsertNullifier(r) \/ InsertCertificate(r) \/ DbError(r)
         \/ WorldStep
         \/ Restart
  BY ChecksStep, LedgerSteps, WorldSteps DEF RelayNext, Handle

--------------------------------------------------------------------------------
(* The invariant. *)

(* A certificate is stored under an id that was drawn, after its nullifier. *)
HandlersOK ==
  \A r \in Request :
    /\ pc[r] \in {"insert_nullifier", "insert_certificate"} => UseDb
    /\ pc[r] = "insert_certificate" =>
         certId[r] \in CertificateId /\ certId[r][1] = input[r].kind /\ nullifierOf(r) \in dbNullifiers

(* What the contracts call used is retired, and so is what they answered     *)
(* with SUCCESS in test mode: the proof is valid, so the answer is that the  *)
(* nullifier was used or that it is now.                                     *)
LedgerOK ==
  /\ authorized = Self /\ testMode = TestMode
  /\ \A n \in used : Recorded(n)
  /\ \A r \in Request :
       /\ nullifierOf(hash[r]) = nullifierOf(r)
       /\ TestMode /\ txStatus[r] = "SUCCESS" => Recorded(nullifierOf(r))

BackedOK ==
  UseVerifier /\ TestMode =>
    /\ \A r \in Request :
         pc[r] \in {"insert_nullifier", "insert_certificate"} /\ input[r].kind = "CERT"
           => Recorded(nullifierOf(r))
    /\ \A c \in dbCertificates \cup Listed : c.id[1] = "CERT" => Recorded(c.nullifier)

RowsOK ==
  /\ \A c \in dbCertificates : c.nullifier \in dbNullifiers
  /\ \A c, d \in dbCertificates : c.nullifier = d.nullifier => c = d

(* While one process draws the ids, an id is of one request. *)
IdsOK ==
  restarts = 0 =>
    /\ \A r \in Request : certId[r] # NoId => certId[r] \in CertificateId /\ certId[r][3] <= sequence
    /\ \A r, q \in Request : certId[r] # NoId /\ certId[r] = certId[q] => r = q
    /\ \A c \in dbCertificates \cup Listed :
         \E r \in Request : certId[r] = c.id /\ nullifierOf(r) = c.nullifier
    /\ \A r \in Request : pc[r] \in Undrawn => certId[r] = NoId
    /\ \A r \in Request : pc[r] = "insert_certificate" => ~IdTaken(certId[r])
    /\ \A r \in Request : pc[r] = "verified" =>
         certId[r] # NoId /\ Row(certId[r], nullifierOf(r)) \in (IF UseDb THEN dbCertificates ELSE Listed)

RelayInv == RelayTypeOK /\ HandlersOK /\ LedgerOK /\ BackedOK /\ RowsOK /\ IdsOK

(* A certificate's id is one that was drawn. *)
LEMMA IdIsDrawn == NoId \notin CertificateId
  BY DEF NoId, CertificateId

(* The list in memory holds certificates only. *)
LEMMA ListedTyped == RelayTypeOK => Listed \subseteq Certificate
  <1> SUFFICES ASSUME RelayTypeOK PROVE Listed \subseteq Certificate
    OBVIOUS
  <1>1. PICK s \in Seq(Certificate) : s = certificates
    BY DEF RelayTypeOK
  <1>2. \A i \in DOMAIN s : s[i] \in Certificate
    OBVIOUS
  <1>3. QED
    BY <1>1, <1>2 DEF Listed, Elements

(* The contracts were left alone. *)
LEMMA ChainSame ==
  ASSUME TypeOK, UNCHANGED chainVars
  PROVE  TypeOK' /\ UNCHANGED <<authorized, testMode, used>> /\ \A n \in Nullifier : Recorded(n)' = Recorded(n)
  BY DEF TypeOK, chainVars, vars, Recorded

(* The network was left alone too, or only asked. *)
LEMMA LedgerSame ==
  ASSUME RelayInv, UNCHANGED chainVars, UNCHANGED <<input, txStatus>>,
         \A r \in Request : hash'[r] = hash[r] \/ (hash'[r] \in Request /\ nullifierOf(hash'[r]) = nullifierOf(r))
  PROVE  LedgerOK'
  <1>1. UNCHANGED <<authorized, testMode, used>> /\ \A n \in Nullifier : Recorded(n)' = Recorded(n)
    BY ChainSame DEF RelayInv, RelayTypeOK
  <1>2. LedgerOK /\ used \subseteq Nullifier
    BY DEF RelayInv, RelayTypeOK, TypeOK
  <1>3. \A r \in Request : nullifierOf(r)' = nullifierOf(r) /\ nullifierOf(r) \in Nullifier
    BY NullifierOf DEF nullifierOf, RelayInv
  <1>4. \A r \in Request : (nullifierOf(hash[r]) = nullifierOf(r))'
    <2>1. ASSUME NEW r \in Request, NEW h, h = hash'[r] PROVE input'[h].nullifier = input'[r].nullifier
      <3>1. input' = input
        OBVIOUS
      <3>2. input[h].nullifier = input[r].nullifier
        BY <1>2, <2>1 DEF LedgerOK, nullifierOf
      <3>3. QED
        BY <3>1, <3>2
    <2>2. QED
      BY <2>1 DEF nullifierOf
  <1>5. QED
    BY <1>1, <1>2, <1>3, <1>4 DEF LedgerOK

(* The relay starts in the invariant. *)
LEMMA InitRelay == RelayInit => RelayInv
  <1> SUFFICES ASSUME RelayInit PROVE RelayInv
    OBVIOUS
  <1>1. TypeOK
    <2>1. credits \in Seq(CR!Credit) /\ Len(credits) = 3
      <3>1. Held(Deployer) \in CR!Credit /\ Held(Wallet) \in CR!Credit
        BY RelayAssumption, DataAssumption DEF Held, CR!Credit, Address
      <3>2. QED
        BY <3>1 DEF RelayInit, DeployedChain
    <2>2. log \in Seq(Event) /\ records \in [Nullifier -> Corridor \cup {NoRecord}]
      BY DEF RelayInit, DeployedChain
    <2>3. testMode \in BOOLEAN /\ Deployer \in Address /\ Self \in VerifierChoice
      BY RelayAssumption DEF RelayInit, DeployedChain, Address
    <2>4. QED
      BY <2>1, <2>2, <2>3, RelayAssumption, DataAssumption
         DEF RelayInit, DeployedChain, TypeOK, Address
  <1>2. RelayTypeOK
    <2>1. certificates \in Seq(Certificate) /\ pc \in [Request -> {"new"} \cup Waiting \cup Answered]
      BY DEF RelayInit
    <2>2. day \in 1..MaxDay /\ restarts \in 0..MaxRestarts /\ attempts \in [Request -> 0..MaxPolls]
      BY RelayAssumption DEF RelayInit
    <2>3. QED
      BY <1>1, <2>1, <2>2 DEF RelayInit, RelayTypeOK
  <1>3. Listed = {}
    BY DEF RelayInit, Listed, Elements
  <1>4. HandlersOK /\ LedgerOK
    BY DEF RelayInit, DeployedChain, HandlersOK, LedgerOK
  <1>5. BackedOK /\ RowsOK
    BY <1>3 DEF RelayInit, BackedOK, RowsOK
  <1>6. IdsOK
    BY <1>3 DEF RelayInit, IdsOK
  <1>7. QED
    BY <1>2, <1>4, <1>5, <1>6 DEF RelayInv

(* A step that draws no id. *)
LEMMA MovesKeep ==
  ASSUME RelayInv, NEW r \in Request, pc[r] \in Undrawn,
         NEW p \in Undrawn \cup {"rejected", "refused", "failed"}, Goto(r, p),
         p = "insert_nullifier" => UseDb /\ Confirmed(r),
         UNCHANGED <<chainVars, input, certificates, sequence, certId, dbCertificates, clock, txStatus>>,
         dbNullifiers \subseteq dbNullifiers', LedgerOK', RelayTypeOK'
  PROVE  RelayInv'
  <1>1. pc'[r] = p /\ \A q \in Request \ {r} : pc'[q] = pc[q]
    <2>1. p \in Stage
      BY DEF Stage, Undrawn, Waiting, Answered
    <2>2. QED
      BY <2>1, Moved DEF RelayInv
  <1>2. UNCHANGED <<input, certificates, sequence, certId, dbCertificates, day, restarts>>
    BY DEF clock
  <1>3. Listed' = Listed /\ \A q \in Request : nullifierOf(q)' = nullifierOf(q) /\ nullifierOf(q) \in Nullifier
    BY <1>2, NullifierOf DEF Listed, nullifierOf, RelayInv
  <1>4. \A n \in Nullifier : Recorded(n)' = Recorded(n)
    BY ChainSame DEF RelayInv, RelayTypeOK
  <1>5. p \notin {"insert_certificate", "verified"}
    BY DEF Undrawn
  <1>6. HandlersOK'
    BY <1>1, <1>2, <1>3, <1>5 DEF RelayInv, HandlersOK
  <1>7. BackedOK'
    <2>1. ASSUME UseVerifier, TestMode, p = "insert_nullifier", input[r].kind = "CERT"
          PROVE  Recorded(nullifierOf(r))
      <3>1. status(r) = "SUCCESS" /\ hash[r] \in Request
        BY <2>1 DEF Confirmed, RelayInv, RelayTypeOK
      <3>2. QED
        BY <2>1, <3>1 DEF status, RelayInv, LedgerOK
    <2>2. \A c \in dbCertificates \cup Listed : c.nullifier \in Nullifier
      BY ListedTyped DEF RelayInv, RelayTypeOK, Certificate
    <2>3. QED
      BY <1>1, <1>2, <1>3, <1>4, <1>5, <2>1, <2>2 DEF RelayInv, BackedOK
  <1>8. RowsOK'
    BY <1>2 DEF RelayInv, RowsOK
  <1>9. IdsOK'
    <2>1. \A q \in Request :
             /\ IdTaken(certId[q])' = IdTaken(certId[q])
             /\ Row(certId[q], nullifierOf(q))' = Row(certId[q], nullifierOf(q))
      BY <1>2, <1>3 DEF IdTaken, Row
    <2>2. QED
      BY <1>1, <1>2, <1>3, <1>5, <2>1 DEF RelayInv, IdsOK
  <1>10. QED
    BY <1>6, <1>7, <1>8, <1>9 DEF RelayInv

(* A step that lists a certificate under a new id, for a request that had    *)
(* none: `stage` is "verified" without a database, else the certificate's    *)
(* INSERT, once the nullifier's has run.                                     *)
LEMMA AddingKeeps ==
  ASSUME RelayInv, NEW r \in Request, pc[r] \in Undrawn, AddCertificate(r),
         NEW stage \in {"verified", "insert_certificate"}, Goto(r, stage),
         stage = "verified" => ~UseDb,
         stage = "insert_certificate" => UseDb /\ nullifierOf(r) \in dbNullifiers',
         UseVerifier /\ TestMode /\ input[r].kind = "CERT" => Recorded(nullifierOf(r)),
         UNCHANGED <<chainVars, input, dbCertificates, clock, txStatus>>,
         dbNullifiers \subseteq dbNullifiers', LedgerOK', RelayTypeOK'
  PROVE  RelayInv'
  <1> DEFINE id == certId'[r]
  <1>1. pc'[r] = stage /\ \A q \in Request \ {r} : pc'[q] = pc[q]
    <2>1. stage \in Stage
      BY DEF Stage, Waiting, Answered
    <2>2. QED
      BY <2>1, Moved DEF RelayInv
  <1>2. UNCHANGED <<input, dbCertificates, day, restarts>>
    BY DEF clock
  <1>3. PICK new \in Certificate : new = Row(id, nullifierOf(r)) /\ new.id = id /\ new.nullifier = nullifierOf(r)
    <2>1. PICK i \in CertificateId, n \in Nullifier : i = id /\ n = nullifierOf(r)
      BY Added, NullifierOf DEF RelayInv
    <2>2. PICK c \in Certificate : c = [id |-> i, nullifier |-> n]
      BY DEF Certificate
    <2>3. c = Row(id, nullifierOf(r)) /\ c.id = id /\ c.nullifier = nullifierOf(r)
      BY <2>1, <2>2 DEF Row
    <2>4. QED
      BY <2>3
  <1>4. /\ sequence' = sequence + 1 /\ id = <<input[r].kind, day, sequence + 1>> /\ id \in CertificateId
        /\ \A q \in Request \ {r} : certId'[q] = certId[q]
        /\ Listed' = Listed \cup {new}
    BY <1>3, Added DEF RelayInv
  <1>5. \A q \in Request : nullifierOf(q)' = nullifierOf(q) /\ nullifierOf(q) \in Nullifier
    BY <1>2, NullifierOf DEF nullifierOf, RelayInv
  <1>6. \A n \in Nullifier : Recorded(n)' = Recorded(n)
    BY ChainSame DEF RelayInv, RelayTypeOK
  <1>7. id[1] = input[r].kind /\ id[3] = sequence + 1
    BY <1>4
  <1>8. HandlersOK'
    BY <1>1, <1>2, <1>4, <1>5, <1>7 DEF RelayInv, HandlersOK
  <1>9. BackedOK'
    <2>1. \A c \in dbCertificates \cup Listed : c.nullifier \in Nullifier
      BY ListedTyped DEF RelayInv, RelayTypeOK, Certificate
    <2>2. ASSUME UseVerifier, TestMode PROVE BackedOK'
      <3>1. \A c \in dbCertificates \cup Listed : c.id[1] = "CERT" => Recorded(c.nullifier)'
        BY <1>6, <2>1, <2>2 DEF RelayInv, BackedOK
      <3>2. new.id[1] = "CERT" => Recorded(new.nullifier)'
        BY <1>3, <1>5, <1>6, <1>7, <2>2
      <3>3. \A q \in Request : pc'[q] \in {"insert_nullifier", "insert_certificate"} /\ input[q].kind = "CERT"
              => Recorded(nullifierOf(q))'
        BY <1>1, <1>5, <1>6, <2>2 DEF RelayInv, BackedOK
      <3>4. \A c \in dbCertificates \cup Listed' : c.id[1] = "CERT" => Recorded(c.nullifier)'
        BY <1>4, <3>1, <3>2
      <3>5. QED
        BY <1>2, <3>3, <3>4 DEF BackedOK, nullifierOf
    <2>3. QED
      BY <2>2 DEF BackedOK
  <1>10. RowsOK'
    BY <1>2 DEF RelayInv, RowsOK
  <1>11. ASSUME restarts = 0 PROVE IdsOK'
    <2>1. certId[r] = NoId /\ IdsOK
      BY <1>11 DEF RelayInv, IdsOK
    <2>2. id # NoId
      BY <1>4, IdIsDrawn
    <2>3. \A q \in Request \ {r} : certId'[q] # id
      <3>1. ASSUME NEW q \in Request \ {r}, certId[q] # NoId PROVE certId[q][3] # id[3]
        <4>1. certId[q][3] <= sequence /\ certId[q] \in CertificateId
          BY <1>11, <2>1, <3>1 DEF IdsOK
        <4>2. certId[q][3] \in Nat /\ sequence \in Nat
          BY <4>1 DEF CertificateId, RelayInv, RelayTypeOK
        <4>3. QED
          BY <1>7, <4>1, <4>2
      <3>2. QED
        BY <1>4, <2>2, <3>1
    <2>4. \A q \in Request : certId'[q] # NoId => certId'[q] \in CertificateId /\ certId'[q][3] <= sequence'
      <3>1. ASSUME NEW q \in Request \ {r}, certId[q] # NoId
            PROVE  certId[q] \in CertificateId /\ certId[q][3] <= sequence + 1
        <4>1. certId[q][3] <= sequence /\ certId[q] \in CertificateId
          BY <1>11, <2>1, <3>1 DEF IdsOK
        <4>2. certId[q][3] \in Nat /\ sequence \in Nat
          BY <4>1 DEF CertificateId, RelayInv, RelayTypeOK
        <4>3. QED
          BY <4>1, <4>2
      <3>2. sequence + 1 <= sequence + 1
        BY DEF RelayInv, RelayTypeOK
      <3>3. QED
        BY <1>4, <1>7, <3>1, <3>2
    <2>5. \A q, x \in Request : certId'[q] # NoId /\ certId'[q] = certId'[x] => q = x
      BY <1>4, <1>11, <2>1, <2>3 DEF IdsOK
    <2>6. \A c \in dbCertificates \cup Listed :
            c.id # NoId /\ c.id # id /\ \E q \in Request : certId'[q] = c.id /\ nullifierOf(q) = c.nullifier
      <3> SUFFICES ASSUME NEW c \in dbCertificates \cup Listed
                   PROVE  c.id # NoId /\ c.id # id /\ \E q \in Request : certId'[q] = c.id /\ nullifierOf(q) = c.nullifier
        OBVIOUS
      <3>1. c.id \in CertificateId
        BY ListedTyped DEF RelayInv, RelayTypeOK, Certificate
      <3>2. PICK q \in Request : certId[q] = c.id /\ nullifierOf(q) = c.nullifier
        BY <1>11, <2>1 DEF IdsOK
      <3>3. q # r
        BY <2>1, <3>1, <3>2, IdIsDrawn
      <3>4. certId'[q] = c.id /\ c.id # id /\ c.id # NoId
        BY <1>4, <2>3, <3>1, <3>2, <3>3, IdIsDrawn
      <3>5. QED
        BY <3>2, <3>4
    <2>7. \A c \in dbCertificates \cup Listed' :
            \E q \in Request : certId'[q] = c.id /\ nullifierOf(q) = c.nullifier
      BY <1>3, <1>4, <2>6
    <2>8. \A q \in Request : pc'[q] \in Undrawn => certId'[q] = NoId
      <3>1. stage \notin Undrawn
        BY DEF Undrawn
      <3>2. QED
        BY <1>1, <1>4, <1>11, <2>1, <3>1 DEF IdsOK
    <2>9. \A q \in Request : pc'[q] = "insert_certificate" => \A c \in dbCertificates : c.id # certId'[q]
      BY <1>1, <1>4, <1>11, <2>1, <2>6 DEF IdsOK, IdTaken
    <2>10. \A q \in Request : pc'[q] = "verified" =>
             certId'[q] # NoId /\ Row(certId'[q], nullifierOf(q)) \in (IF UseDb THEN dbCertificates ELSE Listed')
      <3>1. CASE UseDb
        BY <1>1, <1>4, <1>11, <2>1, <3>1 DEF IdsOK
      <3>2. CASE ~UseDb
        BY <1>1, <1>3, <1>4, <1>11, <2>1, <2>2, <3>2 DEF IdsOK
      <3>3. QED
        BY <3>1, <3>2
    <2>11. QED
      BY <1>2, <1>5, <2>4, <2>5, <2>7, <2>8, <2>9, <2>10 DEF IdsOK, IdTaken, nullifierOf, Row
  <1>12. IdsOK'
    BY <1>2, <1>11 DEF IdsOK
  <1>13. QED
    BY <1>8, <1>9, <1>10, <1>12 DEF RelayInv

(* The certificate's INSERT ends: its row is stored, for a nullifier that has *)
(* none, or the list of rows stays.                                           *)
LEMMA StoringKeeps ==
  ASSUME RelayInv, NEW r \in Request, pc[r] = "insert_certificate",
         NEW stage \in {"verified", "failed"}, Goto(r, stage),
         UNCHANGED <<chainVars, input, memory, dbNullifiers, clock, txStatus>>,
         \/ /\ ~NullifierTaken(nullifierOf(r))
            /\ dbCertificates' = dbCertificates \cup {Row(certId[r], nullifierOf(r))}
         \/ dbCertificates' = dbCertificates /\ (stage = "verified" => IdTaken(certId[r])),
         LedgerOK', RelayTypeOK'
  PROVE  RelayInv'
  <1>1. pc'[r] = stage /\ \A q \in Request \ {r} : pc'[q] = pc[q]
    <2>1. stage \in Stage
      BY DEF Stage, Answered
    <2>2. QED
      BY <2>1, Moved DEF RelayInv
  <1>2. UNCHANGED <<input, certificates, sequence, certId, dbNullifiers, day, restarts>>
    BY DEF clock, memory
  <1>3. Listed' = Listed /\ \A q \in Request : nullifierOf(q)' = nullifierOf(q) /\ nullifierOf(q) \in Nullifier
    BY <1>2, NullifierOf DEF Listed, nullifierOf, RelayInv
  <1>4. \A n \in Nullifier : Recorded(n)' = Recorded(n)
    BY ChainSame DEF RelayInv, RelayTypeOK
  <1>5. PICK id \in CertificateId, n \in Nullifier :
             id = certId[r] /\ n = nullifierOf(r) /\ id[1] = input[r].kind /\ n \in dbNullifiers
    BY <1>3 DEF RelayInv, HandlersOK
  <1>6. PICK new \in Certificate : new = Row(certId[r], nullifierOf(r)) /\ new.id = id /\ new.nullifier = n
    <2>1. PICK c \in Certificate : c = [id |-> id, nullifier |-> n]
      BY DEF Certificate
    <2>2. c = Row(certId[r], nullifierOf(r)) /\ c.id = id /\ c.nullifier = n
      BY <1>5, <2>1 DEF Row
    <2>3. QED
      BY <2>2
  <1>7. \/ dbCertificates' = dbCertificates \cup {new} /\ \A c \in dbCertificates : c.nullifier # n
        \/ dbCertificates' = dbCertificates /\ (stage = "verified" => IdTaken(certId[r]))
    BY <1>5, <1>6 DEF NullifierTaken
  <1>8. dbCertificates \subseteq dbCertificates' /\ dbCertificates' \subseteq dbCertificates \cup {new}
    BY <1>7
  <1>9. HandlersOK'
    BY <1>1, <1>2, <1>3 DEF RelayInv, HandlersOK
  <1>10. BackedOK'
    <2>1. \A c \in dbCertificates \cup Listed : c.nullifier \in Nullifier
      BY ListedTyped DEF RelayInv, RelayTypeOK, Certificate
    <2>2. ASSUME UseVerifier, TestMode PROVE BackedOK'
      <3>1. \A c \in dbCertificates \cup Listed : c.id[1] = "CERT" => Recorded(c.nullifier)'
        BY <1>4, <2>1, <2>2 DEF RelayInv, BackedOK
      <3>2. id[1] = "CERT" => Recorded(n)
        BY <1>5, <2>2 DEF RelayInv, BackedOK
      <3>3. new.id[1] = "CERT" => Recorded(new.nullifier)'
        BY <1>4, <1>6, <3>2
      <3>4. \A c \in dbCertificates' \cup Listed' : c.id[1] = "CERT" => Recorded(c.nullifier)'
        BY <1>3, <1>8, <3>1, <3>3
      <3>5. \A q \in Request : pc'[q] \in {"insert_nullifier", "insert_certificate"} /\ input[q].kind = "CERT"
              => Recorded(nullifierOf(q))'
        BY <1>1, <1>3, <1>4, <2>2 DEF RelayInv, BackedOK
      <3>6. QED
        BY <1>2, <3>4, <3>5 DEF BackedOK, nullifierOf
    <2>3. QED
      BY <2>2 DEF BackedOK
  <1>11. RowsOK'
    <2>1. \A c \in dbCertificates' : c.nullifier \in dbNullifiers
      BY <1>5, <1>6, <1>8 DEF RelayInv, RowsOK
    <2>2. \A c, d \in dbCertificates' : c.nullifier = d.nullifier => c = d
      BY <1>6, <1>7 DEF RelayInv, RowsOK
    <2>3. QED
      BY <1>2, <2>1, <2>2 DEF RowsOK
  <1>12. ASSUME restarts = 0 PROVE IdsOK'
    <2>1. IdsOK /\ ~IdTaken(certId[r]) /\ certId[r] # NoId
      BY <1>5, <1>12, IdIsDrawn DEF RelayInv, IdsOK
    <2>2. stage = "verified" => new \in dbCertificates'
      BY <1>7, <2>1
    <2>3. \A c \in dbCertificates' \cup Listed : \E q \in Request : certId[q] = c.id /\ nullifierOf(q) = c.nullifier
      BY <1>5, <1>6, <1>8, <1>12, <2>1 DEF IdsOK
    <2>4. \A q \in Request : pc'[q] \in Undrawn => certId[q] = NoId
      <3>1. stage \notin Undrawn
        BY DEF Undrawn
      <3>2. QED
        BY <1>1, <1>12, <2>1, <3>1 DEF IdsOK
    <2>5. \A q \in Request : pc'[q] = "insert_certificate" => \A c \in dbCertificates' : c.id # certId[q]
      <3>1. ASSUME NEW q \in Request, pc'[q] = "insert_certificate", NEW c \in dbCertificates'
            PROVE  c.id # certId[q]
        <4>1. q # r /\ pc[q] = "insert_certificate"
          BY <1>1, <3>1
        <4>2. certId[q] # certId[r] /\ ~IdTaken(certId[q])
          BY <1>12, <2>1, <4>1 DEF IdsOK
        <4>3. QED
          BY <1>5, <1>6, <1>8, <4>2 DEF IdTaken
      <3>2. QED
        BY <3>1
    <2>6. \A q \in Request : pc'[q] = "verified" =>
            certId[q] # NoId /\ Row(certId[q], nullifierOf(q)) \in (IF UseDb THEN dbCertificates' ELSE Listed)
      <3>1. UseDb
        BY DEF RelayInv, HandlersOK
      <3>2. \A q \in Request : pc[q] = "verified" =>
              certId[q] # NoId /\ Row(certId[q], nullifierOf(q)) \in dbCertificates
        BY <1>12, <2>1, <3>1 DEF IdsOK
      <3>3. QED
        BY <1>1, <1>6, <1>8, <2>1, <2>2, <3>1, <3>2
    <2>7. QED
      BY <1>2, <1>3, <1>12, <2>1, <2>3, <2>4, <2>5, <2>6 DEF IdsOK, IdTaken, nullifierOf, Row
  <1>13. IdsOK'
    BY <1>2, <1>12 DEF IdsOK
  <1>14. QED
    BY <1>9, <1>10, <1>11, <1>13 DEF RelayInv

(* The types of the handlers' state once a handler has moved. *)
LEMMA MovedTyped ==
  ASSUME RelayTypeOK, NEW r \in Request, NEW p \in Stage, Goto(r, p),
         UNCHANGED <<chainVars, input, clock, accountSeq, txStatus, attempts>>,
         seqRead' \in [Request -> Nat], hash' \in [Request -> Request],
         inFlight' \in Request \cup {NoRequest},
         MemoryTyped', dbNullifiers' \subseteq Nullifier, dbCertificates' \subseteq Certificate
  PROVE  RelayTypeOK'
  <1>1. TypeOK'
    BY ChainSame DEF RelayTypeOK
  <1>2. pc' \in [Request -> {"new"} \cup Waiting \cup Answered]
    BY Moved DEF Stage
  <1>3. QED
    BY <1>1, <1>2 DEF RelayTypeOK, MemoryTyped, clock

(* A step of the memory keeps the invariant. *)
LEMMA MemoryKeeps ==
  ASSUME RelayInv, NEW r \in Request, MemoryStep(r)
  PROVE  RelayInv'
  <1>1. /\ pc[r] \in Undrawn /\ usedNullifiers' \subseteq Nullifier
        /\ UNCHANGED <<chainVars, input, dbNullifiers, dbCertificates, clock,
                       accountSeq, seqRead, hash, inFlight, txStatus, attempts>>
    BY DEF MemoryStep, database, network
  <1>2. LedgerOK'
    BY <1>1, LedgerSame
  <1>3. RelayTypeOK
    BY DEF RelayInv
  <1>4. ASSUME NEW p \in Undrawn \cup {"rejected"}, Goto(r, p),
               p = "insert_nullifier" => UseDb /\ Confirmed(r),
               UNCHANGED <<certificates, sequence, certId>>
        PROVE  RelayInv'
    <2>1. p \in Stage /\ MemoryTyped'
      BY <1>1, <1>3, <1>4 DEF Stage, Undrawn, Waiting, Answered, MemoryTyped, RelayTypeOK
    <2>2. RelayTypeOK'
      BY <1>1, <1>3, <1>4, <2>1, MovedTyped DEF RelayTypeOK
    <2>3. QED
      BY <1>1, <1>2, <1>4, <2>2, MovesKeep
  <1>5. ASSUME ~UseDb, Confirmed(r), Goto(r, "verified"), AddCertificate(r)
        PROVE  RelayInv'
    <2>1. MemoryTyped'
      BY <1>1, <1>3, <1>5, Added DEF MemoryTyped
    <2>2. "verified" \in Stage
      BY DEF Stage, Answered
    <2>3. RelayTypeOK'
      BY <1>1, <1>3, <1>5, <2>1, <2>2, MovedTyped DEF RelayTypeOK
    <2>4. UseVerifier /\ TestMode /\ input[r].kind = "CERT" => Recorded(nullifierOf(r))
      <3>1. ASSUME UseVerifier, TestMode, input[r].kind = "CERT" PROVE Recorded(nullifierOf(r))
        <4>1. status(r) = "SUCCESS" /\ hash[r] \in Request
          BY <1>3, <1>5, <3>1 DEF Confirmed, RelayTypeOK
        <4>2. QED
          BY <3>1, <4>1 DEF status, RelayInv, LedgerOK
      <3>2. QED
        BY <3>1
    <2>5. QED
      BY <1>1, <1>2, <1>5, <2>3, <2>4, AddingKeeps
  <1>6. QED
    BY <1>4, <1>5 DEF MemoryStep

(* A step that asks the network, or sends to it, keeps the invariant. *)
LEMMA LedgerKeeps ==
  ASSUME RelayInv, NEW r \in Request, LedgerStep(r)
  PROVE  RelayInv'
  <1>1. /\ pc[r] \in Undrawn
        /\ UNCHANGED <<chainVars, input, usedNullifiers, certificates, sequence, certId,
                       dbNullifiers, dbCertificates, clock, txStatus, accountSeq, attempts>>
        /\ seqRead' \in [Request -> Nat]
    BY DEF LedgerStep, memory, database
  <1>2. RelayTypeOK
    BY DEF RelayInv
  <1>3. inFlight' \in Request \cup {NoRequest}
    BY <1>2 DEF LedgerStep, RelayTypeOK
  <1>4. /\ hash' \in [Request -> Request]
        /\ \A q \in Request : hash'[q] = hash[q] \/ (hash'[q] \in Request /\ nullifierOf(hash'[q]) = nullifierOf(q))
    <2>1. CASE UNCHANGED hash
      BY <1>2, <2>1 DEF RelayTypeOK
    <2>2. CASE /\ inFlight # NoRequest /\ nullifierOf(inFlight) = nullifierOf(r)
               /\ hash' = [hash EXCEPT ![r] = inFlight]
      BY <1>2, <2>2 DEF RelayTypeOK
    <2>3. QED
      BY <2>1, <2>2 DEF LedgerStep
  <1>5. LedgerOK'
    BY <1>1, <1>4, LedgerSame
  <1>6. PICK p \in {"simulate", "send", "poll", "refused", "failed"} : Goto(r, p)
    BY DEF LedgerStep
  <1>7. p \in Stage /\ p \in Undrawn \cup {"rejected", "refused", "failed"} /\ p # "insert_nullifier"
    BY DEF Stage, Undrawn, Waiting, Answered
  <1>8. MemoryTyped' /\ dbNullifiers' \subseteq Nullifier /\ dbCertificates' \subseteq Certificate
    BY <1>1, <1>2 DEF MemoryTyped, RelayTypeOK
  <1>9. RelayTypeOK'
    BY <1>1, <1>2, <1>3, <1>4, <1>6, <1>7, <1>8, MovedTyped
  <1>10. QED
    BY <1>1, <1>5, <1>6, <1>7, <1>9, MovesKeep

(* The nullifier's INSERT keeps the invariant. *)
LEMMA InsertNullifierKeeps ==
  ASSUME RelayInv, NEW r \in Request, InsertNullifier(r)
  PROVE  RelayInv'
  <1>1. RelayTypeOK /\ pc[r] \in Undrawn /\ pc[r] = "insert_nullifier" /\ UseDb
    BY DEF InsertNullifier, Undrawn, RelayInv, HandlersOK
  <1>2. /\ AddCertificate(r) /\ Goto(r, "insert_certificate") /\ "insert_certificate" \in Stage
        /\ UNCHANGED <<chainVars, input, usedNullifiers, dbCertificates, clock,
                       accountSeq, seqRead, hash, inFlight, txStatus, attempts>>
    BY DEF InsertNullifier, network, Stage, Waiting
  <1>3. dbNullifiers' = dbNullifiers \cup {nullifierOf(r)} /\ nullifierOf(r) \in Nullifier
    BY <1>1, NullifierOf DEF InsertNullifier
  <1>4. LedgerOK'
    BY <1>2, LedgerSame
  <1>5. MemoryTyped' /\ dbNullifiers' \subseteq Nullifier /\ dbCertificates' \subseteq Certificate
    BY <1>1, <1>2, <1>3, Added DEF MemoryTyped, RelayTypeOK
  <1>6. RelayTypeOK'
    BY <1>1, <1>2, <1>5, MovedTyped DEF RelayTypeOK
  <1>7. UseVerifier /\ TestMode /\ input[r].kind = "CERT" => Recorded(nullifierOf(r))
    BY <1>1 DEF RelayInv, BackedOK
  <1>8. QED
    BY <1>1, <1>2, <1>3, <1>4, <1>6, <1>7, AddingKeeps

(* A row that is stored is a certificate. *)
LEMMA RowTyped ==
  ASSUME RelayInv, NEW r \in Request, pc[r] = "insert_certificate"
  PROVE  Row(certId[r], nullifierOf(r)) \in Certificate
  <1>1. certId[r] \in CertificateId /\ nullifierOf(r) \in Nullifier
    BY NullifierOf DEF RelayInv, HandlersOK
  <1>2. QED
    BY <1>1 DEF Row, Certificate

(* The certificate's INSERT keeps the invariant. *)
LEMMA InsertCertificateKeeps ==
  ASSUME RelayInv, NEW r \in Request, InsertCertificate(r)
  PROVE  RelayInv'
  <1>1. /\ RelayTypeOK /\ pc[r] = "insert_certificate"
        /\ UNCHANGED <<chainVars, input, memory, dbNullifiers, clock,
                       accountSeq, seqRead, hash, inFlight, txStatus, attempts>>
    BY DEF InsertCertificate, network, RelayInv
  <1>2. PICK stage \in {"verified", "failed"} :
             /\ Goto(r, stage)
             /\ \/ /\ ~NullifierTaken(nullifierOf(r))
                   /\ dbCertificates' = dbCertificates \cup {Row(certId[r], nullifierOf(r))}
                \/ dbCertificates' = dbCertificates /\ (stage = "verified" => IdTaken(certId[r]))
    BY DEF InsertCertificate
  <1>3. LedgerOK'
    BY <1>1, LedgerSame
  <1>4. MemoryTyped' /\ dbNullifiers' \subseteq Nullifier /\ dbCertificates' \subseteq Certificate
    BY <1>1, <1>2, RowTyped DEF MemoryTyped, RelayTypeOK, memory
  <1>5. RelayTypeOK'
    <2>1. stage \in Stage
      BY DEF Stage, Answered
    <2>2. QED
      BY <1>1, <1>2, <1>4, <2>1, MovedTyped DEF RelayTypeOK
  <1>6. QED
    BY <1>1, <1>2, <1>3, <1>5, StoringKeeps

(* A query that fails, done or not, keeps the invariant. *)
LEMMA DbErrorKeeps ==
  ASSUME RelayInv, NEW r \in Request, DbError(r)
  PROVE  RelayInv'
  <1>1. /\ RelayTypeOK /\ Goto(r, "failed") /\ "failed" \in Stage
        /\ UNCHANGED <<chainVars, input, memory, clock,
                       accountSeq, seqRead, hash, inFlight, txStatus, attempts>>
    BY DEF DbError, network, RelayInv, Stage, Answered
  <1>2. LedgerOK'
    BY <1>1, LedgerSame
  <1>3. ASSUME dbNullifiers' \subseteq Nullifier, dbCertificates' \subseteq Certificate PROVE RelayTypeOK'
    <2>1. MemoryTyped'
      BY <1>1 DEF MemoryTyped, RelayTypeOK, memory
    <2>2. QED
      BY <1>1, <1>3, <2>1, MovedTyped DEF RelayTypeOK
  <1>4. ASSUME pc[r] \in Undrawn, UNCHANGED dbCertificates,
               dbNullifiers' \in {dbNullifiers, dbNullifiers \cup {nullifierOf(r)}}
        PROVE  RelayInv'
    <2>1. RelayTypeOK'
      BY <1>1, <1>3, <1>4, NullifierOf DEF RelayTypeOK
    <2>2. UNCHANGED <<certificates, sequence, certId>> /\ dbNullifiers \subseteq dbNullifiers'
      BY <1>1, <1>4 DEF memory
    <2>3. QED
      BY <1>1, <1>2, <1>4, <2>1, <2>2, MovesKeep
  <1>5. ASSUME pc[r] = "insert_certificate", UNCHANGED dbNullifiers,
               \/ UNCHANGED dbCertificates
               \/ /\ ~NullifierTaken(nullifierOf(r))
                  /\ dbCertificates' = dbCertificates \cup {Row(certId[r], nullifierOf(r))}
        PROVE  RelayInv'
    <2>1. dbNullifiers' \subseteq Nullifier /\ dbCertificates' \subseteq Certificate
      <3>1. Row(certId[r], nullifierOf(r)) \in Certificate
        BY <1>5, RowTyped
      <3>2. QED
        BY <1>1, <1>5, <3>1 DEF RelayTypeOK
    <2>2. RelayTypeOK'
      BY <1>3, <2>1
    <2>3. QED
      BY <1>1, <1>2, <1>5, <2>2, StoringKeeps
  <1>6. CASE pc[r] = "insert_certificate"
    BY <1>5, <1>6 DEF DbError, database
  <1>7. CASE pc[r] # "insert_certificate"
    <2>1. pc[r] \in {"db_check", "insert_nullifier"} /\ UNCHANGED dbCertificates
          /\ dbNullifiers' \in {dbNullifiers, dbNullifiers \cup {nullifierOf(r)}}
      BY <1>7 DEF DbError, database
    <2>2. QED
      BY <1>4, <2>1 DEF Undrawn
  <1>8. QED
    BY <1>6, <1>7

(* What the network and the wallet do keeps the invariant. *)
LEMMA WorldKeeps ==
  ASSUME RelayInv, WorldStep
  PROVE  RelayInv'
  <1>1. /\ RelayTypeOK
        /\ UNCHANGED <<input, pc, usedNullifiers, certificates, sequence, certId,
                       dbNullifiers, dbCertificates, day, restarts, seqRead, hash>>
        /\ inFlight' \in {inFlight, NoRequest} /\ accountSeq' \in Nat /\ attempts' \in [Request -> 0..MaxPolls]
    BY DEF WorldStep, RelayInv, memory, database, clock
  <1>2. Listed' = Listed /\ \A q \in Request : nullifierOf(q)' = nullifierOf(q) /\ nullifierOf(q) \in Nullifier
    BY <1>1, NullifierOf DEF Listed, nullifierOf
  <1>3. LedgerOK /\ used \subseteq Nullifier /\ TypeOK
    BY <1>1 DEF RelayInv, RelayTypeOK, TypeOK
  <1>4. /\ TypeOK' /\ UNCHANGED <<authorized, testMode>>
        /\ \A n \in Nullifier : Recorded(n) => Recorded(n)'
        /\ \A n \in used' : Recorded(n)'
    <2>1. CASE UNCHANGED chainVars
      BY <1>3, <2>1, ChainSame DEF LedgerOK
    <2>2. ASSUME NEW n \in Nullifier, RetiresOne(n)
          PROVE  /\ TypeOK' /\ UNCHANGED <<authorized, testMode>>
                 /\ \A m \in Nullifier : Recorded(m) => Recorded(m)'
                 /\ \A m \in used' : Recorded(m)'
      BY <1>3, <2>2, RetiredOne DEF LedgerOK
    <2>3. QED
      BY <1>2, <2>1, <2>2 DEF WorldStep
  <1>5. txStatus' \in [Request -> {"NOT_FOUND", "SUCCESS", "FAILED"}]
    BY <1>1 DEF WorldStep, RelayTypeOK
  <1>6. ASSUME NEW r \in Request, RetiresOne(nullifierOf(r)) \/ (UNCHANGED chainVars /\ CallReturnsFalse(r))
        PROVE  TestMode => Recorded(nullifierOf(r))'
    <2>1. CASE RetiresOne(nullifierOf(r))
      <3>1. PICK n \in Nullifier : n = nullifierOf(r) /\ RetiresOne(n)
        BY <1>2, <2>1
      <3>2. Recorded(n)'
        BY <1>3, <3>1, RetiredOne
      <3>3. QED
        BY <1>2, <3>1, <3>2 DEF Recorded
    <2>2. CASE UNCHANGED chainVars /\ CallReturnsFalse(r)
      <3>1. TestMode => nullifierOf(r) \in used
        BY <1>3, <2>2 DEF CallReturnsFalse, VerifyReturnsFalse, IsValid, NR!IsUsed, LedgerOK
      <3>2. TestMode => Recorded(nullifierOf(r))
        BY <1>3, <3>1 DEF LedgerOK
      <3>3. QED
        BY <1>2, <1>4, <3>2 DEF Recorded
    <2>3. QED
      BY <1>6, <2>1, <2>2
  <1>7. ASSUME NEW q \in Request, TestMode, txStatus'[q] = "SUCCESS" PROVE Recorded(nullifierOf(q))'
    <2>1. CASE txStatus[q] = "SUCCESS"
      <3>1. Recorded(nullifierOf(q)) /\ nullifierOf(q) \in Nullifier
        BY <1>2, <1>3, <1>7, <2>1 DEF LedgerOK
      <3>2. PICK n \in Nullifier : n = nullifierOf(q)
        BY <3>1
      <3>3. Recorded(n)'
        BY <1>4, <3>1, <3>2
      <3>4. QED
        BY <1>2, <3>2, <3>3 DEF Recorded
    <2>2. CASE txStatus[q] # "SUCCESS"
      <3>1. \E r \in Request :
              /\ RetiresOne(nullifierOf(r)) \/ (UNCHANGED chainVars /\ CallReturnsFalse(r))
              /\ txStatus' = [txStatus EXCEPT ![r] = "SUCCESS"]
        BY <1>1, <1>7, <2>2 DEF WorldStep, RelayTypeOK
      <3>2. RetiresOne(nullifierOf(q)) \/ (UNCHANGED chainVars /\ CallReturnsFalse(q))
        BY <1>1, <1>7, <2>2, <3>1 DEF RelayTypeOK
      <3>3. QED
        BY <1>6, <1>7, <3>2
    <2>3. QED
      BY <2>1, <2>2
  <1>8. LedgerOK'
    <2>1. \A q \in Request : (nullifierOf(hash[q]) = nullifierOf(q))'
      BY <1>1, <1>3 DEF LedgerOK, nullifierOf
    <2>2. QED
      BY <1>3, <1>4, <1>7, <2>1 DEF LedgerOK
  <1>9. RelayTypeOK'
    <2>1. inFlight' \in Request \cup {NoRequest}
      BY <1>1 DEF RelayTypeOK
    <2>2. QED
      BY <1>1, <1>4, <1>5, <2>1 DEF RelayTypeOK
  <1>10. HandlersOK' /\ RowsOK'
    BY <1>1, <1>2 DEF RelayInv, HandlersOK, RowsOK
  <1>11. BackedOK'
    <2>1. \A c \in dbCertificates \cup Listed : c.nullifier \in Nullifier
      BY <1>1, ListedTyped DEF RelayTypeOK, Certificate
    <2>2. \A q \in Request : Recorded(nullifierOf(q)) => Recorded(nullifierOf(q))'
      <3>1. ASSUME NEW q \in Request, NEW n \in Nullifier, n = nullifierOf(q), Recorded(n)
            PROVE  Recorded(nullifierOf(q))'
        BY <1>2, <1>4, <3>1 DEF Recorded
      <3>2. QED
        BY <1>2, <3>1
    <2>3. QED
      BY <1>1, <1>2, <1>4, <2>1, <2>2 DEF RelayInv, BackedOK
  <1>12. IdsOK'
    <2>1. \A q \in Request : IdTaken(certId[q])' = IdTaken(certId[q])
                             /\ Row(certId[q], nullifierOf(q))' = Row(certId[q], nullifierOf(q))
      BY <1>1, <1>2 DEF IdTaken, Row
    <2>2. QED
      BY <1>1, <1>2, <2>1 DEF RelayInv, IdsOK
  <1>13. QED
    BY <1>8, <1>9, <1>10, <1>11, <1>12 DEF RelayInv

(* A restart forgets what is in memory, none of which was relied upon. *)
LEMMA RestartKeeps ==
  ASSUME RelayInv, Restart
  PROVE  RelayInv'
  <1>1. /\ RelayTypeOK /\ restarts < MaxRestarts /\ restarts' = restarts + 1 /\ day' \in day..MaxDay
        /\ usedNullifiers' = {} /\ certificates' = <<>> /\ sequence' = 0
        /\ UNCHANGED <<chainVars, input, certId, dbNullifiers, dbCertificates,
                       accountSeq, seqRead, hash, inFlight, txStatus, attempts>>
    BY DEF Restart, database, network, RelayInv
  <1>2. /\ pc' \in [Request -> {"new"} \cup Waiting \cup Answered]
        /\ \A q \in Request : pc'[q] = pc[q] \/ pc'[q] = "lost"
    BY <1>1 DEF Restart, RelayTypeOK, Waiting, Answered
  <1>3. TypeOK' /\ \A n \in Nullifier : Recorded(n)' = Recorded(n)
    BY <1>1, ChainSame DEF RelayTypeOK
  <1>4. restarts' \in 0..MaxRestarts /\ restarts' # 0
    BY <1>1, RelayAssumption DEF RelayTypeOK
  <1>5. day' \in 1..MaxDay
    BY <1>1, RelayAssumption DEF RelayTypeOK
  <1>6. RelayTypeOK'
    <2>1. certificates' \in Seq(Certificate) /\ sequence' \in Nat
      BY <1>1
    <2>2. QED
      BY <1>1, <1>2, <1>3, <1>4, <1>5, <2>1 DEF RelayTypeOK
  <1>7. LedgerOK'
    BY <1>1, LedgerSame
  <1>8. Listed' = {} /\ \A q \in Request : nullifierOf(q)' = nullifierOf(q) /\ nullifierOf(q) \in Nullifier
    BY <1>1, NullifierOf DEF Listed, Elements, nullifierOf
  <1>9. HandlersOK' /\ RowsOK'
    BY <1>1, <1>2, <1>8 DEF RelayInv, HandlersOK, RowsOK
  <1>10. BackedOK'
    <2>1. \A c \in dbCertificates : c.nullifier \in Nullifier
      BY <1>1 DEF RelayTypeOK, Certificate
    <2>2. QED
      BY <1>1, <1>2, <1>3, <1>8, <2>1 DEF RelayInv, BackedOK
  <1>11. IdsOK'
    BY <1>4 DEF IdsOK
  <1>12. QED
    BY <1>6, <1>7, <1>9, <1>10, <1>11 DEF RelayInv

(* Every step of the relay keeps the invariant. *)
LEMMA StepRelay == RelayInv /\ [RelayNext]_relayVars => RelayInv'
  <1> SUFFICES ASSUME RelayInv, [RelayNext]_relayVars PROVE RelayInv'
    OBVIOUS
  <1>1. RelayTypeOK
    BY DEF RelayInv
  <1>2. QED
    BY <1>1, StepKinds, MemoryKeeps, LedgerKeeps, InsertNullifierKeeps, InsertCertificateKeeps,
       DbErrorKeeps, WorldKeeps, RestartKeeps

--------------------------------------------------------------------------------
(* The theorems. *)

(* The inductive invariant holds in every reachable state. *)
THEOREM RelayInvariant == RelaySpec => []RelayInv
  BY InitRelay, StepRelay, PTL DEF RelaySpec

(* The type invariant: the polling loop stays within its bound, and only *)
(* drawn ids are stored.                                                 *)
THEOREM RelayTyped == RelaySpec => []RelayTypeOK
  <1>1. RelayInv => RelayTypeOK
    BY DEF RelayInv
  <1>2. QED
    BY <1>1, RelayInvariant, PTL

(* A stored certificate's nullifier is stored too, through failed INSERTs,  *)
(* lost answers and restarts (proof.service.ts records the nullifier first). *)
THEOREM CertifiedIsStored == RelaySpec => []CertifiedNullifierStored
  <1>1. RelayInv => CertifiedNullifierStored
    BY DEF RelayInv, RowsOK, CertifiedNullifierStored
  <1>2. QED
    BY <1>1, RelayInvariant, PTL

(* In test mode a retirement certificate's nullifier is recorded. *)
CertifiedIsRecorded ==
  \A c \in dbCertificates \cup {certificates[i] : i \in DOMAIN certificates} :
    c.id[1] = "CERT" => Recorded(c.nullifier)

(* The invariant says so of the rows and of the list in memory. *)
LEMMA BackedIsRecorded ==
  ASSUME UseVerifier, TestMode
  PROVE  RelayInv => CertifiedIsRecorded
  <1>1. Listed = {certificates[i] : i \in DOMAIN certificates}
    BY DEF Listed, Elements
  <1>2. QED
    BY <1>1 DEF RelayInv, BackedOK, CertifiedIsRecorded

(* Until the backend restarts, the id in an answer opens the certificate of *)
(* that answer, with a database or without.                                 *)
THEOREM VerifiedOpensCertificate == RelaySpec => []VerifiedHasCertificateUntilRestart
  <1>1. RelayInv => VerifiedHasCertificateUntilRestart
    <2> SUFFICES ASSUME RelayInv, restarts = 0, NEW r \in Request, pc[r] = "verified"
                 PROVE  getByCertificateId(certId[r]) = {Row(certId[r], nullifierOf(r))}
      BY DEF VerifiedHasCertificateUntilRestart, VerifiedHasCertificate
    <2>1. IdsOK /\ certId[r] # NoId
      BY DEF RelayInv, IdsOK
    <2>2. ASSUME NEW c \in dbCertificates \cup Listed, c.id = certId[r]
          PROVE  c = Row(certId[r], nullifierOf(r))
      <3>1. PICK q \in Request : certId[q] = c.id /\ nullifierOf(q) = c.nullifier
        BY <2>1, <2>2 DEF IdsOK
      <3>2. q = r
        BY <2>1, <2>2, <3>1 DEF IdsOK
      <3>3. c \in Certificate
        BY ListedTyped DEF RelayInv, RelayTypeOK
      <3>4. QED
        BY <2>2, <3>1, <3>2, <3>3 DEF Certificate, Row
    <2>3. Listed = {certificates[i] : i \in DOMAIN certificates}
      BY DEF Listed, Elements
    <2>4. Row(certId[r], nullifierOf(r)).id = certId[r]
      BY DEF Row
    <2>5. CASE UseDb
      <3>1. Row(certId[r], nullifierOf(r)) \in dbCertificates
        BY <2>1, <2>5 DEF IdsOK
      <3>2. {c \in dbCertificates : c.id = certId[r]} = {Row(certId[r], nullifierOf(r))}
        BY <2>2, <2>4, <3>1
      <3>3. QED
        BY <2>5, <3>2 DEF getByCertificateId
    <2>6. CASE ~UseDb
      <3>1. Row(certId[r], nullifierOf(r)) \in Listed
        BY <2>1, <2>6 DEF IdsOK
      <3>2. {c \in Listed : c.id = certId[r]} = {Row(certId[r], nullifierOf(r))}
        BY <2>2, <2>4, <3>1
      <3>3. QED
        BY <2>3, <2>6, <3>2 DEF getByCertificateId
    <2>7. QED
      BY <2>5, <2>6
  <1>2. QED
    BY <1>1, RelayInvariant, PTL

(* With a database and until a restart, however many requests race for one *)
(* nullifier, one at most is told it was verified.                         *)
THEOREM VerifiedIsOnce ==
  ASSUME UseDb
  PROVE  RelaySpec => []VerifiedOnceUntilRestart
  <1>1. RelayInv => VerifiedOnceUntilRestart
    <2> SUFFICES ASSUME RelayInv, restarts = 0, NEW r \in Request, NEW q \in Request,
                        pc[r] = "verified", pc[q] = "verified", nullifierOf(r) = nullifierOf(q)
                 PROVE  r = q
      BY DEF VerifiedOnceUntilRestart, VerifiedOnce
    <2>1. /\ certId[r] # NoId
          /\ Row(certId[r], nullifierOf(r)) \in dbCertificates
          /\ Row(certId[q], nullifierOf(q)) \in dbCertificates
      BY DEF RelayInv, IdsOK
    <2>2. Row(certId[r], nullifierOf(r)) = Row(certId[q], nullifierOf(q))
      <3>1. Row(certId[r], nullifierOf(r)).nullifier = Row(certId[q], nullifierOf(q)).nullifier
        BY DEF Row
      <3>2. QED
        BY <2>1, <3>1 DEF RelayInv, RowsOK
    <2>3. certId[r] = certId[q]
      BY <2>2 DEF Row
    <2>4. QED
      BY <2>1, <2>3 DEF RelayInv, IdsOK
  <1>2. QED
    BY <1>1, RelayInvariant, PTL
--------------------------------------------------------------------------------
(* The relay over the contracts. *)

(* What the relay does to the contracts: nothing, or one of their calls. *)
LEMMA RelayChainStep ==
  ASSUME RelayTypeOK, [RelayNext]_relayVars
  PROVE  UNCHANGED chainVars \/ \E n \in Nullifier : RetiresOne(n)
  <1>1. CASE \E r \in Request : MemoryStep(r) \/ LedgerStep(r)
    BY <1>1 DEF MemoryStep, LedgerStep
  <1>2. CASE \E r \in Request : InsertNullifier(r) \/ InsertCertificate(r) \/ DbError(r)
    BY <1>2 DEF InsertNullifier, InsertCertificate, DbError
  <1>3. CASE WorldStep
    BY <1>3, NullifierOf DEF WorldStep
  <1>4. CASE Restart
    BY <1>4 DEF Restart
  <1>5. QED
    BY <1>1, <1>2, <1>3, <1>4, StepKinds

(* Every step of the relay is a transaction the contracts allow, or leaves *)
(* them alone: what is proved of the contracts' calls holds of the relay's.*)
THEOREM RelayUsesContracts == RelaySpec => [][Next]_chainVars
  <1>1. RelayTypeOK /\ [RelayNext]_relayVars => [Next]_chainVars
    BY RelayChainStep DEF RetiresOne, Next, chainVars
  <1>2. QED
    BY <1>1, RelayTyped, PTL DEF RelaySpec

(* The deployed contracts have retired nothing yet. *)
LEMMA DeployedUnique == RelayInit => Unique /\ RetiredEventsMatchRecords
  <1> SUFFICES ASSUME RelayInit PROVE Unique /\ RetiredEventsMatchRecords
    OBVIOUS
  <1>1. TypeOK
    BY InitRelay DEF RelayInv, RelayTypeOK
  <1>2. \A n \in Nullifier : ~Recorded(n)
    BY DEF RelayInit, DeployedChain, Recorded
  <1>3. \A t \in DOMAIN credits : ~credits[t].is_retired
    BY DEF RelayInit, DeployedChain, Held
  <1>4. used = {} /\ log = <<>>
    BY DEF RelayInit, DeployedChain
  <1>5. RecordsBackedByBurn /\ UsedMatchesRecords /\ NothingUsedYet
    BY <1>2, <1>4 DEF RecordsBackedByBurn, UsedMatchesRecords, NothingUsedYet
  <1>6. BurnsAreRecorded /\ OneCreditPerNullifier
    BY <1>3 DEF BurnsAreRecorded, OneCreditPerNullifier, RetiredWith
  <1>7. RetiredEventsMatchRecords
    BY <1>2, <1>4 DEF RetiredEventsMatchRecords
  <1>8. QED
    BY <1>1, <1>5, <1>6, <1>7 DEF Unique, Backed

(* A step of the relay keeps the retirements unique. *)
LEMMA RelayStepUnique ==
  ASSUME Unique, UNCHANGED chainVars \/ \E n \in Nullifier : RetiresOne(n)
  PROVE  Unique'
  <1>1. CASE UNCHANGED chainVars
    <2>1. Backed'
      BY <1>1, StepBacked DEF Unique, chainVars
    <2>2. BurnsAreRecorded' /\ OneCreditPerNullifier'
      BY <1>1
         DEF Unique, BurnsAreRecorded, OneCreditPerNullifier, RetiredWith, Recorded, chainVars,
             vars
    <2>3. QED
      BY <2>1, <2>2 DEF Unique
  <1>2. CASE \E n \in Nullifier : RetiresOne(n)
    BY <1>2, VerifyUnique DEF RetiresOne
  <1>3. QED
    BY <1>1, <1>2

(* On the contracts as deployed for the relay, however many requests race, *)
(* fail and are lost, and whatever the wallet retires beside them: records,*)
(* burned credits, used nullifiers and events tell of the same retirements.*)
THEOREM RelayKeepsContracts ==
  RelaySpec => [](/\ OneCreditPerNullifier /\ BurnsAreRecorded
                  /\ RecordsBackedByBurn /\ UsedMatchesRecords /\ RetiredEventsMatchRecords)
  <1>1. RelayInit => Unique /\ RetiredEventsMatchRecords
    BY DeployedUnique
  <1>2. RelayTypeOK /\ Unique /\ RetiredEventsMatchRecords /\ [RelayNext]_relayVars
          => (Unique /\ RetiredEventsMatchRecords)'
    <2> SUFFICES ASSUME RelayTypeOK, Unique, RetiredEventsMatchRecords, [RelayNext]_relayVars
                 PROVE  Unique' /\ RetiredEventsMatchRecords'
      OBVIOUS
    <2>1. UNCHANGED chainVars \/ \E n \in Nullifier : RetiresOne(n)
      BY RelayChainStep
    <2>2. [Next]_vars
      BY <2>1 DEF RetiresOne, Next, chainVars
    <2>3. QED
      BY <2>1, <2>2, RelayStepUnique, StepEvents DEF Unique
  <1>3. Unique => OneCreditPerNullifier /\ BurnsAreRecorded /\ RecordsBackedByBurn /\ UsedMatchesRecords
    BY DEF Unique, Backed
  <1>4. QED
    BY <1>1, <1>2, <1>3, RelayTyped, PTL DEF RelaySpec

(* Seen as owners and retirements, every step of the relay is a retirement *)
(* of the abstract ledger or changes nothing of it.                        *)
THEOREM RelayRefinesLedger == RelaySpec => [][Ledger!Next]_<<owners, retirements>>
  <1>1. RelayTypeOK /\ Unique /\ [RelayNext]_relayVars => Unique'
    BY RelayChainStep, RelayStepUnique
  <1>2. RelayTypeOK /\ Unique /\ [RelayNext]_relayVars => [Ledger!Next]_<<owners, retirements>>
    <2> SUFFICES ASSUME RelayTypeOK, Unique, [RelayNext]_relayVars
                 PROVE  [Ledger!Next]_<<owners, retirements>>
      OBVIOUS
    <2>1. CASE UNCHANGED chainVars
      BY <2>1 DEF chainVars, vars, owners, retirements
    <2>2. ASSUME NEW n \in Nullifier, RetiresOne(n) PROVE Ledger!Next
      <3>1. TypeOK'
        BY <1>1 DEF Unique, Backed
      <3>2. QED
        BY <2>2, <3>1, VerifyRefines DEF RetiresOne, Ledger!Next
    <2>3. QED
      BY <2>1, <2>2, RelayChainStep
  <1>3. QED
    BY <1>1, <1>2, DeployedUnique, RelayTyped, PTL DEF RelaySpec

(* Of the relay's own credits only the one it names is ever retired. *)
OthersSpared ==
  \A t \in DOMAIN credits : credits[t].is_retired /\ credits[t].owner = Deployer => t = RelayToken

(* A retirement leaves the owners, and the other credits, as they are. *)
LEMMA RetiresOneSpares ==
  ASSUME TypeOK, OthersSpared, NEW n \in Nullifier, RetiresOne(n)
  PROVE  OthersSpared'
  <1>1. PICK c \in Corridor, t \in 1..MaxCredits, owner \in Address, signer \in Account :
             VerifyRetirement(n, c, t, owner, signer) /\ (owner = Deployer => t = RelayToken)
    BY DEF RetiresOne
  <1>2. /\ t \in DOMAIN credits /\ credits[t].owner = owner
        /\ credits' = [credits EXCEPT ![t] = [@ EXCEPT !.is_retired = TRUE, !.nullifier = n]]
    BY <1>1 DEF VerifyRetirement, CR!BurnOnRetirement, CR!MayBurn
  <1>3. credits[t] \in CR!Credit
    BY <1>2 DEF TypeOK
  <1>4. credits'[t].owner = owner
    BY <1>2, <1>3 DEF CR!Credit
  <1>5. DOMAIN credits' = DOMAIN credits /\ \A s \in DOMAIN credits : s # t => credits'[s] = credits[s]
    BY <1>2
  <1>6. QED
    BY <1>1, <1>4, <1>5 DEF OthersSpared, RelayToken

(* Whatever is relayed, of the credits of the relay's account only token 1 *)
(* is ever retired.                                                        *)
THEOREM RelaySparesOthers == RelaySpec => []OthersSpared
  <1>1. RelayInit => OthersSpared
    <2> SUFFICES ASSUME RelayInit, NEW t \in DOMAIN credits PROVE ~credits[t].is_retired
      BY DEF OthersSpared
    <2>1. QED
      BY DEF RelayInit, DeployedChain, Held
  <1>2. RelayTypeOK /\ OthersSpared /\ [RelayNext]_relayVars => OthersSpared'
    <2> SUFFICES ASSUME RelayTypeOK, OthersSpared, [RelayNext]_relayVars PROVE OthersSpared'
      OBVIOUS
    <2>1. CASE UNCHANGED chainVars
      BY <2>1 DEF OthersSpared, RelayToken, chainVars, vars
    <2>2. CASE \E n \in Nullifier : RetiresOne(n)
      BY <2>2, RetiresOneSpares DEF RelayTypeOK
    <2>3. QED
      BY <2>1, <2>2, RelayChainStep
  <1>3. QED
    BY <1>1, <1>2, RelayTyped, PTL DEF RelaySpec

(* With a verifier in test mode every retirement certificate, listed or    *)
(* stored, has its record and its burned credit, which is in a contract    *)
(* the backend never asks; of the relay's own credits that is token 1.     *)
THEOREM CertificatesAreBacked ==
  ASSUME UseVerifier, TestMode
  PROVE  RelaySpec => []CertificatesBackedOnChain
  <1>1. /\ RelayInv /\ OthersSpared
        /\ OneCreditPerNullifier /\ BurnsAreRecorded
        /\ RecordsBackedByBurn /\ UsedMatchesRecords /\ RetiredEventsMatchRecords
        => CertificatesBackedOnChain
    <2> SUFFICES ASSUME RelayInv, OthersSpared, RecordsBackedByBurn,
                        NEW c \in dbCertificates \cup {certificates[i] : i \in DOMAIN certificates},
                        c.id[1] = "CERT"
                 PROVE  /\ Recorded(c.nullifier)
                        /\ \E t \in DOMAIN credits :
                             RetiredWith(t, c.nullifier) /\ (credits[t].owner = Deployer => t = 1)
      BY DEF CertificatesBackedOnChain
    <2>1. Recorded(c.nullifier)
      BY BackedIsRecorded DEF CertifiedIsRecorded
    <2>2. c.nullifier \in Nullifier
      <3>1. Listed = {certificates[i] : i \in DOMAIN certificates}
        BY DEF Listed, Elements
      <3>2. c \in Certificate
        BY <3>1, ListedTyped DEF RelayInv, RelayTypeOK
      <3>3. QED
        BY <3>2 DEF Certificate
    <2>3. PICK t \in 1..MaxCredits : RetiredWith(t, c.nullifier)
      BY <2>1, <2>2 DEF RecordsBackedByBurn
    <2>4. QED
      BY <2>1, <2>3 DEF RetiredWith, OthersSpared, RelayToken
  <1>2. QED
    BY <1>1, RelayInvariant, RelaySparesOthers, RelayKeepsContracts, PTL

--------------------------------------------------------------------------------
(* How far a request is from its answer.                                   *)

(* The awaits at most ahead of a request at p that has polled n times.     *)
Ahead(p, n) ==
  CASE p = "new" -> MaxPolls + 9
    [] p = "db_check" -> MaxPolls + 8
    [] p = "chain_check" -> MaxPolls + 7
    [] p = "account" -> MaxPolls + 6
    [] p = "simulate" -> MaxPolls + 5
    [] p = "send" -> MaxPolls + 4
    [] p = "poll" -> (MaxPolls - n) + 3
    [] p = "insert_nullifier" -> 2
    [] p = "insert_certificate" -> 1
    [] OTHER -> 0

AwaitsAhead(r) == Ahead(pc[r], attempts[r])

(* Nothing brings a request back: where it moves, less is ahead of it. *)
Advances == \A r \in Request : UNCHANGED <<pc[r], attempts[r]>> \/ AwaitsAhead(r)' < AwaitsAhead(r)

(* One request moves, and only on. *)
LEMMA OneAdvances ==
  ASSUME RelayTypeOK, NEW r \in Request, NEW p, Goto(r, p), attempts' = attempts,
         Ahead(p, attempts[r]) < Ahead(pc[r], attempts[r])
  PROVE  Advances /\ AwaitsAhead(r)' < AwaitsAhead(r)
  <1>1. pc'[r] = p /\ \A q \in Request \ {r} : pc'[q] = pc[q]
    BY DEF Goto, RelayTypeOK
  <1>2. QED
    BY <1>1 DEF Advances, AwaitsAhead

(* What a request goes on to from its checks. *)
LEMMA ChecksAdvance ==
  ASSUME RelayTypeOK, NEW r \in Request, Relay(r) \/ DbCheck(r) \/ ChainCheck(r)
  PROVE  Advances /\ AwaitsAhead(r)' < AwaitsAhead(r)
  <1> DEFINE Ends == {"account", "insert_nullifier", "verified", "rejected"}
  <1>1. attempts' = attempts /\ attempts[r] \in 0..MaxPolls /\ MaxPolls \in Nat
    BY RelayAssumption DEF Relay, DbCheck, ChainCheck, network, RelayTypeOK
  <1>2. ASSUME CheckPassed(r) PROVE \E p \in Ends : Goto(r, p)
    BY <1>2 DEF CheckPassed, Record
  <1>3. ASSUME AfterDbCheck(r) PROVE \E p \in Ends \cup {"chain_check"} : Goto(r, p)
    BY <1>2, <1>3 DEF AfterDbCheck
  <1>4. ASSUME CheckHit(r) PROVE \E p \in Ends : Goto(r, p)
    BY <1>4 DEF CheckHit
  <1>5. CASE Relay(r)
    <2>1. PICK p \in Ends \cup {"chain_check", "db_check"} : Goto(r, p)
      BY <1>3, <1>5 DEF Relay
    <2>2. pc[r] = "new"
      BY <1>5 DEF Relay
    <2>3. Ahead(p, attempts[r]) < Ahead(pc[r], attempts[r])
      BY <1>1, <2>1, <2>2 DEF Ahead
    <2>4. QED
      BY <1>1, <2>1, <2>3, OneAdvances
  <1>6. CASE DbCheck(r)
    <2>1. PICK p \in Ends \cup {"chain_check"} : Goto(r, p)
      BY <1>3, <1>4, <1>6 DEF DbCheck
    <2>2. pc[r] = "db_check"
      BY <1>6 DEF DbCheck
    <2>3. Ahead(p, attempts[r]) < Ahead(pc[r], attempts[r])
      BY <1>1, <2>1, <2>2 DEF Ahead
    <2>4. QED
      BY <1>1, <2>1, <2>3, OneAdvances
  <1>7. CASE ChainCheck(r)
    <2>1. PICK p \in Ends : Goto(r, p)
      BY <1>2, <1>4, <1>7 DEF ChainCheck
    <2>2. pc[r] = "chain_check"
      BY <1>7 DEF ChainCheck
    <2>3. Ahead(p, attempts[r]) < Ahead(pc[r], attempts[r])
      BY <1>1, <2>1, <2>2 DEF Ahead
    <2>4. QED
      BY <1>1, <2>1, <2>3, OneAdvances
  <1>8. QED
    BY <1>5, <1>6, <1>7

(* Submission and polling. *)
LEMMA SubmissionAdvances ==
  ASSUME RelayTypeOK, NEW r \in Request,
         \/ GetAccount(r) \/ Simulate(r) \/ Send(r) \/ SendUnanswered(r)
         \/ PollAgain(r) \/ PollSucceeds(r) \/ PollEnds(r) \/ RpcError(r)
  PROVE  Advances /\ AwaitsAhead(r)' < AwaitsAhead(r)
  <1>1. attempts[r] \in 0..MaxPolls /\ MaxPolls \in Nat
    BY RelayAssumption DEF RelayTypeOK
  <1>2. CASE PollAgain(r)
    <2>1. pc' = pc /\ pc[r] = "poll" /\ attempts'[r] = attempts[r] + 1 /\ attempts[r] < MaxPolls
          /\ \A q \in Request \ {r} : attempts'[q] = attempts[q]
      BY <1>2 DEF PollAgain, RelayTypeOK
    <2>2. Ahead("poll", attempts[r] + 1) < Ahead("poll", attempts[r])
      BY <1>1, <2>1 DEF Ahead
    <2>3. QED
      BY <2>1, <2>2 DEF Advances, AwaitsAhead
  <1>3. CASE ~PollAgain(r)
    <2>1. attempts' = attempts
      BY <1>3 DEF GetAccount, Simulate, Send, SendUnanswered, PollSucceeds, PollEnds, RpcError,
                  Answer, network
    <2>2. \E p : Goto(r, p) /\ \/ pc[r] = "account" /\ p = "simulate"
                               \/ pc[r] = "simulate" /\ p = "send"
                               \/ pc[r] = "send" /\ p = "poll"
                               \/ pc[r] = "poll" /\ p = "insert_nullifier"
                               \/ /\ pc[r] \in {"account", "simulate", "send", "poll"}
                                  /\ p \in {"refused", "failed", "verified"}
      <3>1. CASE GetAccount(r)
        BY <3>1 DEF GetAccount
      <3>2. CASE Simulate(r)
        BY <3>2 DEF Simulate, Answer
      <3>3. CASE Send(r)
        BY <3>3 DEF Send
      <3>4. CASE SendUnanswered(r)
        BY <3>4 DEF SendUnanswered
      <3>5. CASE PollSucceeds(r)
        BY <3>5 DEF PollSucceeds, Record
      <3>6. CASE PollEnds(r) \/ RpcError(r)
        BY <3>6 DEF PollEnds, RpcError, Answer
      <3>7. QED
        BY <1>3, <3>1, <3>2, <3>3, <3>4, <3>5, <3>6
    <2>3. PICK p : Goto(r, p) /\ \/ pc[r] = "account" /\ p = "simulate"
                                 \/ pc[r] = "simulate" /\ p = "send"
                                 \/ pc[r] = "send" /\ p = "poll"
                                 \/ pc[r] = "poll" /\ p = "insert_nullifier"
                                 \/ /\ pc[r] \in {"account", "simulate", "send", "poll"}
                                    /\ p \in {"refused", "failed", "verified"}
      BY <2>2
    <2>4. Ahead(p, attempts[r]) < Ahead(pc[r], attempts[r])
      BY <1>1, <2>3 DEF Ahead
    <2>5. QED
      BY <2>1, <2>3, <2>4, OneAdvances
  <1>4. QED
    BY <1>2, <1>3

(* The two INSERTs and what fails on the way. *)
LEMMA InsertsAdvance ==
  ASSUME RelayTypeOK, NEW r \in Request, InsertNullifier(r) \/ InsertCertificate(r) \/ DbError(r)
  PROVE  Advances /\ AwaitsAhead(r)' < AwaitsAhead(r)
  <1>1. attempts' = attempts /\ attempts[r] \in 0..MaxPolls /\ MaxPolls \in Nat
    BY RelayAssumption DEF InsertNullifier, InsertCertificate, DbError, network, RelayTypeOK
  <1>2. \E p : Goto(r, p) /\ \/ pc[r] = "insert_nullifier" /\ p = "insert_certificate"
                             \/ /\ pc[r] \in {"db_check", "insert_nullifier", "insert_certificate"}
                                /\ p \in {"failed", "verified"}
    <2>1. CASE InsertNullifier(r)
      BY <2>1 DEF InsertNullifier
    <2>2. CASE InsertCertificate(r)
      BY <2>2 DEF InsertCertificate
    <2>3. CASE DbError(r)
      BY <2>3 DEF DbError
    <2>4. QED
      BY <2>1, <2>2, <2>3
  <1>3. PICK p : Goto(r, p) /\ \/ pc[r] = "insert_nullifier" /\ p = "insert_certificate"
                               \/ /\ pc[r] \in {"db_check", "insert_nullifier", "insert_certificate"}
                                  /\ p \in {"failed", "verified"}
    BY <1>2
  <1>4. Ahead(p, attempts[r]) < Ahead(pc[r], attempts[r])
    BY <1>1, <1>3 DEF Ahead
  <1>5. QED
    BY <1>1, <1>3, <1>4, OneAdvances

(* Why every request is answered: each await that ends, in a result or an  *)
(* error, brings its request nearer to its answer, by a number that is     *)
(* MaxPolls + 9 at most and 0 only for the answered; and nothing another   *)
(* request, the network, the wallet or a restart does takes it further     *)
(* away. Twenty polls and a failure are as final as a success.             *)
THEOREM RequestsOnlyAdvance ==
  RelaySpec => /\ [](\A r \in Request : /\ AwaitsAhead(r) \in 0..(MaxPolls + 9)
                                        /\ AwaitsAhead(r) = 0 <=> pc[r] \in Answered)
               /\ [][Advances /\ \A r \in Request : Handle(r) => AwaitsAhead(r)' < AwaitsAhead(r)]_relayVars
  <1>1. RelayTypeOK => \A r \in Request : /\ AwaitsAhead(r) \in 0..(MaxPolls + 9)
                                          /\ AwaitsAhead(r) = 0 <=> pc[r] \in Answered
    <2> SUFFICES ASSUME RelayTypeOK, NEW r \in Request
                 PROVE  AwaitsAhead(r) \in 0..(MaxPolls + 9) /\ (AwaitsAhead(r) = 0 <=> pc[r] \in Answered)
      OBVIOUS
    <2>1. attempts[r] \in 0..MaxPolls /\ MaxPolls \in Nat /\ pc[r] \in {"new"} \cup Waiting \cup Answered
      BY RelayAssumption DEF RelayTypeOK
    <2>2. QED
      BY <2>1 DEF AwaitsAhead, Ahead, Waiting, Answered
  <1>2. ASSUME RelayTypeOK, NEW r \in Request, Handle(r) PROVE AwaitsAhead(r)' < AwaitsAhead(r)
    BY <1>2, ChecksAdvance, SubmissionAdvances, InsertsAdvance DEF Handle
  <1>3. ASSUME RelayTypeOK, RelayNext PROVE Advances
    <2>1. CASE \E r \in Request : Relay(r) \/ Handle(r) \/ SendUnanswered(r) \/ RpcError(r) \/ DbError(r)
      BY <1>3, <2>1, ChecksAdvance, SubmissionAdvances, InsertsAdvance DEF Handle
    <2>2. CASE \E r \in Request : Land(r) \/ Expire(r)
      BY <2>2 DEF Land, Expire, Advances
    <2>3. CASE WalletRetires
      BY <2>3 DEF WalletRetires, network, Advances
    <2>4. CASE Restart
      <3> SUFFICES ASSUME NEW r \in Request
                   PROVE  UNCHANGED <<pc[r], attempts[r]>> \/ AwaitsAhead(r)' < AwaitsAhead(r)
        BY DEF Advances
      <3>1. attempts' = attempts /\ pc'[r] = IF pc[r] \in Waiting THEN "lost" ELSE pc[r]
        BY <2>4 DEF Restart, network
      <3>2. attempts[r] \in 0..MaxPolls /\ MaxPolls \in Nat
        BY <1>3, RelayAssumption DEF RelayTypeOK
      <3>3. CASE pc[r] \in Waiting
        BY <3>1, <3>2, <3>3 DEF AwaitsAhead, Ahead, Waiting
      <3>4. CASE pc[r] \notin Waiting
        BY <3>1, <3>4
      <3>5. QED
        BY <3>3, <3>4
    <2>5. QED
      BY <1>3, <2>1, <2>2, <2>3, <2>4 DEF RelayNext
  <1>4. RelayTypeOK /\ [RelayNext]_relayVars
          => [Advances /\ \A r \in Request : Handle(r) => AwaitsAhead(r)' < AwaitsAhead(r)]_relayVars
    BY <1>2, <1>3
  <1>5. QED
    BY <1>1, <1>4, RelayTyped, PTL DEF RelaySpec

--------------------------------------------------------------------------------
(* The contracts as contracts/scripts/deploy.sh leaves them.               *)

VARIABLE step   \* the script's progress

D == INSTANCE Deployment

(* The script runs, and its users call, nothing but the contracts: what is *)
(* proved of them for every order of calls holds of what it deploys.       *)
THEOREM DeploymentUsesContracts ==
  ASSUME Deployer \in RecordCaller
  PROVE  D!DeploySpec => Spec
  <1>1. D!DeployInit => Init
    BY DEF D!DeployInit, D!Init, D!NR!Init, D!CR!Init, Init, NR!Init, CR!Init
  <1>2. [D!DeployNext]_D!deployVars => [Next]_vars
    <2> SUFFICES ASSUME [D!DeployNext]_D!deployVars PROVE [Next]_vars
      OBVIOUS
    <2>1. Deployer \in Account /\ Deployer \in Address /\ Self \in Address /\ Account \subseteq Address
      BY RelayAssumption DEF Address
    <2>2. CASE D!InitializeNullifierRegistry
      <3>1. NRInitialize(Deployer)
        BY <2>2
           DEF D!InitializeNullifierRegistry, D!NRInitialize, D!NR!Initialize, D!crVars,
               D!rvVars, NRInitialize, NR!Initialize, crVars, rvVars
      <3>2. QED
        BY <2>1, <3>1 DEF Next
    <2>3. CASE D!InitializeCreditRegistry
      <3>1. CRInitialize(Deployer)
        BY <2>3 DEF D!InitializeCreditRegistry, D!CRInitialize, D!CR!Initialize, D!nrVars, D!rvVars,
           CRInitialize, CR!Initialize, nrVars, rvVars
      <3>2. QED
        BY <2>1, <3>1 DEF Next
    <2>4. CASE D!InitializeRetirementVerifier
      <3>1. Initialize
        BY <2>4
           DEF D!InitializeRetirementVerifier, D!Initialize, D!nrVars, D!crVars, Initialize,
               nrVars, crVars
      <3>2. QED
        BY <3>1 DEF Next
    <2>5. CASE D!SetCreditVerifier
      <3>1. SetVerifier(Self, Deployer)
        BY <2>5
           DEF D!SetCreditVerifier, D!SetVerifier, D!CR!SetVerifier, D!CR!IsAdmin, D!nrVars,
               D!rvVars, SetVerifier, CR!SetVerifier, CR!IsAdmin, nrVars, rvVars
      <3>2. QED
        BY <2>1, <3>1, RelayAssumption DEF Next
    <2>6. CASE D!PublishIds
      BY <2>6 DEF D!PublishIds, D!vars, vars
    <2>7. CASE D!Use
      <3>1. ASSUME NEW enabled \in BOOLEAN, D!SetTestMode(enabled) PROVE Next
        <4>1. SetTestMode(enabled)
          BY <3>1 DEF D!SetTestMode, D!nrVars, D!crVars, SetTestMode, nrVars, crVars
        <4>2. QED
          BY <4>1 DEF Next
      <3>2. ASSUME NEW to \in Account, D!IssueCredit(to, Deployer) PROVE Next
        <4>1. IssueCredit(to, Deployer)
          BY <3>2 DEF D!IssueCredit, D!CR!IssueCredit, D!CR!IsAdmin, D!nrVars, D!rvVars,
             IssueCredit, CR!IssueCredit, CR!IsAdmin, nrVars, rvVars
        <4>2. QED
          BY <2>1, <4>1 DEF Next
      <3>3. ASSUME NEW t \in 1..MaxCredits, NEW from \in Account, NEW to \in Account,
                   D!TransferCredit(t, to, from)
            PROVE  Next
        <4>1. TransferCredit(t, to, from)
          BY <3>3 DEF D!TransferCredit, D!CR!TransferCredit, D!nrVars, D!rvVars,
             TransferCredit, CR!TransferCredit, nrVars, rvVars
        <4>2. QED
          BY <2>1, <4>1 DEF Next
      <3>4. ASSUME NEW n \in Nullifier, NEW c \in Corridor, NEW t \in 1..MaxCredits,
                   NEW owner \in Account, D!VerifyRetirement(n, c, t, owner, owner)
            PROVE  Next
        <4>1. VerifyRetirement(n, c, t, owner, owner)
          <5>1. VerifyReturnsTrue(TRUE, n, t, owner, owner)
            BY <3>4
               DEF D!VerifyRetirement, D!VerifyReturnsTrue, D!IsValid, D!NR!CallerAuthorized,
                   D!NR!IsUsed, D!CR!MayBurn, VerifyReturnsTrue, IsValid, NR!CallerAuthorized,
                   NR!IsUsed, CR!MayBurn
          <5>2. NR!Record(n, Self)
            BY <3>4 DEF D!VerifyRetirement, D!NR!Record, D!NR!CallerAuthorized, D!NR!IsUsed,
               NR!Record, NR!CallerAuthorized, NR!IsUsed
          <5>3. CR!BurnOnRetirement(t, owner, n, {Self, owner})
            BY <3>4
               DEF D!VerifyRetirement, D!CR!BurnOnRetirement, D!CR!MayBurn,
                   CR!BurnOnRetirement, CR!MayBurn
          <5>4. QED
            BY <3>4, <5>1, <5>2, <5>3 DEF D!VerifyRetirement, D!Nullified, D!Burned, D!Retired,
               VerifyRetirement, Nullified, Burned, Retired
        <4>2. QED
          BY <2>1, <4>1 DEF Next
      <3>5. ASSUME NEW n \in Nullifier, D!DirectRecord(n, Deployer) PROVE Next
        <4>1. DirectRecord(n, Deployer)
          BY <3>5
             DEF D!DirectRecord, D!NR!Record, D!NR!CallerAuthorized, D!NR!IsUsed, D!Nullified,
                 D!crVars, DirectRecord, NR!Record, NR!CallerAuthorized, NR!IsUsed, Nullified,
                 crVars
        <4>2. QED
          BY <4>1 DEF Next
      <3>6. QED
        BY <2>7, <3>1, <3>2, <3>3, <3>4, <3>5 DEF D!Use
    <2>8. CASE UNCHANGED D!deployVars
      BY <2>8 DEF D!deployVars, D!vars, vars
    <2>9. QED
      BY <2>2, <2>3, <2>4, <2>5, <2>6, <2>7, <2>8 DEF D!DeployNext
  <1>3. QED
    BY <1>1, <1>2, PTL DEF D!DeploySpec, Spec

(* The nullifier registry answers to nobody or to the deployer's key. *)
AnswersToDeployer == authorized \in {NoAddress, Deployer}

(* On what the script deploys no retirement ever succeeds, for any credit, *)
(* nullifier, owner and signer, in test mode or not, and none is recorded: *)
(* NullifierRegistry.initialize was given the deployer's key (deploy.sh:80)*)
(* and can run only once.                                                  *)
THEOREM NothingRetiresAsDeployed ==
  D!DeploySpec => [](/\ \A n \in Nullifier : ~Recorded(n)
                     /\ \A present \in BOOLEAN, n \in Nullifier, t \in 1..MaxCredits :
                          \A owner, signer \in Account :
                            ~D!VerifyReturnsTrue(present, n, t, owner, signer))
  <1> DEFINE NoRecords == \A n \in Nullifier : ~Recorded(n)
  <1>1. D!DeployInit => AnswersToDeployer /\ NoRecords
    BY DEF D!DeployInit, D!Init, D!NR!Init, AnswersToDeployer, Recorded
  <1>2. AnswersToDeployer =>
          \A present \in BOOLEAN, n \in Nullifier, t \in 1..MaxCredits :
            \A owner, signer \in Account : ~D!VerifyReturnsTrue(present, n, t, owner, signer)
    <2>1. Self # Deployer /\ Self # NoAddress
      BY RelayAssumption, AddressAssumption DEF Address
    <2>2. QED
      BY <2>1 DEF AnswersToDeployer, D!VerifyReturnsTrue, D!NR!CallerAuthorized
  <1>3. AnswersToDeployer /\ NoRecords /\ [D!DeployNext]_D!deployVars => (AnswersToDeployer /\ NoRecords)'
    <2> SUFFICES ASSUME AnswersToDeployer, NoRecords, [D!DeployNext]_D!deployVars
                 PROVE  AnswersToDeployer' /\ NoRecords'
      OBVIOUS
    <2>1. ASSUME UNCHANGED <<authorized, records>> PROVE AnswersToDeployer' /\ NoRecords'
      BY <2>1 DEF AnswersToDeployer, Recorded
    <2>2. CASE D!InitializeNullifierRegistry
      BY <2>2
         DEF D!InitializeNullifierRegistry, D!NRInitialize, D!NR!Initialize, D!rvVars,
             AnswersToDeployer, Recorded
    <2>3. CASE D!InitializeCreditRegistry
      BY <2>1, <2>3 DEF D!InitializeCreditRegistry, D!CRInitialize, D!nrVars, D!rvVars
    <2>4. CASE D!InitializeRetirementVerifier
      BY <2>1, <2>4 DEF D!InitializeRetirementVerifier, D!Initialize, D!nrVars
    <2>5. CASE D!SetCreditVerifier
      BY <2>1, <2>5 DEF D!SetCreditVerifier, D!SetVerifier, D!nrVars, D!rvVars
    <2>6. CASE D!PublishIds
      BY <2>1, <2>6 DEF D!PublishIds, D!vars
    <2>7. CASE D!Use
      <3>1. ASSUME NEW enabled \in BOOLEAN, D!SetTestMode(enabled) PROVE UNCHANGED <<authorized, records>>
        BY <3>1 DEF D!SetTestMode, D!nrVars
      <3>2. ASSUME NEW to \in Account, D!IssueCredit(to, Deployer) PROVE UNCHANGED <<authorized, records>>
        BY <3>2 DEF D!IssueCredit, D!nrVars, D!rvVars
      <3>3. ASSUME NEW t, NEW from, NEW to, D!TransferCredit(t, to, from) PROVE UNCHANGED <<authorized, records>>
        BY <3>3 DEF D!TransferCredit, D!nrVars, D!rvVars
      <3>4. ASSUME NEW n \in Nullifier, NEW c \in Corridor, NEW t \in 1..MaxCredits, NEW owner \in Account,
                   D!VerifyRetirement(n, c, t, owner, owner)
            PROVE  FALSE
        BY <1>2, <3>4 DEF D!VerifyRetirement
      <3>5. ASSUME NEW n \in Nullifier, D!DirectRecord(n, Deployer) PROVE UNCHANGED <<authorized, records>>
        BY <3>5 DEF D!DirectRecord, D!NR!Record
      <3>6. QED
        BY <2>1, <2>7, <3>1, <3>2, <3>3, <3>4, <3>5 DEF D!Use
    <2>8. CASE UNCHANGED D!deployVars
      BY <2>1, <2>8 DEF D!deployVars, D!vars
    <2>9. QED
      BY <2>2, <2>3, <2>4, <2>5, <2>6, <2>7, <2>8 DEF D!DeployNext
  <1> HIDE DEF NoRecords
  <1>4. NoRecords => \A n \in Nullifier : ~Recorded(n)
    BY DEF NoRecords
  <1>5. QED
    BY <1>1, <1>2, <1>3, <1>4, PTL DEF D!DeploySpec
================================================================================
