-------------------------- MODULE AuditPortal_proofs --------------------------
(***************************************************************************)
(* What the audit page keeps for any certificates and any number of        *)
(* requests in flight, answered in any order.                              *)
(***************************************************************************)
EXTENDS AuditPortal, SequenceTheorems, TLAPS

(* What a request has found so far is still so: a row stays, and so does a  *)
(* retirement on the ledger, which was there before its row.               *)
RequestOK(r) ==
  /\ r.by = "feed" <=> r.for = "feed"
  /\ ByNullifier(r) => r.todo # <<"row">>
  /\ ~ByNullifier(r) => r.todo \in {<<"row">>, <<>>}
  /\ r.for # "feed" => r.certificate \in Stored \cup {None} /\ r.of \in Certificate
  /\ r.for = "feed" => r.todo = <<"row">> \/ r.certificate \in Seq(Stored)
  /\ ByNullifier(r) /\ r.certificate \in Retirement =>
       /\ r.of = r.certificate /\ r.todo # <<"row", "chain">>
       /\ r.todo = <<>> /\ r.onChain # "failed" => r.onChain = "yes"

RequestsOK == \A s \in Slot : requests[s] # None => RequestOK(requests[s])

(* The inductive invariant. *)
AuditInv ==
  /\ AuditTypeOK
  /\ RequestsOK
  /\ SpinnersAreHonest
  /\ \A s, t \in InFlight("feed") : s = t

--------------------------------------------------------------------------------
(* The slots. *)

(* Writing one slot leaves the others as they were. *)
LEMMA SlotWritten ==
  ASSUME NEW s \in Slot, NEW r \in Request \cup {None}, AuditInv,
         requests' = [requests EXCEPT ![s] = r], UNCHANGED backend,
         r # None => RequestOK(r)
  PROVE  /\ requests' \in [Slot -> Request \cup {None}]
         /\ RequestsOK'
         /\ \A for : InFlight(for)' =
              IF r # None /\ r.for = for THEN InFlight(for) \cup {s} ELSE InFlight(for) \ {s}
  <1>1. requests \in [Slot -> Request \cup {None}]
    BY DEF AuditInv, AuditTypeOK
  <1>2. requests' \in [Slot -> Request \cup {None}] /\ \A t \in Slot : requests'[t] = IF t = s THEN r ELSE requests[t]
    BY <1>1
  <1>3. RequestsOK'
    <2>1. SUFFICES ASSUME NEW t \in Slot, NEW q, q = requests'[t], q # None
                   PROVE  RequestOK(q)'
      BY DEF RequestsOK
    <2>2. RequestOK(q)
      BY <1>2, <2>1 DEF AuditInv, RequestsOK
    <2>3. QED
      BY <2>2 DEF RequestOK, ByNullifier, Stored, backend
  <1>4. ASSUME NEW for
        PROVE  InFlight(for)' = IF r # None /\ r.for = for THEN InFlight(for) \cup {s} ELSE InFlight(for) \ {s}
    BY <1>2 DEF InFlight
  <1>5. QED
    BY <1>2, <1>3, <1>4

(* A request as it is sent. *)
LEMMA SentTyped ==
  ASSUME NEW for \in {"search", "verify", "feed"}, NEW by \in {"id", "nullifier", "feed"},
         NEW of \in Certificate \cup {None}, by = "feed" <=> for = "feed", for # "feed" => of \in Certificate
  PROVE  Sent(for, by, of) \in Request /\ Sent(for, by, of) # None /\ RequestOK(Sent(for, by, of))
  <1> DEFINE r == Sent(for, by, of)
  <1>1. r.for = for /\ r.by = by /\ r.of = of /\ r.failed = FALSE /\ r.certificate = None /\ r.onChain = None
    BY DEF Sent
  <1>2. r.todo = IF ByNullifier(r) THEN <<"row", "chain">> ELSE <<"row">>
    BY DEF Sent, ByNullifier, verifyNullifier
  <1>3. r \in Request
    BY <1>2 DEF Sent, Request
  <1>4. None \notin Retirement
    BY NoneAssumption DEF Certificate
  <1>5. RequestOK(r)
    BY <1>1, <1>2, <1>4 DEF RequestOK, ByNullifier
  <1>6. QED
    BY <1>3, <1>5, NoneAssumption

(* A slot that is written with a request found for the same purpose.       *)
LEMMA SlotHandled ==
  ASSUME NEW s \in Slot, NEW r \in Request, AuditInv, requests[s] # None, r.for = requests[s].for,
         requests' = [requests EXCEPT ![s] = r], RequestOK(r),
         UNCHANGED <<backend, searchSignals, verifySignals, feedSignals>>
  PROVE  AuditInv'
  <1>1. r # None
    BY NoneAssumption
  <1>2. /\ requests' \in [Slot -> Request \cup {None}]
        /\ RequestsOK'
        /\ \A for : InFlight(for)' = IF r # None /\ r.for = for THEN InFlight(for) \cup {s} ELSE InFlight(for) \ {s}
    BY <1>1, SlotWritten
  <1>3. \A for : InFlight(for)' = InFlight(for)
    BY <1>1, <1>2 DEF InFlight
  <1>4. AuditTypeOK'
    BY <1>2 DEF AuditInv, AuditTypeOK, backend, searchSignals, verifySignals, feedSignals, Stored
  <1>5. SpinnersAreHonest' /\ (\A t, u \in InFlight("feed") : t = u)'
    BY <1>3 DEF AuditInv, SpinnersAreHonest, searchSignals, verifySignals, feedSignals
  <1>6. QED
    BY <1>2, <1>4, <1>5 DEF AuditInv

--------------------------------------------------------------------------------
(* The backend. *)

(* More rows and a longer ledger refute nothing that was found. *)
LEMMA BackendGrows ==
  ASSUME AuditInv, Stored \subseteq Stored', chain' \subseteq Retirement, Stored' \subseteq chain' \cup Claim,
         rows' \in Seq(Certificate), UNCHANGED <<requests, searchSignals, verifySignals, feedSignals>>
  PROVE  AuditInv'
  <1>1. RequestsOK'
    <2>1. SUFFICES ASSUME NEW s \in Slot, NEW r, r = requests[s], r # None
                   PROVE  RequestOK(r)'
      BY DEF RequestsOK
    <2>2. RequestOK(r)
      BY <2>1 DEF AuditInv, RequestsOK
    <2>3. r.certificate \in Seq(Stored) => r.certificate \in Seq(Stored')
      OBVIOUS
    <2>4. QED
      BY <2>2, <2>3 DEF RequestOK, ByNullifier
  <1>2. feed \in Seq(Stored')
    BY DEF AuditInv, AuditTypeOK
  <1>3. AuditTypeOK'
    BY <1>2 DEF AuditInv, AuditTypeOK, searchSignals, verifySignals, feedSignals
  <1>4. SpinnersAreHonest' /\ (\A s, t \in InFlight("feed") : s = t)'
    BY DEF AuditInv, SpinnersAreHonest, InFlight, searchSignals, verifySignals, feedSignals
  <1>5. QED
    BY <1>1, <1>3, <1>4 DEF AuditInv

(* A retirement on the ledger keeps the invariant. *)
LEMMA RetireKeeps ==
  ASSUME NEW n \in Certificate, AuditInv, Retire(n)
  PROVE  AuditInv'
  <1>1. Stored' = Stored /\ rows' = rows
    BY DEF Retire, Stored
  <1>2. chain' \subseteq Retirement /\ Stored' \subseteq chain' \cup Claim /\ rows' \in Seq(Certificate)
    BY <1>1 DEF Retire, AuditInv, AuditTypeOK
  <1>3. QED
    BY <1>1, <1>2, BackendGrows DEF Retire

(* A certificate's INSERT keeps the invariant. *)
LEMMA StoreKeeps ==
  ASSUME NEW n \in Certificate, AuditInv, Store(n)
  PROVE  AuditInv'
  <1>1. rows \in Seq(Certificate) /\ rows' = <<n>> \o rows
    BY DEF AuditInv, AuditTypeOK, Store
  <1>2. rows' \in Seq(Certificate)
    BY <1>1
  <1>3. Range(rows') = Range(rows) \cup {n}
    <2>1. <<n>> \in Seq(Certificate) /\ Len(<<n>>) = 1 /\ <<n>>[1] = n
      OBVIOUS
    <2>2. DOMAIN rows = 1 .. Len(rows) /\ DOMAIN rows' = 1 .. Len(rows) + 1 /\ Len(rows) \in Nat
      BY <1>1
    <2>3. rows'[1] = n
      BY <1>1, <2>1, ConcatProperties
    <2>4. \A i \in 1 .. Len(rows) : rows'[i + 1] = rows[i]
      BY <1>1, <2>1, <2>2, ConcatProperties
    <2>5. ASSUME NEW i \in DOMAIN rows' PROVE rows'[i] \in Range(rows) \cup {n}
      <3>1. CASE i = 1
        BY <2>3, <3>1
      <3>2. CASE i # 1
        <4>1. i - 1 \in 1 .. Len(rows) /\ (i - 1) + 1 = i
          BY <2>2, <3>2
        <4>2. QED
          BY <2>2, <2>4, <4>1 DEF Range
      <3>3. QED
        BY <3>1, <3>2
    <2>6. ASSUME NEW i \in DOMAIN rows PROVE \E j \in DOMAIN rows' : rows'[j] = rows[i]
      <3>1. i + 1 \in DOMAIN rows' /\ rows'[i + 1] = rows[i]
        BY <2>2, <2>4
      <3>2. QED
        BY <3>1
    <2>7. 1 \in DOMAIN rows'
      BY <2>2
    <2>8. QED
      BY <2>3, <2>5, <2>6, <2>7 DEF Range
  <1>4. Stored' = Stored \cup {n}
    BY <1>3 DEF Stored
  <1>5. chain' = chain /\ n \in chain \cup Claim
    BY DEF Store
  <1>6. QED
    BY <1>2, <1>4, <1>5, BackendGrows DEF Store, AuditInv, AuditTypeOK

(* A request that fails keeps the invariant. *)
LEMMA FailKeeps ==
  ASSUME NEW s \in Slot, AuditInv, Fail(s)
  PROVE  AuditInv'
  <1> DEFINE r == [requests[s] EXCEPT !.failed = TRUE]
  <1>1. requests[s] \in Request /\ requests[s] # None /\ RequestOK(requests[s])
    BY DEF Fail, Handles, AuditInv, AuditTypeOK, RequestsOK
  <1>2. r \in Request
    BY <1>1 DEF Request
  <1>3. RequestOK(r)
    BY <1>1 DEF RequestOK, ByNullifier, Request
  <1>4. r.for = requests[s].for /\ requests' = [requests EXCEPT ![s] = r]
    BY <1>1 DEF Fail, Request
  <1>5. QED
    BY <1>1, <1>2, <1>3, <1>4, SlotHandled DEF Fail

(* The ledger's answer to a verification keeps the invariant. *)
LEMMA ReadChainKeeps ==
  ASSUME NEW s \in Slot, AuditInv, ReadChain(s)
  PROVE  AuditInv'
  <1>1. requests[s] \in Request /\ requests[s] # None /\ RequestOK(requests[s])
    BY DEF ReadChain, Handles, AuditInv, AuditTypeOK, RequestsOK
  <1>2. PICK q : q = requests[s]
    OBVIOUS
  <1>3. PICK answer \in {"failed"} \cup (IF q.by = "id" THEN {} ELSE {Recorded(q.of)}) :
          requests' = [requests EXCEPT ![s].onChain = answer, ![s].todo = Tail(@)]
    BY <1>2 DEF ReadChain
  <1> DEFINE r == [q EXCEPT !.onChain = answer, !.todo = Tail(@)]
  <1>4. q.todo = <<"chain">>
    BY <1>1, <1>2 DEF ReadChain, Handles, Request
  <1>5. Tail(<<"chain">>) = <<>>
    OBVIOUS
  <1>6. answer \in {"failed", "yes", "no"}
    BY DEF Recorded
  <1>7. r \in Request /\ r.for = q.for /\ r.by = q.by /\ r.of = q.of /\ r.certificate = q.certificate
        /\ r.onChain = answer /\ r.todo = <<>>
    BY <1>1, <1>2, <1>4, <1>5, <1>6 DEF Request
  <1>8. q.certificate \in Retirement /\ q.for # "feed" => q.certificate \in chain
    BY <1>1, <1>2, NoneAssumption, AuditAssumption DEF RequestOK, AuditInv, AuditTypeOK, Certificate
  <1>9. RequestOK(r)
    <2>1. q.by # "feed" /\ ByNullifier(q) /\ q.for # "feed"
      BY <1>1, <1>2, <1>4 DEF RequestOK, ByNullifier
    <2>2. ByNullifier(r)
      BY <2>1, <1>7 DEF ByNullifier
    <2>3. q.certificate \in Retirement => q.of = q.certificate /\ q.of \in chain
      BY <1>1, <1>2, <2>1, <1>8 DEF RequestOK
    <2>4. q.certificate \in Retirement /\ answer # "failed" => answer = "yes"
      BY <2>3 DEF Recorded
    <2>5. QED
      BY <1>1, <1>2, <1>7, <2>1, <2>2, <2>3, <2>4 DEF RequestOK
  <1>10. requests' = [requests EXCEPT ![s] = r]
    BY <1>1, <1>2, <1>3
  <1>11. QED
    BY <1>1, <1>2, <1>7, <1>9, <1>10, SlotHandled DEF ReadChain

(* The rows a feed answers with are stored. *)
LEMMA FeedOfRows ==
  ASSUME AuditInv, NEW m \in Nat
  PROVE  SubSeq(rows, 1, IF Len(rows) < m THEN Len(rows) ELSE m) \in Seq(Stored)
  <1> DEFINE k == IF Len(rows) < m THEN Len(rows) ELSE m
  <1>1. rows \in Seq(Certificate)
    BY DEF AuditInv, AuditTypeOK
  <1>2. Len(rows) \in Nat /\ DOMAIN rows = 1 .. Len(rows) /\ k \in Nat /\ k =< Len(rows)
    BY <1>1
  <1>3. rows = [i \in 1 .. Len(rows) |-> rows[i]]
    BY <1>1
  <1>4. \A i \in 1 .. Len(rows) : rows[i] \in Stored
    BY <1>2 DEF Stored, Range
  <1>5. rows \in Seq(Stored)
    BY <1>2, <1>3, <1>4
  <1>6. QED
    BY <1>2, <1>5

(* The row's SELECT keeps the invariant. *)
LEMMA ReadRowKeeps ==
  ASSUME NEW s \in Slot, AuditInv, ReadRow(s)
  PROVE  AuditInv'
  <1>1. requests[s] \in Request /\ requests[s] # None /\ RequestOK(requests[s])
    BY DEF ReadRow, Handles, AuditInv, AuditTypeOK, RequestsOK
  <1>2. PICK q : q = requests[s]
    OBVIOUS
  <1>3. requests' = [requests EXCEPT ![s].certificate = RowOf(q), ![s].todo = Tail(@)]
    BY <1>2 DEF ReadRow
  <1> DEFINE r == [q EXCEPT !.certificate = RowOf(q), !.todo = Tail(@)]
  <1>4. q.todo \in {<<"row">>, <<"row", "chain">>}
    BY <1>1, <1>2 DEF ReadRow, Handles, Request
  <1>5. Tail(<<"row">>) = <<>> /\ Tail(<<"row", "chain">>) = <<"chain">>
    OBVIOUS
  <1>6. /\ q.by # "feed" => RowOf(q) \in (Stored \cap {q.of}) \cup {None}
        /\ q.by = "feed" => RowOf(q) \in Seq(Stored)
    BY FeedOfRows, AuditAssumption DEF RowOf, Found
  <1>7. Stored \subseteq Certificate
    BY DEF AuditInv, AuditTypeOK, Certificate
  <1>8. RowOf(q) \in Certificate \cup {None} \cup Seq(Certificate)
    <2>1. Seq(Stored) \subseteq Seq(Certificate)
      BY <1>7
    <2>2. QED
      BY <1>6, <1>7, <2>1
  <1>9. r \in Request /\ r.for = q.for /\ r.by = q.by /\ r.of = q.of /\ r.certificate = RowOf(q)
        /\ r.onChain = q.onChain /\ r.todo = Tail(q.todo)
    BY <1>1, <1>2, <1>4, <1>5, <1>8 DEF Request
  <1>10. RequestOK(r)
    <2>1. ByNullifier(r) <=> ByNullifier(q)
      BY <1>9 DEF ByNullifier
    <2>2. ByNullifier(q) => q.by # "feed" /\ q.todo = <<"row", "chain">> /\ r.todo = <<"chain">>
      BY <1>1, <1>2, <1>4, <1>5, <1>9 DEF ByNullifier, RequestOK
    <2>3. ~ByNullifier(q) => r.todo = <<>>
      <3>1. <<"row", "chain">> \notin {<<"row">>, <<>>}
        OBVIOUS
      <3>2. ~ByNullifier(q) => q.todo = <<"row">>
        BY <1>1, <1>2, <1>4, <3>1 DEF RequestOK
      <3>3. QED
        BY <1>5, <1>9, <3>2
    <2>4. None \notin Retirement
      BY NoneAssumption DEF Certificate
    <2>5. q.by = "feed" <=> q.for = "feed"
      BY <1>1, <1>2 DEF RequestOK
    <2>6. q.for # "feed" => q.of \in Certificate
      BY <1>1, <1>2 DEF RequestOK
    <2>7. QED
      BY <1>6, <1>9, <2>1, <2>2, <2>3, <2>4, <2>5, <2>6 DEF RequestOK
  <1>11. requests' = [requests EXCEPT ![s] = r]
    BY <1>1, <1>2, <1>3
  <1>12. QED
    BY <1>1, <1>2, <1>9, <1>10, <1>11, SlotHandled DEF ReadRow

--------------------------------------------------------------------------------
(* The page. *)

(* What Send does to the slots. *)
LEMMA SendWrites ==
  ASSUME AuditInv, NEW for \in {"search", "verify", "feed"}, NEW by \in {"id", "nullifier", "feed"},
         NEW of \in Certificate, for # "feed", by # "feed", Send(for, by, of), UNCHANGED backend
  PROVE  /\ requests' \in [Slot -> Request \cup {None}]
         /\ RequestsOK'
         /\ \E s \in Slot : /\ s \notin InFlight(for)
                           /\ InFlight(for)' = InFlight(for) \cup {s}
                           /\ \A other : other # for => InFlight(other)' = InFlight(other)
  <1>1. PICK s \in Slot : requests[s] = None /\ requests' = [requests EXCEPT ![s] = Sent(for, by, of)]
    BY DEF Send
  <1>2. PICK r : r = Sent(for, by, of)
    OBVIOUS
  <1>3. r \in Request /\ r # None /\ RequestOK(r) /\ r.for = for
    BY <1>2, SentTyped DEF Sent
  <1>4. /\ requests' \in [Slot -> Request \cup {None}]
        /\ RequestsOK'
        /\ \A f : InFlight(f)' = IF r # None /\ r.for = f THEN InFlight(f) \cup {s} ELSE InFlight(f) \ {s}
    <2>1. requests' = [requests EXCEPT ![s] = r]
      BY <1>1, <1>2
    <2>2. QED
      BY <1>3, <2>1, SlotWritten
  <1>5. \A f : s \notin InFlight(f)
    BY <1>1 DEF InFlight
  <1>6. QED
    BY <1>3, <1>4, <1>5

(* A click on Search keeps the invariant. *)
LEMMA SearchKeeps ==
  ASSUME NEW q \in Query, AuditInv, search(q)
  PROVE  AuditInv'
  <1>1. q.by \in {"id", "nullifier"} /\ q.of \in Certificate /\ Send("search", q.by, q.of) /\ UNCHANGED backend
    BY DEF search, Query
  <1>2. PICK by \in {"id", "nullifier"}, of \in Certificate : q.by = by /\ q.of = of
    BY <1>1
  <1>3. /\ requests' \in [Slot -> Request \cup {None}]
        /\ RequestsOK'
        /\ \E s \in Slot : /\ s \notin InFlight("search")
                          /\ InFlight("search")' = InFlight("search") \cup {s}
                          /\ \A other : other # "search" => InFlight(other)' = InFlight(other)
    BY <1>1, <1>2, SendWrites
  <1>4. AuditTypeOK'
    BY <1>3 DEF AuditInv, AuditTypeOK, search, backend, feedSignals, Stored
  <1>5. SpinnersAreHonest' /\ (\A s, t \in InFlight("feed") : s = t)'
    BY <1>3 DEF AuditInv, SpinnersAreHonest, search, feedSignals
  <1>6. QED
    BY <1>3, <1>4, <1>5 DEF AuditInv

(* A click on Verify keeps the invariant. *)
LEMMA VerifyKeeps ==
  ASSUME AuditInv, verifyOnChain
  PROVE  AuditInv'
  <1>1. certificate \in Certificate /\ Send("verify", "nullifier", certificate) /\ UNCHANGED backend
    BY DEF verifyOnChain, AuditInv, AuditTypeOK, Certificate
  <1>2. PICK of \in Certificate : of = certificate
    BY <1>1
  <1>3. /\ requests' \in [Slot -> Request \cup {None}]
        /\ RequestsOK'
        /\ \E s \in Slot : /\ s \notin InFlight("verify")
                          /\ InFlight("verify")' = InFlight("verify") \cup {s}
                          /\ \A other : other # "verify" => InFlight(other)' = InFlight(other)
    BY <1>1, <1>2, SendWrites
  <1>4. AuditTypeOK'
    BY <1>3 DEF AuditInv, AuditTypeOK, verifyOnChain, backend, searchSignals, feedSignals, Stored
  <1>5. InFlight("verify") = {}
    BY DEF verifyOnChain, AuditInv, SpinnersAreHonest
  <1>6. \E s \in Slot : InFlight("verify")' = {s}
    BY <1>3, <1>5
  <1>7. SpinnersAreHonest' /\ (\A s, t \in InFlight("feed") : s = t)'
    BY <1>3, <1>6 DEF AuditInv, SpinnersAreHonest, verifyOnChain, searchSignals, feedSignals
  <1>8. QED
    BY <1>3, <1>4, <1>7 DEF AuditInv

(* A choice from the feed keeps the invariant. *)
LEMMA SelectKeeps ==
  ASSUME NEW i \in DOMAIN feed, AuditInv, selectFromFeed(i)
  PROVE  AuditInv'
  <1>1. feed[i] \in Stored
    BY DEF AuditInv, AuditTypeOK
  <1>2. AuditTypeOK'
    BY <1>1 DEF AuditInv, AuditTypeOK, selectFromFeed, backend, feedSignals, Stored
  <1>3. RequestsOK'
    <2>1. SUFFICES ASSUME NEW s \in Slot, NEW r, r = requests[s], r # None
                   PROVE  RequestOK(r)'
      BY DEF RequestsOK, selectFromFeed
    <2>2. RequestOK(r)
      BY <2>1 DEF AuditInv, RequestsOK
    <2>3. QED
      BY <2>2 DEF RequestOK, ByNullifier, Stored, backend, selectFromFeed
  <1>4. SpinnersAreHonest' /\ (\A s, t \in InFlight("feed") : s = t)'
    BY DEF AuditInv, SpinnersAreHonest, InFlight, selectFromFeed, feedSignals
  <1>5. QED
    BY <1>2, <1>3, <1>4 DEF AuditInv

(* What an answer does to the slots. *)
LEMMA AnswerFrees ==
  ASSUME AuditInv, NEW s \in Slot, NEW for, Answers(s, for), requests' = [requests EXCEPT ![s] = None], UNCHANGED backend
  PROVE  /\ requests' \in [Slot -> Request \cup {None}]
         /\ RequestsOK'
         /\ s \in InFlight(for) /\ InFlight(for)' = InFlight(for) \ {s}
         /\ \A other : other # for => InFlight(other)' = InFlight(other)
         /\ requests[s] \in Request /\ RequestOK(requests[s]) /\ requests[s].for = for
  <1>1. /\ requests' \in [Slot -> Request \cup {None}]
        /\ RequestsOK'
        /\ \A f : InFlight(f)' = InFlight(f) \ {s}
    <2>1. PICK r : r = None
      OBVIOUS
    <2>2. /\ requests' \in [Slot -> Request \cup {None}]
          /\ RequestsOK'
          /\ \A f : InFlight(f)' = IF r # None /\ r.for = f THEN InFlight(f) \cup {s} ELSE InFlight(f) \ {s}
      BY <2>1, SlotWritten
    <2>3. QED
      BY <2>1, <2>2
  <1>2. requests[s] # None /\ requests[s].for = for
    BY DEF Answers, InFlight
  <1>3. s \in InFlight(for) /\ \A other : other # for => s \notin InFlight(other)
    BY <1>2 DEF InFlight
  <1>4. requests[s] \in Request /\ RequestOK(requests[s])
    BY <1>2 DEF AuditInv, AuditTypeOK, RequestsOK
  <1>5. InFlight(for)' = InFlight(for) \ {s} /\ \A other : other # for => InFlight(other)' = InFlight(other)
    BY <1>1, <1>3
  <1>6. QED
    BY <1>1, <1>2, <1>3, <1>4, <1>5

(* The answer to a search keeps the invariant. *)
LEMMA SearchAnsweredKeeps ==
  ASSUME NEW s \in Slot, AuditInv, SearchAnswered(s)
  PROVE  AuditInv'
  <1>1. Answers(s, "search") /\ requests' = [requests EXCEPT ![s] = None] /\ UNCHANGED backend
    BY DEF SearchAnswered
  <1>2. /\ requests' \in [Slot -> Request \cup {None}]
        /\ RequestsOK'
        /\ \A other : other # "search" => InFlight(other)' = InFlight(other)
        /\ requests[s] \in Request /\ RequestOK(requests[s]) /\ requests[s].for = "search"
    BY <1>1, AnswerFrees
  <1>3. certificate' \in Stored \cup {None}
    BY <1>2 DEF SearchAnswered, RequestOK
  <1>4. AuditTypeOK'
    BY <1>2, <1>3
       DEF AuditInv, AuditTypeOK, SearchAnswered, backend, verifySignals, feedSignals, Stored
  <1>5. SpinnersAreHonest' /\ (\A t, u \in InFlight("feed") : t = u)'
    BY <1>2 DEF AuditInv, SpinnersAreHonest, SearchAnswered, verifySignals, feedSignals
  <1>6. QED
    BY <1>2, <1>4, <1>5 DEF AuditInv

(* The answer to a verification keeps the invariant. *)
LEMMA VerifyAnsweredKeeps ==
  ASSUME NEW s \in Slot, AuditInv, VerifyAnswered(s)
  PROVE  AuditInv'
  <1>1. Answers(s, "verify") /\ requests' = [requests EXCEPT ![s] = None] /\ UNCHANGED backend
    BY DEF VerifyAnswered
  <1>2. /\ requests' \in [Slot -> Request \cup {None}]
        /\ RequestsOK'
        /\ s \in InFlight("verify") /\ InFlight("verify")' = InFlight("verify") \ {s}
        /\ \A other : other # "verify" => InFlight(other)' = InFlight(other)
    BY <1>1, AnswerFrees
  <1>3. onChainVerified' \in BOOLEAN
    BY DEF VerifyAnswered
  <1>4. AuditTypeOK'
    BY <1>2, <1>3
       DEF AuditInv, AuditTypeOK, VerifyAnswered, backend, searchSignals, feedSignals, Stored
  <1>5. verifying /\ \E t \in Slot : InFlight("verify") = {t}
    BY <1>2 DEF AuditInv, SpinnersAreHonest
  <1>6. InFlight("verify")' = {}
    BY <1>2, <1>5
  <1>7. SpinnersAreHonest' /\ (\A t, u \in InFlight("feed") : t = u)'
    BY <1>2, <1>6 DEF AuditInv, SpinnersAreHonest, VerifyAnswered, searchSignals, feedSignals
  <1>8. QED
    BY <1>2, <1>4, <1>7 DEF AuditInv

(* The feed's arrival keeps the invariant. *)
LEMMA FeedAnsweredKeeps ==
  ASSUME NEW s \in Slot, AuditInv, FeedAnswered(s)
  PROVE  AuditInv'
  <1>1. Answers(s, "feed") /\ requests' = [requests EXCEPT ![s] = None] /\ UNCHANGED backend
    BY DEF FeedAnswered
  <1>2. /\ requests' \in [Slot -> Request \cup {None}]
        /\ RequestsOK'
        /\ s \in InFlight("feed") /\ InFlight("feed")' = InFlight("feed") \ {s}
        /\ \A other : other # "feed" => InFlight(other)' = InFlight(other)
        /\ requests[s] \in Request /\ RequestOK(requests[s]) /\ requests[s].for = "feed"
    BY <1>1, AnswerFrees
  <1>3. feed' \in Seq(Stored)
    <2>1. CASE requests[s].failed
      <3>1. feed' = <<>>
        BY <2>1 DEF FeedAnswered
      <3>2. QED
        BY <3>1
    <2>2. CASE ~requests[s].failed
      <3>1. requests[s].todo = <<>> /\ feed' = requests[s].certificate
        BY <2>2 DEF FeedAnswered, Answers
      <3>2. QED
        BY <1>2, <3>1 DEF RequestOK
    <2>3. QED
      BY <2>1, <2>2
  <1>4. AuditTypeOK'
    BY <1>2, <1>3
       DEF AuditInv, AuditTypeOK, FeedAnswered, backend, searchSignals, verifySignals, Stored
  <1>5. InFlight("feed")' = {}
    BY <1>2 DEF AuditInv
  <1>6. SpinnersAreHonest' /\ (\A t, u \in InFlight("feed") : t = u)'
    BY <1>2, <1>5 DEF AuditInv, SpinnersAreHonest, FeedAnswered, searchSignals, verifySignals
  <1>7. QED
    BY <1>2, <1>4, <1>6 DEF AuditInv

--------------------------------------------------------------------------------
(* The invariant. *)

(* The page opens in the invariant. *)
LEMMA InitAudit == Init => AuditInv
  <1> SUFFICES ASSUME Init
               PROVE  AuditInv
    OBVIOUS
  <1>1. PICK s \in Slot : requests = [t \in Slot |-> IF t = s THEN Sent("feed", "feed", None) ELSE None]
    BY DEF Init
  <1>2. PICK r : r = Sent("feed", "feed", None)
    OBVIOUS
  <1>3. r \in Request /\ r # None /\ RequestOK(r) /\ r.for = "feed"
    BY <1>2, SentTyped DEF Sent
  <1>4. /\ requests \in [Slot -> Request \cup {None}]
        /\ RequestsOK
        /\ \A f : InFlight(f) = IF f = "feed" THEN {s} ELSE {}
    BY <1>1, <1>2, <1>3 DEF RequestsOK, InFlight
  <1>5. Stored = {} /\ rows \in Seq(Certificate) /\ feed \in Seq(Stored)
    BY DEF Init, Stored, Range
  <1>6. AuditTypeOK
    BY <1>4, <1>5 DEF AuditTypeOK, Init
  <1>7. SpinnersAreHonest /\ \A t, u \in InFlight("feed") : t = u
    BY <1>4 DEF SpinnersAreHonest, Init
  <1>8. QED
    BY <1>4, <1>6, <1>7 DEF AuditInv

(* Every step keeps the invariant. *)
LEMMA NextAudit == AuditInv /\ [Next]_vars => AuditInv'
  <1> SUFFICES ASSUME AuditInv, [Next]_vars
               PROVE  AuditInv'
    OBVIOUS
  <1>1. ASSUME NEW n \in Certificate, Retire(n) \/ Store(n) PROVE AuditInv'
    BY <1>1, RetireKeeps, StoreKeeps
  <1>2. ASSUME NEW q \in Query, search(q) PROVE AuditInv'
    BY <1>2, SearchKeeps
  <1>3. ASSUME verifyOnChain PROVE AuditInv'
    BY <1>3, VerifyKeeps
  <1>4. ASSUME NEW i \in DOMAIN feed, selectFromFeed(i) PROVE AuditInv'
    BY <1>4, SelectKeeps
  <1>5. ASSUME NEW s \in Slot, Handle(s) PROVE AuditInv'
    BY <1>5, ReadRowKeeps, ReadChainKeeps, FailKeeps DEF Handle
  <1>6. ASSUME NEW s \in Slot, Answer(s) PROVE AuditInv'
    BY <1>6, SearchAnsweredKeeps, VerifyAnsweredKeeps, FeedAnsweredKeeps DEF Answer
  <1>7. ASSUME UNCHANGED vars PROVE AuditInv'
    <2>1. Stored' = Stored
      BY <1>7 DEF vars, backend, Stored
    <2>2. QED
      BY <1>7, <2>1, BackendGrows DEF vars, backend, AuditInv, AuditTypeOK
  <1>8. QED
    BY <1>1, <1>2, <1>3, <1>4, <1>5, <1>6, <1>7 DEF Next

(* The invariant holds of the audit page at all times. *)
LEMMA AuditInvariant == Spec => []AuditInv
  BY InitAudit, NextAudit, PTL DEF Spec

(* What a request answers of a retirement was asked in the right order.    *)
LEMMA AnswersSeen == AuditInv => CertificateSeenOnChain
  BY DEF AuditInv, RequestsOK, RequestOK, CertificateSeenOnChain

--------------------------------------------------------------------------------
(* Why spinners stop.                                                      *)

(* The steps ahead of a request until it has been answered. *)
StepsLeft(s) ==
  IF requests[s] = None THEN 0
  ELSE IF requests[s].failed THEN 1 ELSE Len(requests[s].todo) + 1

(* A request is never stuck: its next query is to be made, or its answer   *)
(* is to be delivered to the callback that waits for it.                   *)
Ready(s) ==
  \/ Handles(s, "row") \/ Handles(s, "chain")
  \/ \E for \in {"search", "verify", "feed"} : Answers(s, for)

(* Until it is answered, a request stays as it is or has less ahead of it. *)
NoDetour(s) ==
  requests[s] # None => requests'[s] = requests[s] \/ StepsLeft(s)' < StepsLeft(s)

(* What a request has ahead of it. *)
LEMMA LeftCounts ==
  ASSUME AuditInv, NEW s \in Slot, requests[s] # None
  PROVE  StepsLeft(s) \in 1..3 /\ Ready(s)
  <1>1. PICK r \in Request : r = requests[s]
    BY DEF AuditInv, AuditTypeOK
  <1>2. r.todo \in {<<"row", "chain">>, <<"row">>, <<"chain">>, <<>>} /\ r.failed \in BOOLEAN
        /\ r.for \in {"search", "verify", "feed"}
    BY DEF Request
  <1>3. StepsLeft(s) = IF r.failed THEN 1 ELSE Len(r.todo) + 1
    BY <1>1 DEF StepsLeft
  <1>4. s \in InFlight(r.for)
    BY <1>1 DEF InFlight
  <1>5. CASE r.failed \/ r.todo = <<>>
    <2>1. Answers(s, r.for)
      BY <1>1, <1>4, <1>5 DEF Answers
    <2>2. QED
      BY <1>2, <1>3, <1>5, <2>1 DEF Ready
  <1>6. CASE ~r.failed /\ r.todo \in {<<"row", "chain">>, <<"row">>}
    <2>1. Handles(s, "row")
      BY <1>1, <1>6 DEF Handles
    <2>2. PICK n \in {1, 2} : Len(r.todo) = n
      BY <1>6
    <2>3. StepsLeft(s) = n + 1
      BY <1>3, <1>6, <2>2, Zenon
    <2>4. StepsLeft(s) \in 1..3
      BY <2>2, <2>3
    <2>5. QED
      BY <2>1, <2>4 DEF Ready
  <1>7. CASE ~r.failed /\ r.todo = <<"chain">>
    <2>1. Handles(s, "chain")
      BY <1>1, <1>7 DEF Handles
    <2>2. QED
      BY <1>3, <1>7, <2>1 DEF Ready
  <1>8. QED
    BY <1>2, <1>5, <1>6, <1>7

(* A query, made or failed, brings its own request nearer to its answer.   *)
LEMMA HandleShortens ==
  ASSUME AuditInv, NEW s \in Slot, Handle(s)
  PROVE  /\ StepsLeft(s)' < StepsLeft(s)
         /\ \A t \in Slot \ {s} : requests'[t] = requests[t]
  <1>1. requests[s] # None /\ ~requests[s].failed
    BY DEF Handle, ReadRow, ReadChain, Fail, Handles
  <1>2. PICK r \in Request : r = requests[s] /\ ~r.failed
    BY <1>1 DEF AuditInv, AuditTypeOK
  <1>3. StepsLeft(s) = Len(r.todo) + 1
    BY <1>1, <1>2 DEF StepsLeft
  <1>4. r.todo \in {<<"row", "chain">>, <<"row">>, <<"chain">>}
    <2>1. r.todo \in {<<"row", "chain">>, <<"row">>, <<"chain">>, <<>>}
      BY DEF Request
    <2>2. Head(r.todo \o <<"none">>) \in {"row", "chain"}
      BY <1>2 DEF Handle, ReadRow, ReadChain, Fail, Handles
    <2>3. r.todo # <<>>
      BY <2>2
    <2>4. QED
      BY <2>1, <2>3
  <1>5. requests \in [Slot -> Request \cup {None}]
    BY DEF AuditInv, AuditTypeOK
  <1>6. PICK q : /\ requests' = [requests EXCEPT ![s] = q]
                 /\ (q.todo = Tail(r.todo) /\ q.failed = r.failed) \/ q.failed = TRUE
    <2>1. CASE ReadRow(s)
      <3>1. requests' = [requests EXCEPT ![s] = [r EXCEPT !.certificate = RowOf(r), !.todo = Tail(@)]]
        BY <1>2, <1>5, <2>1 DEF ReadRow
      <3>2. PICK q : q = [r EXCEPT !.certificate = RowOf(r), !.todo = Tail(@)]
        OBVIOUS
      <3>3. q.todo = Tail(r.todo) /\ q.failed = r.failed
        BY <3>2 DEF Request
      <3>4. QED
        BY <3>1, <3>2, <3>3
    <2>2. CASE ReadChain(s)
      <3>1. PICK answer : requests' = [requests EXCEPT ![s] = [r EXCEPT !.onChain = answer, !.todo = Tail(@)]]
        BY <1>2, <1>5, <2>2 DEF ReadChain
      <3>2. PICK q : q = [r EXCEPT !.onChain = answer, !.todo = Tail(@)]
        OBVIOUS
      <3>3. q.todo = Tail(r.todo) /\ q.failed = r.failed
        BY <3>2 DEF Request
      <3>4. QED
        BY <3>1, <3>2, <3>3
    <2>3. CASE Fail(s)
      <3>1. requests' = [requests EXCEPT ![s] = [r EXCEPT !.failed = TRUE]]
        BY <1>2, <1>5, <2>3 DEF Fail
      <3>2. PICK q : q = [r EXCEPT !.failed = TRUE]
        OBVIOUS
      <3>3. q.failed = TRUE
        BY <3>2 DEF Request
      <3>4. QED
        BY <3>1, <3>2, <3>3
    <2>4. QED
      BY <2>1, <2>2, <2>3 DEF Handle
  <1>7. requests'[s] = q /\ \A t \in Slot \ {s} : requests'[t] = requests[t]
    BY <1>5, <1>6
  <1>8. StepsLeft(s)' = IF q = None THEN 0 ELSE IF q.failed THEN 1 ELSE Len(q.todo) + 1
    BY <1>7 DEF StepsLeft
  <1>9. Len(r.todo) \in 1..2 /\ Len(Tail(r.todo)) < Len(r.todo) /\ Len(Tail(r.todo)) \in 0..1
    BY <1>4
  <1>10. StepsLeft(s)' \in 0..Len(r.todo)
    <2>1. CASE q.failed = TRUE
      BY <1>8, <1>9, <2>1
    <2>2. CASE q.todo = Tail(r.todo) /\ q.failed = r.failed
      BY <1>2, <1>8, <1>9, <2>2
    <2>3. QED
      BY <1>6, <2>1, <2>2
  <1>11. QED
    BY <1>3, <1>7, <1>9, <1>10

(* An answer ends its request, and no other. *)
LEMMA AnswerEnds ==
  ASSUME AuditInv, NEW s \in Slot, Answer(s)
  PROVE  /\ StepsLeft(s)' < StepsLeft(s)
         /\ \A t \in Slot \ {s} : requests'[t] = requests[t]
  <1>1. requests[s] # None /\ requests' = [requests EXCEPT ![s] = None]
    BY DEF Answer, SearchAnswered, VerifyAnswered, FeedAnswered, Answers, InFlight
  <1>2. requests'[s] = None /\ \A t \in Slot \ {s} : requests'[t] = requests[t]
    BY <1>1 DEF AuditInv, AuditTypeOK
  <1>3. StepsLeft(s)' = 0
    BY <1>2 DEF StepsLeft
  <1>4. QED
    BY <1>1, <1>2, <1>3, LeftCounts

(* No step takes a request anywhere but nearer to its answer. *)
LEMMA StepShortens ==
  ASSUME AuditInv, [Next]_vars
  PROVE  \A s \in Slot : NoDetour(s)
  <1>1. ASSUME NEW for, NEW by, NEW of, Send(for, by, of)
        PROVE  \A s \in Slot : requests[s] # None => requests'[s] = requests[s]
    <2>1. PICK s \in Slot : requests[s] = None
                            /\ requests' = [requests EXCEPT ![s] = Sent(for, by, of)]
      BY <1>1 DEF Send
    <2>2. requests \in [Slot -> Request \cup {None}]
      BY DEF AuditInv, AuditTypeOK
    <2>3. QED
      BY <2>1, <2>2
  <1>2. ASSUME NEW q \in Query, search(q) PROVE \A s \in Slot : NoDetour(s)
    BY <1>1, <1>2 DEF search, NoDetour
  <1>3. CASE verifyOnChain
    BY <1>1, <1>3 DEF verifyOnChain, NoDetour
  <1>4. ASSUME NEW s \in Slot, Handle(s) \/ Answer(s) PROVE \A t \in Slot : NoDetour(t)
    <2>1. StepsLeft(s)' < StepsLeft(s) /\ \A t \in Slot \ {s} : requests'[t] = requests[t]
      BY <1>4, HandleShortens, AnswerEnds
    <2>2. QED
      BY <2>1 DEF NoDetour
  <1>5. ASSUME UNCHANGED requests PROVE \A s \in Slot : NoDetour(s)
    BY <1>5 DEF NoDetour
  <1>6. ASSUME NEW n \in Certificate, Retire(n) \/ Store(n) PROVE UNCHANGED requests
    BY <1>6 DEF Retire, Store
  <1>7. ASSUME NEW i \in DOMAIN feed, selectFromFeed(i) PROVE UNCHANGED requests
    BY <1>7 DEF selectFromFeed
  <1>8. UNCHANGED vars => UNCHANGED requests
    BY DEF vars
  <1>9. QED
    BY <1>2, <1>3, <1>4, <1>5, <1>6, <1>7, <1>8 DEF Next

--------------------------------------------------------------------------------
(* The theorems. *)

(* The page's state is typed, and it shows no certificate that is not      *)
(* stored, whatever overtakes what.                                        *)
THEOREM PageTyped == Spec => []AuditTypeOK
  <1>1. AuditInv => AuditTypeOK
    BY DEF AuditInv
  <1>2. QED
    BY <1>1, AuditInvariant, PTL

(* An answer with a retirement's certificate for which the ledger could be *)
(* asked says that it is on chain, however its two queries interleave with *)
(* the retirement.                                                         *)
THEOREM SeenOnChain == Spec => []CertificateSeenOnChain
  BY AuditInvariant, AnswersSeen, PTL

(* A spinner turns only for a request that is on its way, and only one     *)
(* verification is.                                                        *)
THEOREM HonestSpinners == Spec => []SpinnersAreHonest
  <1>1. AuditInv => SpinnersAreHonest
    BY DEF AuditInv
  <1>2. QED
    BY <1>1, AuditInvariant, PTL

(* Why spinners stop: a request in flight is never stuck, has at most      *)
(* three steps ahead of it, and no step of anyone - a later request, its   *)
(* answer, a failure - takes it anywhere but nearer to its answer; its own *)
(* steps always do.                                                        *)
THEOREM AnswersComeNearer ==
  Spec => /\ [](\A s \in Slot : requests[s] # None => StepsLeft(s) \in 1..3 /\ Ready(s))
          /\ [][/\ \A s \in Slot : NoDetour(s)
                /\ \A s \in Slot : Handle(s) \/ Answer(s) => StepsLeft(s)' < StepsLeft(s)]_vars
  <1>1. AuditInv => \A s \in Slot : requests[s] # None => StepsLeft(s) \in 1..3 /\ Ready(s)
    BY LeftCounts
  <1>2. AuditInv /\ [Next]_vars
          => [/\ \A s \in Slot : NoDetour(s)
              /\ \A s \in Slot : Handle(s) \/ Answer(s) => StepsLeft(s)' < StepsLeft(s)]_vars
    BY StepShortens, HandleShortens, AnswerEnds
  <1>3. QED
    BY <1>1, <1>2, AuditInvariant, PTL DEF Spec
================================================================================
