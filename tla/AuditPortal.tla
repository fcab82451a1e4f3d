----------------------------- MODULE AuditPortal -----------------------------
(***************************************************************************)
(* The public audit page (AuditPortalComponent) over CertificateController,*)
(* CertificateService's readers and StellarRpcService, while certificates  *)
(* appear.  Searches, verifications and the feed are requests in flight:   *)
(* each has a slot, is handled a query at a time, and may be answered      *)
(* after later ones.                                                       *)
(*                                                                         *)
(* A certificate is named by its nullifier: a retirement's has a CERT- id  *)
(* and is on the ledger before it is stored, a claim's has a COMP- id and  *)
(* never is on the ledger.                                                 *)
(***************************************************************************)
EXTENDS Naturals, Sequences, SequencesExt

CONSTANTS
  Retirement, Claim,   \* nullifiers of retirements and of compliance claims
  FeedSize,            \* rows of the feed, 20 in the code
  Slot,                \* bound: requests in flight
  None                 \* no certificate, no request, no answer

ASSUME AuditAssumption == Retirement \cap Claim = {} /\ FeedSize \in Nat \ {0}

Certificate == Retirement \cup Claim

(* What can be entered: an id, or a nullifier. *)
Query == [by : {"id", "nullifier"}, of : Certificate]

(* A request in flight: what it asks, what it found and the queries left. *)
Request ==
  [for : {"search", "verify", "feed"}, by : {"id", "nullifier", "feed"}, of : Certificate \cup {None},
   failed : BOOLEAN, certificate : Certificate \cup {None} \cup Seq(Certificate),
   onChain : {None, "failed", "yes", "no"}, todo : {<<"row", "chain">>, <<"row">>, <<"chain">>, <<>>}]

ASSUME NoneAssumption == None \notin Certificate \cup Query \cup Request

VARIABLES
  chain,            \* retirements on the ledger
  rows,             \* retirement_certificates, newest first
  requests,         \* slot -> request in flight
  certificate, searching, searched, lastQuery,   \* the page's signals
  verifying, onChainVerified, feed, feedLoading

backend == <<chain, rows>>
searchSignals == <<certificate, searching, searched, lastQuery>>
verifySignals == <<verifying, onChainVerified>>
feedSignals == <<feed, feedLoading>>
vars == <<backend, requests, searchSignals, verifySignals, feedSignals>>

Stored == Range(rows)

(* Mutant: the ledger is asked first. *)
LedgerFirst == <<"chain", "row">>

(* CertificateController.verifyNullifier's queries, in their order. *)
verifyNullifier == <<"row", "chain">>

(* A COMP- id does not start with CERT- and is looked up as a nullifier. *)
ByNullifier(r) == r.by = "nullifier" \/ (r.by = "id" /\ r.of \in Claim)

(* A request as it is sent, with the queries its handler has still to do. *)
Sent(for, by, of) ==
  [for |-> for, by |-> by, of |-> of, failed |-> FALSE, certificate |-> None, onChain |-> None,
   todo |-> IF ByNullifier([by |-> by, of |-> of]) THEN verifyNullifier ELSE <<"row">>]

InFlight(for) == {s \in Slot : requests[s] # None /\ requests[s].for = for}

Send(for, by, of) ==
  \E s \in Slot : requests[s] = None /\ requests' = [requests EXCEPT ![s] = Sent(for, by, of)]

(* loadFeed, from ngOnInit; the route's id, if there is one, is a search. *)
Init ==
  /\ chain = {} /\ rows = <<>>
  /\ \E s \in Slot :
       requests = [t \in Slot |-> IF t = s THEN Sent("feed", "feed", None) ELSE None]
  /\ certificate = None /\ searching = FALSE /\ searched = FALSE /\ lastQuery = None
  /\ verifying = FALSE /\ onChainVerified = None
  /\ feed = <<>> /\ feedLoading = TRUE

Retire(n) ==
  /\ n \in Retirement \ chain /\ chain' = chain \cup {n}
  /\ UNCHANGED <<rows, requests, searchSignals, verifySignals, feedSignals>>

(* Stored by the relay or the indexer, both after the ledger has it. *)
Store(n) ==
  /\ n \in (chain \cup Claim) \ Stored /\ rows' = <<n>> \o rows
  /\ UNCHANGED <<chain, requests, searchSignals, verifySignals, feedSignals>>

--------------------------------------------------------------------------------
(* CertificateController and CertificateService. *)

(* Mutant: what the ledger knows needs no row. *)
FoundAnywhere(n) == IF n \in Stored \cup chain THEN n ELSE None

Found(n) == IF n \in Stored THEN n ELSE None

(* getCertificate by its id, the newest row of a nullifier, or the feed. *)
RowOf(r) ==
  IF r.by = "feed" THEN SubSeq(rows, 1, IF Len(rows) < FeedSize THEN Len(rows) ELSE FeedSize)
  ELSE IF r.by = "id" /\ r.of \in Claim THEN None
  ELSE Found(r.of)

Handles(s, query) == requests[s] # None /\ ~requests[s].failed /\ Head(requests[s].todo \o <<"none">>) = query

ReadRow(s) ==
  /\ Handles(s, "row")
  /\ requests' = [requests EXCEPT ![s].certificate = RowOf(requests[s]), ![s].todo = Tail(@)]
  /\ UNCHANGED <<backend, searchSignals, verifySignals, feedSignals>>

Recorded(n) == IF n \in chain THEN "yes" ELSE "no"

(* readContract answers, fails or times out: verifyOnChain catches that.   *)
(* An id is no 32 bytes, and fails too; a contract id that is not set is   *)
(* answered with false at once, as a failure is.                           *)
ReadChain(s) ==
  /\ Handles(s, "chain")
  /\ \E answer \in {"failed"} \cup (IF requests[s].by = "id" THEN {} ELSE {Recorded(requests[s].of)}) :
       requests' = [requests EXCEPT ![s].onChain = answer, ![s].todo = Tail(@)]
  /\ UNCHANGED <<backend, searchSignals, verifySignals, feedSignals>>

(* The row's query or the connection fails: 500, or no answer. *)
Fail(s) ==
  /\ Handles(s, "row") \/ Handles(s, "chain")
  /\ requests' = [requests EXCEPT ![s].failed = TRUE]
  /\ UNCHANGED <<backend, searchSignals, verifySignals, feedSignals>>

Answers(s, for) == s \in InFlight(for) /\ (requests[s].failed \/ requests[s].todo = <<>>)

--------------------------------------------------------------------------------
(* AuditPortalComponent. *)

(* search; the button waits for an answer, the Enter key does not. *)
search(q) ==
  /\ Send("search", q.by, q.of)
  /\ searching' = TRUE /\ searched' = FALSE /\ certificate' = None
  /\ onChainVerified' = None /\ lastQuery' = q
  /\ UNCHANGED <<backend, verifying, feedSignals>>

(* Mutant: while a verification runs, too. *)
verifyOnChainAgain ==
  /\ certificate # None
  /\ Send("verify", "nullifier", certificate)
  /\ verifying' = TRUE
  /\ UNCHANGED <<backend, searchSignals, onChainVerified, feedSignals>>

(* The button of the certificate shown, unless one is being verified. *)
verifyOnChain ==
  /\ certificate # None /\ ~verifying
  /\ Send("verify", "nullifier", certificate)
  /\ verifying' = TRUE
  /\ UNCHANGED <<backend, searchSignals, onChainVerified, feedSignals>>

selectFromFeed(i) ==
  /\ ~feedLoading
  /\ certificate' = feed[i] /\ searched' = TRUE /\ onChainVerified' = None
  /\ UNCHANGED <<backend, requests, searching, lastQuery, verifying, feedSignals>>

(* Mutant: the error callback forgets the spinner. *)
SearchAnsweredOk(s) ==
  /\ Answers(s, "search")
  /\ certificate' = requests[s].certificate /\ searched' = TRUE
  /\ searching' = (searching /\ requests[s].failed)
  /\ requests' = [requests EXCEPT ![s] = None]
  /\ UNCHANGED <<backend, lastQuery, verifySignals, feedSignals>>

(* Both callbacks, whichever search it was that ends. *)
SearchAnswered(s) ==
  /\ Answers(s, "search")
  /\ certificate' = IF requests[s].failed THEN None ELSE requests[s].certificate
  /\ searched' = TRUE /\ searching' = FALSE
  /\ requests' = [requests EXCEPT ![s] = None]
  /\ UNCHANGED <<backend, lastQuery, verifySignals, feedSignals>>

(* The answer is the page's, whatever certificate it shows by now. *)
VerifyAnswered(s) ==
  /\ Answers(s, "verify")
  /\ onChainVerified' = (~requests[s].failed /\ requests[s].onChain = "yes")
  /\ verifying' = FALSE
  /\ requests' = [requests EXCEPT ![s] = None]
  /\ UNCHANGED <<backend, searchSignals, feedSignals>>

FeedAnswered(s) ==
  /\ Answers(s, "feed")
  /\ feed' = IF requests[s].failed THEN <<>> ELSE requests[s].certificate
  /\ feedLoading' = FALSE
  /\ requests' = [requests EXCEPT ![s] = None]
  /\ UNCHANGED <<backend, searchSignals, verifySignals>>

Handle(s) == ReadRow(s) \/ ReadChain(s) \/ Fail(s)
Answer(s) == SearchAnswered(s) \/ VerifyAnswered(s) \/ FeedAnswered(s)

Next ==
  \/ \E n \in Certificate : Retire(n) \/ Store(n)
  \/ \E q \in Query : search(q)
  \/ verifyOnChain
  \/ \E i \in DOMAIN feed : selectFromFeed(i)
  \/ \E s \in Slot : Handle(s) \/ Answer(s)

Spec == Init /\ [][Next]_vars

(* Every query and every request ends. *)
FairSpec == Spec /\ \A s \in Slot : WF_vars(Handle(s)) /\ WF_vars(Answer(s))

--------------------------------------------------------------------------------
(* Properties. *)

(* The type invariant of the page; a certificate it shows is stored. *)
AuditTypeOK ==
  /\ rows \in Seq(Certificate) /\ requests \in [Slot -> Request \cup {None}]
  /\ chain \subseteq Retirement /\ Stored \subseteq chain \cup Claim
  /\ certificate \in Stored \cup {None} /\ feed \in Seq(Stored)
  /\ lastQuery \in Query \cup {None}
  /\ {searching, searched, verifying, feedLoading} \subseteq BOOLEAN
  /\ onChainVerified \in BOOLEAN \cup {None}

(* An answer that carries a retirement's certificate and for which the     *)
(* ledger could be asked says that it is on chain: the row is read before  *)
(* the ledger, so a certificate that appears between the two queries is    *)
(* never answered as a forgery.                                            *)
CertificateSeenOnChain ==
  \A s \in Slot :
    LET r == requests[s]
    IN  r # None => (r.todo = <<>> /\ ~r.failed /\ ByNullifier(r) /\ r.certificate \in Retirement
          /\ r.onChain # "failed"
        => r.onChain = "yes")

(* The page spins only while something is on its way: searching for some   *)
(* search, though answers overtake each other, and verifying for exactly   *)
(* one verification, though the certificate it was for may be gone.        *)
SpinnersAreHonest ==
  /\ searching => InFlight("search") # {}
  /\ IF verifying THEN \E s \in Slot : InFlight("verify") = {s} ELSE InFlight("verify") = {}
  /\ feedLoading <=> InFlight("feed") # {}

(* Each spinner stops, whatever the user goes on to do. *)
SpinnersStop ==
  /\ searching ~> ~searching
  /\ verifying ~> ~verifying
  /\ feedLoading ~> ~feedLoading

--------------------------------------------------------------------------------
(* What the code does not keep. *)

(* "Independently Verified" is said of a certificate that is on chain: the *)
(* answer for an earlier certificate is shown beside a later one.          *)
VerifiedIsOfShown == onChainVerified = TRUE /\ certificate # None => certificate \in chain

(* "Verified On-Chain" is written on every certificate, a claim's too. *)
BadgeIsTrue == certificate # None => certificate \in chain

(* "No certificate found" quotes a query that has been answered. *)
NotFoundIsAnswered ==
  searched /\ ~searching /\ certificate = None => InFlight("search") = {}
================================================================================
