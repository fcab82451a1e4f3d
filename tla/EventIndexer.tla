----------------------------- MODULE EventIndexer -----------------------------
(***************************************************************************)
(* indexer/: polls the contracts' events and writes them to the database   *)
(* the backend reads.  Two pipelines, retirement then nullifier, run one   *)
(* after the other in pollAll; a timer starts pollAll again even while an  *)
(* earlier run is still waiting, so runs overlap.                          *)
(*                                                                         *)
(* A step runs from one await to the next and includes the query it sends: *)
(* all queries go through one pg client, which executes and answers them   *)
(* in the order in which they are sent.                                    *)
(***************************************************************************)
EXTENDS Naturals, Sequences, FiniteSets

CONSTANTS
  Runner,          \* runs of pollAll that may overlap
  Nullifier,       \* nullifiers the contracts publish, each once
  TopicNullifier,  \* TRUE: topics[1] is the nullifier, as the handlers expect;
                   \* FALSE: it is in the event's data, as the contracts publish it
  Faults,          \* what may go wrong: "db", "rpc"
  BatchSize,       \* events per getEvents response (100 in the code)
  MaxLedger,       \* bound: ledgers
  MaxRestarts      \* bound: restarts of the indexer

ASSUME IndexerAssumption ==
  /\ TopicNullifier \in BOOLEAN
  /\ BatchSize \in Nat \ {0} /\ MaxLedger \in Nat \ {0} /\ MaxRestarts \in Nat

Namespace == {"retirement", "nullifier"}

VARIABLES
  now,         \* the ledger being built; those before it are closed
  events,      \* each contract's events: their ledger and nullifier, in order
  connected,   \* the indexer has its database; otherwise memory-only mode
  cursor,      \* each event source's cursor
  loaded,      \* ... and whether it was read from the database yet
  armed,       \* the poll timer runs (after the first pollAll)
  pc, at,      \* each run of pollAll: what it waits for, in which pipeline
  start,       \* the startLedger of its getEvents request
  batch,       \* the page on its way, then its events still to handle, as
               \* indexes in events[at]
  lastLedger,  \* rows of indexer_state
  processed,   \* rows of indexer_events: <<namespace, index>>
  nullifiers,  \* rows of nullifiers: [nullifier, corridor]
  certificates,  \* nullifiers of the retirement_certificates rows it wrote
  restarts

ledgerVars == <<now, events>>
memoryVars == <<connected, cursor, loaded, armed>>
runVars == <<pc, at, start, batch>>
dbVars == <<lastLedger, processed, nullifiers, certificates>>
vars == <<ledgerVars, memoryVars, runVars, dbVars, restarts>>

EventIndex == Nat \ {0}
EventId == Namespace \X EventIndex
Corridor == {"corridor", "compliance"}

TypeOK ==
  /\ now \in 1..MaxLedger
  /\ events \in [Namespace -> Seq([ledger : 1..MaxLedger, nullifier : Nullifier])]
  /\ connected \in BOOLEAN /\ armed \in BOOLEAN
  /\ cursor \in [Namespace -> 0..MaxLedger]
  /\ loaded \in [Namespace -> BOOLEAN]
  /\ pc \in [Runner -> {"idle", "load", "request", "response", "handle",
                        "insert_nullifier", "insert_certificate"}]
  /\ at \in [Runner -> Namespace]
  /\ start \in [Runner -> 0..MaxLedger]
  /\ batch \in [Runner -> Seq(EventIndex)]
  /\ lastLedger \in [Namespace -> 0..MaxLedger]
  /\ processed \subseteq EventId
  /\ nullifiers \subseteq [nullifier : Nullifier, corridor : Corridor]
  /\ certificates \subseteq Nullifier
  /\ restarts \in 0..MaxRestarts

FreshMemory(up) ==
  /\ connected' = up
  /\ cursor' = [ns \in Namespace |-> 0]
  /\ loaded' = [ns \in Namespace |-> FALSE]
  /\ armed' = FALSE
  /\ pc' = [w \in Runner |-> "idle"]
  /\ at' = [w \in Runner |-> "retirement"]
  /\ start' = [w \in Runner |-> 0]
  /\ batch' = [w \in Runner |-> <<>>]

Init ==
  /\ now = 1 /\ events = [ns \in Namespace |-> <<>>]
  /\ connected = TRUE /\ armed = FALSE
  /\ cursor = [ns \in Namespace |-> 0] /\ loaded = [ns \in Namespace |-> FALSE]
  /\ pc = [w \in Runner |-> "idle"] /\ at = [w \in Runner |-> "retirement"]
  /\ start = [w \in Runner |-> 0] /\ batch = [w \in Runner |-> <<>>]
  /\ lastLedger = [ns \in Namespace |-> 0]
  /\ processed = {} /\ nullifiers = {} /\ certificates = {}
  /\ restarts = 0

--------------------------------------------------------------------------------
(* The contracts: a retirement publishes on both, a nullifier recorded     *)
(* alone on the registry only.  A nullifier is recorded once.              *)

Published(n) == \E i \in DOMAIN events["nullifier"] : events["nullifier"][i].nullifier = n
Append1(ns, n) == Append(events[ns], [ledger |-> now, nullifier |-> n])

PublishRetirement(n) ==
  /\ now < MaxLedger /\ ~Published(n)
  /\ events' = [ns \in Namespace |-> Append1(ns, n)]
  /\ UNCHANGED <<now, memoryVars, runVars, dbVars, restarts>>

PublishNullifier(n) ==
  /\ now < MaxLedger /\ ~Published(n)
  /\ events' = [events EXCEPT !["nullifier"] = Append1("nullifier", n)]
  /\ UNCHANGED <<now, memoryVars, runVars, dbVars, restarts>>

CloseLedger ==
  /\ now < MaxLedger
  /\ now' = now + 1
  /\ UNCHANGED <<events, memoryVars, runVars, dbVars, restarts>>

--------------------------------------------------------------------------------
(* pollAll *)

StartLedger(c) == IF c = 0 THEN 1 ELSE c

Goto(w, p) == pc' = [pc EXCEPT ![w] = p]

(* StellarEventSource.poll begins: the saved cursor is read once per       *)
(* process, otherwise the request goes out at once.                        *)
BeginPoll(w, ns) ==
  /\ at' = [at EXCEPT ![w] = ns]
  /\ IF loaded[ns]
       THEN Goto(w, "request") /\ start' = [start EXCEPT ![w] = StartLedger(cursor[ns])]
       ELSE Goto(w, "load") /\ UNCHANGED start

(* The first pollAll runs alone; the timer starts the others. *)
PollAll(w) ==
  /\ pc[w] = "idle"
  /\ armed \/ \A v \in Runner : pc[v] = "idle"
  /\ BeginPoll(w, "retirement")
  /\ UNCHANGED <<ledgerVars, memoryVars, batch, dbVars, restarts>>

(* The pipeline is done, or threw; retries are counted and nothing else.   *)
EndPipeline(w) ==
  /\ batch' = [batch EXCEPT ![w] = <<>>]
  /\ IF at[w] = "retirement"
       THEN BeginPoll(w, "nullifier") /\ UNCHANGED armed
       ELSE /\ Goto(w, "idle") /\ armed' = TRUE
            /\ at' = [at EXCEPT ![w] = "retirement"] /\ UNCHANGED start

(* The cursor is read, then the request goes out. *)
LoadCursor(w) ==
  LET ns == at[w]
      saved == IF connected THEN lastLedger[ns] ELSE 0
  IN
  /\ pc[w] = "load"
  /\ cursor' = [cursor EXCEPT ![ns] = saved]
  /\ loaded' = [loaded EXCEPT ![ns] = TRUE]
  /\ start' = [start EXCEPT ![w] = StartLedger(saved)]
  /\ Goto(w, "request")
  /\ UNCHANGED <<ledgerVars, connected, armed, at, batch, dbVars, restarts>>

(* getEvents (external): the closed ledgers' events from startLedger on, a *)
(* page of them, as they are when the node answers; the answer may take    *)
(* long to arrive.                                                         *)
Page(ns, from) ==
  LET visible == {i \in DOMAIN events[ns] :
                    events[ns][i].ledger >= from /\ events[ns][i].ledger < now}
      first == IF visible = {} THEN 1 ELSE CHOOSE i \in visible : \A j \in visible : i <= j
      length == IF Cardinality(visible) < BatchSize THEN Cardinality(visible) ELSE BatchSize
  IN  [k \in 1..length |-> first + k - 1]

GetEvents(w) ==
  /\ pc[w] = "request"
  /\ batch' = [batch EXCEPT ![w] = Page(at[w], start[w])]
  /\ start' = [start EXCEPT ![w] = 0]
  /\ Goto(w, "response")
  /\ UNCHANGED <<ledgerVars, memoryVars, at, dbVars, restarts>>

LastOfPage(w) ==
  IF batch[w] = <<>> THEN 0 ELSE events[at[w]][batch[w][Len(batch[w])]].ledger

(* Mutants: the cursor follows latestLedger, or the page alone. *)
MovedToLatest(w) == now
MovedToPage(w) == IF batch[w] = <<>> THEN cursor[at[w]] ELSE LastOfPage(w)

(* Where the cursor goes on a page: never back. *)
Moved(w) == IF LastOfPage(w) > cursor[at[w]] THEN LastOfPage(w) ELSE cursor[at[w]]

(* The cursor moves and is saved, and only then are the page's events      *)
(* handed to the handler.                                                  *)
Response(w) ==
  LET ns == at[w]
      saves == Moved(w) > 0 /\ connected
  IN
  /\ pc[w] = "response"
  /\ cursor' = [cursor EXCEPT ![ns] = Moved(w)]
  /\ \/ /\ lastLedger' = IF saves THEN [lastLedger EXCEPT ![ns] = Moved(w)] ELSE lastLedger
        /\ Goto(w, "handle")
        /\ UNCHANGED <<at, start, batch, armed>>
     \/ \* setLastLedger throws: the page is dropped, the cursor stays moved
        /\ "db" \in Faults /\ saves
        /\ EndPipeline(w)
        /\ UNCHANGED lastLedger
  /\ UNCHANGED <<ledgerVars, connected, loaded, processed, nullifiers, certificates, restarts>>

(* getEvents answers with an error status, or not at all. *)
RpcError(w) ==
  /\ "rpc" \in Faults
  /\ pc[w] \in {"request", "response"}
  /\ EndPipeline(w)
  /\ UNCHANGED <<ledgerVars, connected, cursor, loaded, dbVars, restarts>>

--------------------------------------------------------------------------------
(* The handlers. *)

Id(w) == <<at[w], Head(batch[w])>>
Inserting(w) == pc[w] \in {"insert_nullifier", "insert_certificate"}
EventOf(w) == events[at[w]][Head(batch[w])]
(* The rest of the page: handle() returned for its first event. *)
Handled(w) ==
  /\ batch' = [batch EXCEPT ![w] = Tail(@)]
  /\ Goto(w, "handle")

(* Mutant: the event is marked without asking whether it was before. *)
MarkAgain(w) ==
  /\ pc[w] = "handle" /\ batch[w] # <<>>
  /\ IF ~TopicNullifier
       THEN Handled(w) /\ UNCHANGED processed
       ELSE /\ processed' = IF connected THEN processed \cup {Id(w)} ELSE processed
            /\ Goto(w, "insert_nullifier")
            /\ UNCHANGED batch
  /\ UNCHANGED <<ledgerVars, memoryVars, at, start,
                 lastLedger, nullifiers, certificates, restarts>>

(* The head of handle: an event without topics[1] is skipped, one that was *)
(* processed before too; markProcessed is one INSERT.                      *)
Mark(w) ==
  /\ pc[w] = "handle" /\ batch[w] # <<>>
  /\ IF ~TopicNullifier \/ (connected /\ Id(w) \in processed)
       THEN Handled(w) /\ UNCHANGED processed
       ELSE /\ processed' = IF connected THEN processed \cup {Id(w)} ELSE processed
            /\ Goto(w, "insert_nullifier")
            /\ UNCHANGED batch
  /\ UNCHANGED <<ledgerVars, memoryVars, at, start,
                 lastLedger, nullifiers, certificates, restarts>>

(* The nullifier handler does not know the corridor: it writes 'compliance'. *)
CorridorOf(w) == IF at[w] = "retirement" THEN "corridor" ELSE "compliance"

Indexed(n) == \E x \in nullifiers : x.nullifier = n

(* Mutant: one database transaction around the retirement handler's two    *)
(* INSERTs, of which the second is rejected.                               *)
StoredWithCertificate(w) == connected /\ at[w] = "nullifier"

(* memory-only mode answers every query without rows. *)
Stored(w) == connected

(* ON CONFLICT (nullifier) DO NOTHING. *)
InsertNullifier(w) ==
  LET n == EventOf(w).nullifier IN
  /\ pc[w] = "insert_nullifier"
  /\ nullifiers' = IF ~Stored(w) \/ Indexed(n) THEN nullifiers
                   ELSE nullifiers \cup {[nullifier |-> n, corridor |-> CorridorOf(w)]}
  /\ IF at[w] = "retirement"
       THEN Goto(w, "insert_certificate") /\ UNCHANGED batch
       ELSE Handled(w)
  /\ UNCHANGED <<ledgerVars, memoryVars, at, start,
                 lastLedger, processed, certificates, restarts>>

(* PostgreSQL takes one ON CONFLICT clause per INSERT; the INSERT into     *)
(* retirement_certificates has two.                                        *)
ConflictClauses == 2
Accepted == ConflictClauses <= 1

(* A rejected INSERT is an error, which is logged and swallowed.           *)
InsertCertificate(w) ==
  /\ pc[w] = "insert_certificate"
  /\ certificates' = IF connected /\ Accepted
                       THEN certificates \cup {EventOf(w).nullifier} ELSE certificates
  /\ Handled(w)
  /\ UNCHANGED <<ledgerVars, memoryVars, at, start,
                 lastLedger, processed, nullifiers, restarts>>

EndOfPage(w) ==
  /\ pc[w] = "handle" /\ batch[w] = <<>>
  /\ EndPipeline(w)
  /\ UNCHANGED <<ledgerVars, connected, cursor, loaded, dbVars, restarts>>

(* A query of the handler fails.  An INSERT's error is caught in handle;   *)
(* the cursor's or markProcessed's ends the pipeline.                      *)
DbError(w) ==
  /\ "db" \in Faults /\ connected
  /\ \/ /\ \/ pc[w] = "load"
           \/ pc[w] = "handle" /\ batch[w] # <<>> /\ TopicNullifier
        /\ EndPipeline(w)
     \/ /\ Inserting(w)
        /\ Handled(w) /\ UNCHANGED <<at, start, armed>>
  /\ UNCHANGED <<ledgerVars, connected, cursor, loaded, dbVars, restarts>>

(* The process stops, in the middle of anything, and starts again.         *)
Restart ==
  /\ restarts < MaxRestarts
  /\ restarts' = restarts + 1
  /\ \E up \in BOOLEAN : (up \/ "db" \in Faults) /\ FreshMemory(up)
  /\ UNCHANGED <<ledgerVars, dbVars>>

Work(w) ==
  \/ PollAll(w) \/ LoadCursor(w) \/ GetEvents(w) \/ Response(w)
  \/ Mark(w) \/ InsertNullifier(w) \/ InsertCertificate(w) \/ EndOfPage(w)

Next ==
  \/ \E n \in Nullifier : PublishRetirement(n) \/ PublishNullifier(n)
  \/ CloseLedger
  \/ \E w \in Runner : Work(w) \/ RpcError(w) \/ DbError(w)
  \/ Restart

Spec == Init /\ [][Next]_vars

(* The timer keeps firing and every query and request returns; the network *)
(* keeps closing ledgers.                                                  *)
FairSpec == Spec /\ WF_vars(CloseLedger) /\ \A w \in Runner : WF_vars(Work(w))

--------------------------------------------------------------------------------
(* Properties. *)

InBatch(ns, i) ==
  \E w \in Runner : at[w] = ns /\ pc[w] # "response" /\ \E k \in DOMAIN batch[w] : batch[w][k] = i

(* Two overlapping runs never work on the same event: markProcessed lets   *)
(* one of them through, though both fetched the page that holds it.        *)
NoDoubleProcessing ==
  connected => \A v, w \in Runner :
    Inserting(v) /\ Inserting(w) /\ Id(v) = Id(w) => v = w

(* The saved cursor never goes back, whatever runs overlap, fail or        *)
(* restart: a slower run's older page does not undo a newer one.           *)
CursorNeverGoesBack ==
  [][\A ns \in Namespace : lastLedger'[ns] >= lastLedger[ns]]_vars

(* "Last fully-processed ledger" (database.ts:58): every event of a ledger *)
(* before the saved cursor has been processed or waits in a run's page.    *)
NothingBehindCursor ==
  \A ns \in Namespace : \A i \in DOMAIN events[ns] :
    events[ns][i].ledger < lastLedger[ns] => <<ns, i>> \in processed \/ InBatch(ns, i)

(* "Each event records the used nullifier" (retirement.handler.ts:12):     *)
(* a processed event's nullifier is stored, or about to be.                *)
ProcessedIsIndexed ==
  \A id \in processed :
    \/ Indexed(events[id[1]][id[2]].nullifier)
    \/ \E w \in Runner : Inserting(w) /\ Id(w) = id

(* "... and issues the on-chain retirement certificate row"                *)
(* (retirement.handler.ts:12-13).                                          *)
ProcessedIsCertified ==
  \A id \in processed : id[1] = "retirement" =>
    \/ events[id[1]][id[2]].nullifier \in certificates
    \/ \E w \in Runner : Inserting(w) /\ Id(w) = id

(* A retirement's nullifier is not filed as a compliance claim once its    *)
(* retired event is processed ("Used for compliance-claim nullifiers that  *)
(* are recorded without a retirement certificate", nullifier.handler.ts).  *)
RetirementKeepsCorridor ==
  \A id \in processed : id[1] = "retirement" =>
    [nullifier |-> events[id[1]][id[2]].nullifier, corridor |-> "compliance"]
      \notin nullifiers

(* Every nullifier the registry publishes is indexed in the end.           *)
EveryNullifierIndexed ==
  \A n \in Nullifier : Published(n) ~> Indexed(n)
================================================================================
