------------------------- MODULE EventIndexer_proofs -------------------------
(***************************************************************************)
(* What the indexer keeps for any number of overlapping runs, ledgers,     *)
(* events, failures and restarts; and, without failures and restarts, that *)
(* it skips and loses nothing, for any page limit.                         *)
(***************************************************************************)
EXTENDS EventIndexer, FiniteSetTheorems, WellFoundedInduction, TLAPS

Place == {"idle", "load", "request", "response", "handle", "insert_nullifier", "insert_certificate"}
InsertPlace == {"insert_nullifier", "insert_certificate"}

(* A run has events at hand only from its response on; they are of its      *)
(* pipeline, whose cursor it has read, and one it inserts is marked.        *)
RunsOK ==
  \A w \in Runner :
    /\ \A k \in DOMAIN batch[w] : batch[w][k] \in DOMAIN events[at[w]]
    /\ pc[w] \in {"idle", "load", "request"} => batch[w] = <<>>
    /\ pc[w] \notin {"idle", "load"} => loaded[at[w]]
    /\ pc[w] \in InsertPlace => batch[w] # <<>> /\ (connected => Id(w) \in processed)

(* The cursor in memory is not behind the saved one. *)
CursorsOK == \A ns \in Namespace : connected /\ loaded[ns] => cursor[ns] >= lastLedger[ns]

(* The inductive invariant. *)
IndexInv == TypeOK /\ RunsOK /\ NoDoubleProcessing /\ CursorsOK

RunsTyped ==
  /\ pc \in [Runner -> Place] /\ at \in [Runner -> Namespace]
  /\ start \in [Runner -> 0..MaxLedger] /\ batch \in [Runner -> Seq(EventIndex)]

RestTyped ==
  /\ now \in 1..MaxLedger
  /\ events \in [Namespace -> Seq([ledger : 1..MaxLedger, nullifier : Nullifier])]
  /\ connected \in BOOLEAN /\ armed \in BOOLEAN
  /\ cursor \in [Namespace -> 0..MaxLedger] /\ loaded \in [Namespace -> BOOLEAN]
  /\ lastLedger \in [Namespace -> 0..MaxLedger]
  /\ processed \subseteq EventId
  /\ nullifiers \subseteq [nullifier : Nullifier, corridor : Corridor]
  /\ certificates \subseteq Nullifier
  /\ restarts \in 0..MaxRestarts

(* The two halves of the type invariant, now and after a step. *)
LEMMA TypeHalves == (TypeOK <=> RunsTyped /\ RestTyped) /\ (TypeOK' <=> RunsTyped' /\ RestTyped')
  BY DEF TypeOK, RunsTyped, RestTyped, Place

--------------------------------------------------------------------------------
(* Sequences and pages. *)

(* An element of a typed sequence is typed. *)
LEMMA ElementTyped ==
  ASSUME NEW S, NEW s \in Seq(S), NEW i \in DOMAIN s
  PROVE  s[i] \in S
  OBVIOUS

(* The tail of a sequence that is not empty. *)
LEMMA TailOf ==
  ASSUME NEW S, NEW s \in Seq(S), s # <<>>
  PROVE  /\ Tail(s) \in Seq(S)
         /\ \A k \in DOMAIN Tail(s) : k + 1 \in DOMAIN s /\ Tail(s)[k] = s[k + 1]
         /\ Head(s) = s[1] /\ 1 \in DOMAIN s
  OBVIOUS

(* A set of numbers has a least one. *)
LEMMA LeastIndex ==
  ASSUME NEW T \in SUBSET Nat, T # {}
  PROVE  \E m \in T : \A d \in T : m <= d
  <1> DEFINE less == {s \in Nat \X Nat : s[1] < s[2]}
  <1>1. less = OpToRel(<, Nat)
    BY DEF OpToRel
  <1>2. IsWellFoundedOn(less, Nat)
    BY <1>1, NatLessThanWellFounded
  <1>3. PICK m \in T : \A d \in T : ~(<<d, m>> \in less)
    <2> HIDE DEF less
    <2> QED
      BY <1>2, WFMin
  <1>4. ASSUME NEW d \in T PROVE m <= d
    <2>1. ~(<<d, m>> \in less) /\ d \in Nat /\ m \in Nat
      BY <1>3
    <2>2. ~(d < m)
      BY <2>1
    <2>3. QED
      BY <2>1, <2>2
  <1>5. QED
    BY <1>4

(* A page is a run of the pipeline's events, beginning with the first that *)
(* is in a closed ledger and not before startLedger.                       *)
LEMMA PageIsRun ==
  ASSUME TypeOK, NEW ns \in Namespace, NEW from \in Nat
  PROVE  LET page == Page(ns, from)
         IN  /\ page \in Seq(EventIndex)
             /\ \A k \in DOMAIN page : page[k] \in DOMAIN events[ns] /\ page[k] = page[1] + k - 1
             /\ page # <<>> => events[ns][page[1]].ledger < now
             /\ page # <<>> => \A i \in DOMAIN events[ns] :
                  i < page[1] => events[ns][i].ledger < from \/ events[ns][i].ledger >= now
  <1>1. PICK n \in Nat : Len(events[ns]) = n /\ DOMAIN events[ns] = 1..n
    BY DEF TypeOK
  <1>2. \A i \in 1..n : events[ns][i].ledger \in Nat
    <2>1. ASSUME NEW i \in 1..n PROVE events[ns][i].ledger \in Nat
      <3>1. events[ns] \in Seq([ledger : 1..MaxLedger, nullifier : Nullifier])
        BY DEF TypeOK
      <3>2. events[ns][i] \in [ledger : 1..MaxLedger, nullifier : Nullifier]
        BY <1>1, <3>1, ElementTyped
      <3>3. QED
        BY <3>2, IndexerAssumption
    <2>2. QED
      BY <2>1
  <1>3. PICK visible : visible = {i \in DOMAIN events[ns] : events[ns][i].ledger >= from /\ events[ns][i].ledger < now}
    OBVIOUS
  <1>4. PICK first : first = IF visible = {} THEN 1 ELSE CHOOSE i \in visible : \A j \in visible : i <= j
    OBVIOUS
  <1>5. PICK length : length = IF Cardinality(visible) < BatchSize THEN Cardinality(visible) ELSE BatchSize
    OBVIOUS
  <1>6. Page(ns, from) = [k \in 1..length |-> first + k - 1]
    BY <1>3, <1>4, <1>5 DEF Page
  <1>7. visible \subseteq 1..n /\ visible \subseteq Nat
    BY <1>1, <1>3
  <1>8. IsFiniteSet(visible) /\ Cardinality(visible) \in Nat
    <2>1. IsFiniteSet(1..n)
      BY FS_Interval
    <2>2. IsFiniteSet(visible)
      BY <1>7, <2>1, FS_Subset
    <2>3. QED
      BY <2>2, FS_CardinalityType
  <1>9. length \in Nat /\ length <= Cardinality(visible)
    BY <1>5, <1>8, IndexerAssumption
  <1>10. visible # {} => first \in visible /\ \A j \in visible : first <= j
    BY <1>4, <1>7, LeastIndex
  <1>11. visible = {} => length = 0 /\ first = 1
    <2>1. Cardinality({}) = 0
      BY FS_EmptySet
    <2>2. QED
      BY <1>4, <1>9, <2>1
  <1>12. visible # {} => first + length - 1 <= n
    <2>1. SUFFICES ASSUME visible # {} PROVE first + length - 1 <= n
      OBVIOUS
    <2>2. first \in 1..n /\ \A j \in visible : j \in first..n
      <3>1. first \in 1..n
        BY <1>7, <1>10, <2>1
      <3>2. ASSUME NEW j \in visible PROVE j \in first..n
        <4>1. j \in 1..n /\ first <= j
          BY <1>7, <1>10, <2>1
        <4>2. QED
          BY <3>1, <4>1
      <3>3. QED
        BY <3>1, <3>2
    <2>3. IsFiniteSet(first..n) /\ Cardinality(first..n) = n - first + 1
      BY <2>2, FS_Interval
    <2>4. Cardinality(visible) <= n - first + 1
      BY <2>2, <2>3, FS_Subset
    <2>5. QED
      BY <1>8, <1>9, <2>2, <2>4
  <1>13. first \in Nat \ {0}
    <2>1. CASE visible = {}
      BY <1>11, <2>1
    <2>2. CASE visible # {}
      <3>1. first \in 1..n
        BY <1>7, <1>10, <2>2
      <3>2. QED
        BY <3>1
    <2>3. QED
      BY <2>1, <2>2
  <1>14. PICK page : page = Page(ns, from)
    OBVIOUS
  <1>15. page \in Seq(EventIndex) /\ DOMAIN page = 1..length
    BY <1>6, <1>9, <1>13, <1>14 DEF EventIndex
  <1>16. \A k \in 1..length : page[k] = first + k - 1
    BY <1>6, <1>14
  <1>17. ASSUME NEW k \in DOMAIN page
         PROVE  page[k] \in DOMAIN events[ns] /\ page[k] = page[1] + k - 1
    BY <1>1, <1>9, <1>11, <1>12, <1>13, <1>15, <1>16
  <1>18. page # <<>> => visible # {} /\ page[1] = first
    <2>1. page # <<>> => 1 \in 1..length
      BY <1>9, <1>15
    <2>2. QED
      BY <1>11, <1>13, <1>16, <2>1
  <1>19. page # <<>> => events[ns][page[1]].ledger < now
    BY <1>3, <1>10, <1>18
  <1>20. ASSUME NEW i \in DOMAIN events[ns], page # <<>>, i < page[1]
         PROVE  events[ns][i].ledger < from \/ events[ns][i].ledger >= now
    <2>1. i \notin visible
      <3>1. i < first /\ i \in Nat /\ first \in Nat
        BY <1>1, <1>13, <1>18, <1>20
      <3>2. ~(first <= i)
        BY <3>1
      <3>3. QED
        BY <1>10, <1>18, <1>20, <3>2
    <2>2. events[ns][i].ledger \in Nat /\ now \in Nat
      BY <1>1, <1>2 DEF TypeOK
    <2>3. QED
      BY <1>3, <2>1, <2>2
  <1>21. QED
    BY <1>14, <1>15, <1>17, <1>19, <1>20

--------------------------------------------------------------------------------
(* Steps of one run. *)

(* Run w goes to place p in pipeline ns, with start ledger c and page b. *)
Moves(w, p, ns, c, b) ==
  /\ pc' = [pc EXCEPT ![w] = p] /\ at' = [at EXCEPT ![w] = ns]
  /\ start' = [start EXCEPT ![w] = c] /\ batch' = [batch EXCEPT ![w] = b]

(* What a run need not change. *)
LEMMA Unmoved ==
  ASSUME NEW S, NEW f \in [Runner -> S], NEW w \in Runner
  PROVE  f = [f EXCEPT ![w] = f[w]]
  OBVIOUS

(* A run that moves keeps its part of the invariant, if what it moves to   *)
(* does and an event it begins to insert was not marked before.            *)
LEMMA RunMoves ==
  ASSUME IndexInv, NEW w \in Runner, NEW p \in Place, NEW ns \in Namespace,
         NEW c \in 0..MaxLedger, NEW b \in Seq(EventIndex), Moves(w, p, ns, c, b),
         events' = events, connected' = connected, processed \subseteq processed',
         \A m \in Namespace : loaded[m] => loaded'[m],
         \A k \in DOMAIN b : b[k] \in DOMAIN events[ns],
         p \in {"idle", "load", "request"} => b = <<>>,
         p \notin {"idle", "load"} => loaded'[ns],
         p \in InsertPlace => b # <<>> /\ (connected => <<ns, Head(b)>> \in processed'),
         p \in InsertPlace /\ connected =>
           \/ <<ns, Head(b)>> \notin processed
           \/ pc[w] \in InsertPlace /\ Id(w) = <<ns, Head(b)>>
  PROVE  RunsTyped' /\ RunsOK' /\ NoDoubleProcessing'
  <1>1. RunsTyped /\ RestTyped
    BY TypeHalves DEF IndexInv
  <1>2. RunsTyped'
    BY <1>1 DEF RunsTyped, Moves
  <1>3. pc'[w] = p /\ at'[w] = ns /\ batch'[w] = b
    BY <1>1 DEF RunsTyped, Moves
  <1>4. ASSUME NEW v \in Runner, v # w
        PROVE  pc'[v] = pc[v] /\ at'[v] = at[v] /\ batch'[v] = batch[v]
    BY <1>1, <1>4 DEF RunsTyped, Moves
  <1>5. RunsOK'
    <2>1. SUFFICES ASSUME NEW v \in Runner
          PROVE  (/\ \A k \in DOMAIN batch[v] : batch[v][k] \in DOMAIN events[at[v]]
                  /\ pc[v] \in {"idle", "load", "request"} => batch[v] = <<>>
                  /\ pc[v] \notin {"idle", "load"} => loaded[at[v]]
                  /\ pc[v] \in InsertPlace => batch[v] # <<>> /\ (connected => Id(v) \in processed))'
      BY DEF RunsOK
    <2>2. CASE v = w
      BY <1>3, <2>2 DEF Id
    <2>3. CASE v # w
      <3>1. at[v] \in Namespace
        BY <1>1 DEF RunsTyped
      <3>2. QED
        BY <1>4, <2>3, <3>1 DEF IndexInv, RunsOK, Id
    <2>4. QED
      BY <2>2, <2>3
  <1>6. NoDoubleProcessing'
    <2>1. SUFFICES ASSUME NEW u \in Runner, NEW v \in Runner, connected,
                          pc'[u] \in InsertPlace, pc'[v] \in InsertPlace, Id(u)' = Id(v)', u # v
          PROVE  FALSE
      BY DEF NoDoubleProcessing, Inserting, InsertPlace
    <2>2. ASSUME NEW x \in Runner, x # w, pc'[x] \in InsertPlace
          PROVE  pc[x] \in InsertPlace /\ Id(x)' = Id(x) /\ Id(x) \in processed
      BY <1>4, <2>1, <2>2 DEF IndexInv, RunsOK, Id
    <2>3. ASSUME NEW x \in Runner, NEW y \in Runner, x # y, pc[x] \in InsertPlace, pc[y] \in InsertPlace
          PROVE  Id(x) # Id(y)
      BY <2>1, <2>3 DEF IndexInv, NoDoubleProcessing, Inserting, InsertPlace
    <2>4. CASE u # w /\ v # w
      BY <2>1, <2>2, <2>3, <2>4
    <2>5. Id(w)' = <<ns, Head(b)>>
      BY <1>3 DEF Id
    <2>6. ASSUME NEW x \in Runner, x # w, pc'[x] \in InsertPlace, p \in InsertPlace
          PROVE  Id(x)' # Id(w)'
      <3>1. pc[x] \in InsertPlace /\ Id(x)' = Id(x) /\ Id(x) \in processed
        BY <2>2, <2>6
      <3>2. CASE <<ns, Head(b)>> \notin processed
        BY <2>5, <3>1, <3>2
      <3>3. CASE pc[w] \in InsertPlace /\ Id(w) = <<ns, Head(b)>>
        BY <2>3, <2>5, <2>6, <3>1, <3>3
      <3>4. QED
        BY <2>1, <2>6, <3>2, <3>3
    <2>7. QED
      BY <1>3, <2>1, <2>4, <2>6
  <1>7. QED
    BY <1>2, <1>5, <1>6

(* The run's next poll: of a pipeline, at its request if the cursor is read. *)
LEMMA PollBegins ==
  ASSUME TypeOK, NEW w \in Runner, NEW ns \in Namespace, BeginPoll(w, ns)
  PROVE  \E p \in {"load", "request"}, c \in 0..MaxLedger :
           /\ pc' = [pc EXCEPT ![w] = p] /\ at' = [at EXCEPT ![w] = ns] /\ start' = [start EXCEPT ![w] = c]
           /\ p = "request" => loaded[ns]
  <1>1. RunsTyped /\ RestTyped
    BY TypeHalves
  <1>2. CASE loaded[ns]
    <2>1. StartLedger(cursor[ns]) \in 0..MaxLedger
      BY <1>1, IndexerAssumption DEF RestTyped, StartLedger
    <2>2. QED
      BY <1>2, <2>1 DEF BeginPoll, Goto
  <1>3. CASE ~loaded[ns]
    <2>1. start' = [start EXCEPT ![w] = start[w]] /\ start[w] \in 0..MaxLedger
      BY <1>1, <1>3, Unmoved DEF RunsTyped, BeginPoll
    <2>2. QED
      BY <1>3, <2>1 DEF BeginPoll, Goto
  <1>4. QED
    BY <1>2, <1>3

(* The end of a pipeline: on to the other, or the run is idle. *)
LEMMA PipelineEnds ==
  ASSUME TypeOK, NEW w \in Runner, EndPipeline(w)
  PROVE  /\ armed' \in BOOLEAN
         /\ \E p \in {"idle", "load", "request"}, ns \in Namespace, c \in 0..MaxLedger :
              Moves(w, p, ns, c, <<>>) /\ (p = "request" => loaded[ns])
  <1>1. RunsTyped /\ RestTyped
    BY TypeHalves
  <1>2. CASE at[w] = "retirement"
    <2>1. BeginPoll(w, "nullifier") /\ armed' = armed /\ batch' = [batch EXCEPT ![w] = <<>>]
      BY <1>2 DEF EndPipeline
    <2>2. "nullifier" \in Namespace
      BY DEF Namespace
    <2>3. PICK p \in {"load", "request"}, c \in 0..MaxLedger :
                 /\ pc' = [pc EXCEPT ![w] = p] /\ at' = [at EXCEPT ![w] = "nullifier"]
                 /\ start' = [start EXCEPT ![w] = c] /\ (p = "request" => loaded["nullifier"])
      BY <2>1, <2>2, PollBegins
    <2>4. Moves(w, p, "nullifier", c, <<>>)
      BY <2>1, <2>3 DEF Moves
    <2>5. QED
      BY <1>1, <2>1, <2>2, <2>3, <2>4 DEF RestTyped
  <1>3. CASE at[w] # "retirement"
    <2>1. start' = [start EXCEPT ![w] = start[w]] /\ start[w] \in 0..MaxLedger
      BY <1>1, <1>3, Unmoved DEF RunsTyped, EndPipeline
    <2>2. "retirement" \in Namespace
      BY DEF Namespace
    <2>3. QED
      BY <1>3, <2>1, <2>2 DEF EndPipeline, Goto, Moves
  <1>4. QED
    BY <1>2, <1>3

(* What a step keeps: the invariant, and every saved cursor or a later one. *)
Keeps == IndexInv' /\ \A ns \in Namespace : lastLedger'[ns] >= lastLedger[ns]

(* A step that leaves the cursors alone keeps what is said of them. *)
LEMMA CursorsKept ==
  ASSUME IndexInv, RunsTyped', RestTyped', RunsOK', NoDoubleProcessing',
         UNCHANGED <<connected, cursor, loaded, lastLedger>>
  PROVE  Keeps
  <1>1. TypeOK'
    BY TypeHalves
  <1>2. CursorsOK'
    BY DEF IndexInv, CursorsOK
  <1>3. lastLedger \in [Namespace -> 0..MaxLedger]
    BY DEF IndexInv, TypeOK
  <1>4. \A ns \in Namespace : lastLedger'[ns] >= lastLedger[ns]
    BY <1>3
  <1>5. QED
    BY <1>1, <1>2, <1>4 DEF Keeps, IndexInv

(* A run that ends keeps the invariant. *)
LEMMA EndingKeeps ==
  ASSUME IndexInv, NEW w \in Runner, EndPipeline(w),
         UNCHANGED <<ledgerVars, connected, cursor, loaded, dbVars, restarts>>
  PROVE  Keeps
  <1>1. RunsTyped /\ RestTyped /\ TypeOK
    BY TypeHalves DEF IndexInv
  <1>2. PICK p \in {"idle", "load", "request"}, ns \in Namespace, c \in 0..MaxLedger :
             Moves(w, p, ns, c, <<>>) /\ (p = "request" => loaded[ns])
    BY <1>1, PipelineEnds
  <1>3. RestTyped'
    BY <1>1, PipelineEnds DEF RestTyped, ledgerVars, dbVars
  <1>4. <<>> \in Seq(EventIndex) /\ DOMAIN <<>> = {}
    OBVIOUS
  <1>5. p \in Place /\ p \notin InsertPlace
    BY DEF Place, InsertPlace
  <1>6. RunsTyped' /\ RunsOK' /\ NoDoubleProcessing'
    BY <1>2, <1>4, <1>5, RunMoves DEF ledgerVars, dbVars
  <1>7. QED
    BY <1>3, <1>6, CursorsKept DEF dbVars

(* The first event of a page was handled. *)
LEMMA HandledMoves ==
  ASSUME IndexInv, NEW w \in Runner, Handled(w), UNCHANGED <<at, start>>, batch[w] # <<>>,
         events' = events, connected' = connected, loaded' = loaded, processed \subseteq processed',
         pc[w] \notin {"idle", "load"}
  PROVE  RunsTyped' /\ RunsOK' /\ NoDoubleProcessing'
  <1>1. RunsTyped
    BY TypeHalves DEF IndexInv
  <1>2. PICK ns \in Namespace, c \in 0..MaxLedger, b \in Seq(EventIndex) :
             ns = at[w] /\ c = start[w] /\ b = batch[w]
    BY <1>1 DEF RunsTyped
  <1>3. Tail(b) \in Seq(EventIndex) /\ \A k \in DOMAIN Tail(b) : k + 1 \in DOMAIN b /\ Tail(b)[k] = b[k + 1]
    BY <1>2, TailOf
  <1>4. Moves(w, "handle", ns, c, Tail(b))
    <2>1. at = [at EXCEPT ![w] = ns] /\ start = [start EXCEPT ![w] = c]
      BY <1>1, <1>2, Unmoved DEF RunsTyped
    <2>2. QED
      BY <1>2, <2>1 DEF Handled, Goto, Moves
  <1>5. \A k \in DOMAIN b : b[k] \in DOMAIN events[ns]
    BY <1>2 DEF IndexInv, RunsOK
  <1>6. \A k \in DOMAIN Tail(b) : Tail(b)[k] \in DOMAIN events[ns]
    BY <1>3, <1>5
  <1>7. loaded'[ns]
    BY <1>2 DEF IndexInv, RunsOK
  <1>8. "handle" \in Place /\ "handle" \notin InsertPlace \cup {"idle", "load", "request"}
    BY DEF Place, InsertPlace
  <1>9. QED
    BY <1>3, <1>4, <1>6, <1>7, <1>8, RunMoves

--------------------------------------------------------------------------------
(* Steps. *)

(* The indexer starts in the invariant. *)
LEMMA InitHolds == Init => IndexInv
  <1> SUFFICES ASSUME Init PROVE IndexInv
    OBVIOUS
  <1>1. TypeOK
    <2>1. 1 \in 1..MaxLedger /\ 0 \in 0..MaxLedger /\ 0 \in 0..MaxRestarts
      BY IndexerAssumption
    <2>2. \A S : <<>> \in Seq(S)
      OBVIOUS
    <2>3. QED
      BY <2>1, <2>2 DEF Init, TypeOK, Namespace
  <1>2. RunsOK
    BY DEF Init, RunsOK, InsertPlace
  <1>3. NoDoubleProcessing
    BY DEF Init, NoDoubleProcessing, Inserting
  <1>4. CursorsOK
    BY DEF Init, CursorsOK
  <1>5. QED
    BY <1>1, <1>2, <1>3, <1>4 DEF IndexInv

(* Events are appended, so pages stay pages. *)
LEMMA PublishKeeps ==
  ASSUME IndexInv, UNCHANGED <<memoryVars, runVars, dbVars, restarts>>, now' \in 1..MaxLedger,
         events' \in [Namespace -> Seq([ledger : 1..MaxLedger, nullifier : Nullifier])],
         \A ns \in Namespace : DOMAIN events[ns] \subseteq DOMAIN events'[ns]
  PROVE  Keeps
  <1>1. RunsTyped /\ RestTyped
    BY TypeHalves DEF IndexInv
  <1>2. RunsTyped'
    BY <1>1 DEF RunsTyped, runVars
  <1>3. RestTyped'
    BY <1>1 DEF RestTyped, memoryVars, dbVars
  <1>4. RunsOK'
    <2>1. ASSUME NEW w \in Runner PROVE at[w] \in Namespace
      BY <1>1 DEF RunsTyped
    <2>2. QED
      BY <2>1 DEF IndexInv, RunsOK, Id, runVars, memoryVars, dbVars
  <1>5. NoDoubleProcessing'
    BY DEF IndexInv, NoDoubleProcessing, Inserting, Id, runVars, memoryVars
  <1>6. QED
    BY <1>2, <1>3, <1>4, <1>5, CursorsKept DEF memoryVars, dbVars

(* An event of an open ledger can be appended to those published. *)
LEMMA AppendTyped ==
  ASSUME TypeOK, NEW ns \in Namespace, NEW n \in Nullifier
  PROVE  /\ Append1(ns, n) \in Seq([ledger : 1..MaxLedger, nullifier : Nullifier])
         /\ DOMAIN events[ns] \subseteq DOMAIN Append1(ns, n)
  <1>1. events[ns] \in Seq([ledger : 1..MaxLedger, nullifier : Nullifier])
    BY DEF TypeOK
  <1>2. [ledger |-> now, nullifier |-> n] \in [ledger : 1..MaxLedger, nullifier : Nullifier]
    BY DEF TypeOK
  <1>3. QED
    BY <1>1, <1>2 DEF Append1

(* A retirement's events, published together, keep the invariant. *)
LEMMA PublishRetirementKeeps ==
  ASSUME IndexInv, NEW n \in Nullifier, PublishRetirement(n)
  PROVE  Keeps
  <1>1. \A ns \in Namespace : events'[ns] = Append1(ns, n)
    BY DEF PublishRetirement
  <1>2. events' = [ns \in Namespace |-> events'[ns]]
    BY <1>1 DEF PublishRetirement
  <1>3. events' \in [Namespace -> Seq([ledger : 1..MaxLedger, nullifier : Nullifier])]
    BY <1>1, <1>2, AppendTyped DEF IndexInv
  <1>4. now' \in 1..MaxLedger
    BY DEF PublishRetirement, IndexInv, TypeOK
  <1>5. \A ns \in Namespace : DOMAIN events[ns] \subseteq DOMAIN events'[ns]
    BY <1>1, AppendTyped DEF IndexInv
  <1>6. QED
    BY <1>3, <1>4, <1>5, PublishKeeps DEF PublishRetirement

(* A lone nullified event keeps the invariant. *)
LEMMA PublishNullifierKeeps ==
  ASSUME IndexInv, NEW n \in Nullifier, PublishNullifier(n)
  PROVE  Keeps
  <1>1. "nullifier" \in Namespace
    BY DEF Namespace
  <1>2. events \in [Namespace -> Seq([ledger : 1..MaxLedger, nullifier : Nullifier])]
    BY DEF IndexInv, TypeOK
  <1>3. PICK s : s = Append1("nullifier", n)
    OBVIOUS
  <1>4. s \in Seq([ledger : 1..MaxLedger, nullifier : Nullifier]) /\ DOMAIN events["nullifier"] \subseteq DOMAIN s
    BY <1>1, <1>3, AppendTyped DEF IndexInv
  <1>5. events' = [events EXCEPT !["nullifier"] = s]
    BY <1>3 DEF PublishNullifier
  <1>6. events' \in [Namespace -> Seq([ledger : 1..MaxLedger, nullifier : Nullifier])]
    BY <1>2, <1>4, <1>5
  <1>7. \A ns \in Namespace : DOMAIN events[ns] \subseteq DOMAIN events'[ns]
    BY <1>2, <1>4, <1>5
  <1>8. now' \in 1..MaxLedger
    BY DEF PublishNullifier, IndexInv, TypeOK
  <1>9. QED
    BY <1>6, <1>7, <1>8, PublishKeeps DEF PublishNullifier

(* A ledger that closes keeps the invariant. *)
LEMMA CloseLedgerKeeps ==
  ASSUME IndexInv, CloseLedger
  PROVE  Keeps
  <1>1. now' \in 1..MaxLedger
    BY IndexerAssumption DEF CloseLedger, IndexInv, TypeOK
  <1>2. events' = events /\ events \in [Namespace -> Seq([ledger : 1..MaxLedger, nullifier : Nullifier])]
    BY DEF CloseLedger, IndexInv, TypeOK
  <1>3. QED
    BY <1>1, <1>2, PublishKeeps DEF CloseLedger

(* The start of a run keeps the invariant. *)
LEMMA PollAllKeeps ==
  ASSUME IndexInv, NEW w \in Runner, PollAll(w)
  PROVE  Keeps
  <1>1. RunsTyped /\ RestTyped /\ TypeOK
    BY TypeHalves DEF IndexInv
  <1>2. "retirement" \in Namespace
    BY DEF Namespace
  <1>3. PICK p \in {"load", "request"}, c \in 0..MaxLedger :
             /\ pc' = [pc EXCEPT ![w] = p] /\ at' = [at EXCEPT ![w] = "retirement"]
             /\ start' = [start EXCEPT ![w] = c] /\ (p = "request" => loaded["retirement"])
    BY <1>1, <1>2, PollBegins DEF PollAll
  <1>4. batch[w] = <<>> /\ <<>> \in Seq(EventIndex) /\ DOMAIN <<>> = {}
    BY DEF PollAll, IndexInv, RunsOK
  <1>5. Moves(w, p, "retirement", c, <<>>)
    <2>1. batch' = batch /\ batch = [batch EXCEPT ![w] = <<>>]
      BY <1>1, <1>4 DEF PollAll, RunsTyped
    <2>2. QED
      BY <1>3, <2>1 DEF Moves
  <1>6. p \in Place /\ p \notin InsertPlace
    BY DEF Place, InsertPlace
  <1>7. RunsTyped' /\ RunsOK' /\ NoDoubleProcessing'
    BY <1>2, <1>3, <1>4, <1>5, <1>6, RunMoves DEF PollAll, ledgerVars, memoryVars, dbVars
  <1>8. RestTyped'
    BY <1>1 DEF PollAll, RestTyped, ledgerVars, memoryVars, dbVars
  <1>9. QED
    BY <1>7, <1>8, CursorsKept DEF PollAll, memoryVars, dbVars

(* The cursor that is read is the saved one. *)
LEMMA LoadCursorKeeps ==
  ASSUME IndexInv, NEW w \in Runner, LoadCursor(w)
  PROVE  Keeps
  <1>1. RunsTyped /\ RestTyped
    BY TypeHalves DEF IndexInv
  <1>2. PICK ns \in Namespace, saved \in 0..MaxLedger :
             ns = at[w] /\ saved = IF connected THEN lastLedger[ns] ELSE 0
    BY <1>1, IndexerAssumption DEF RunsTyped, RestTyped
  <1>3. StartLedger(saved) \in 0..MaxLedger
    BY IndexerAssumption DEF StartLedger
  <1>4. batch[w] = <<>> /\ <<>> \in Seq(EventIndex) /\ DOMAIN <<>> = {}
    BY DEF LoadCursor, IndexInv, RunsOK
  <1>5. Moves(w, "request", ns, StartLedger(saved), <<>>)
    <2>1. batch' = batch /\ batch = [batch EXCEPT ![w] = <<>>]
      BY <1>1, <1>4 DEF LoadCursor, RunsTyped
    <2>2. at' = at /\ at = [at EXCEPT ![w] = ns]
      BY <1>1, <1>2, Unmoved DEF LoadCursor, RunsTyped
    <2>3. QED
      BY <1>2, <2>1, <2>2 DEF LoadCursor, Goto, Moves
  <1>6. "request" \in Place /\ "request" \notin InsertPlace
    BY DEF Place, InsertPlace
  <1>7. cursor' = [cursor EXCEPT ![ns] = saved] /\ loaded' = [loaded EXCEPT ![ns] = TRUE]
    BY <1>2 DEF LoadCursor
  <1>8. loaded'[ns] /\ \A m \in Namespace : loaded[m] => loaded'[m]
    BY <1>1, <1>7 DEF RestTyped
  <1>9. RunsTyped' /\ RunsOK' /\ NoDoubleProcessing'
    BY <1>3, <1>4, <1>5, <1>6, <1>8, RunMoves DEF LoadCursor, ledgerVars, dbVars
  <1>10. RestTyped'
    <2>1. cursor' \in [Namespace -> 0..MaxLedger] /\ loaded' \in [Namespace -> BOOLEAN]
      BY <1>1, <1>7 DEF RestTyped
    <2>2. UNCHANGED <<now, events, connected, armed, dbVars, restarts>>
      BY DEF LoadCursor, ledgerVars
    <2>3. QED
      BY <1>1, <2>1, <2>2 DEF RestTyped, dbVars
  <1>11. CursorsOK'
    <2>1. SUFFICES ASSUME NEW m \in Namespace, connected, loaded'[m]
          PROVE  cursor'[m] >= lastLedger[m]
      BY DEF CursorsOK, LoadCursor, dbVars
    <2>2. CASE m = ns
      <3>1. cursor'[m] = lastLedger[m] /\ lastLedger[m] \in Nat
        BY <1>1, <1>2, <1>7, <2>1, <2>2, IndexerAssumption DEF RestTyped
      <3>2. QED
        BY <3>1
    <2>3. CASE m # ns
      BY <1>1, <1>7, <2>1, <2>3 DEF IndexInv, CursorsOK, RestTyped
    <2>4. QED
      BY <2>2, <2>3
  <1>12. \A m \in Namespace : lastLedger'[m] >= lastLedger[m]
    BY <1>1 DEF LoadCursor, dbVars, RestTyped
  <1>13. QED
    BY <1>9, <1>10, <1>11, <1>12, TypeHalves DEF Keeps, IndexInv

(* A request for a page keeps the invariant. *)
LEMMA GetEventsKeeps ==
  ASSUME IndexInv, NEW w \in Runner, GetEvents(w)
  PROVE  Keeps
  <1>1. RunsTyped /\ RestTyped /\ TypeOK
    BY TypeHalves DEF IndexInv
  <1>2. PICK ns \in Namespace, from \in Nat : ns = at[w] /\ from = start[w]
    BY <1>1, IndexerAssumption DEF RunsTyped
  <1>3. PICK b : b = Page(ns, from)
    OBVIOUS
  <1>4. b \in Seq(EventIndex) /\ \A k \in DOMAIN b : b[k] \in DOMAIN events[ns]
    BY <1>1, <1>3, PageIsRun
  <1>5. Moves(w, "response", ns, 0, b)
    <2>1. at' = at /\ at = [at EXCEPT ![w] = ns]
      BY <1>1, <1>2, Unmoved DEF GetEvents, RunsTyped
    <2>2. QED
      BY <1>2, <1>3, <2>1 DEF GetEvents, Goto, Moves
  <1>6. "response" \in Place /\ "response" \notin InsertPlace \cup {"idle", "load", "request"}
    BY DEF Place, InsertPlace
  <1>7. loaded[ns]
    BY <1>2 DEF GetEvents, IndexInv, RunsOK
  <1>8. 0 \in 0..MaxLedger
    BY IndexerAssumption
  <1>9. RunsTyped' /\ RunsOK' /\ NoDoubleProcessing'
    BY <1>4, <1>5, <1>6, <1>7, <1>8, RunMoves DEF GetEvents, ledgerVars, memoryVars, dbVars
  <1>10. RestTyped'
    BY <1>1 DEF GetEvents, RestTyped, ledgerVars, memoryVars, dbVars
  <1>11. QED
    BY <1>9, <1>10, CursorsKept DEF GetEvents, memoryVars, dbVars

(* The cursor moves to the end of the page, and never back. *)
LEMMA CursorMoves ==
  ASSUME IndexInv, NEW w \in Runner
  PROVE  Moved(w) \in 0..MaxLedger /\ Moved(w) >= cursor[at[w]]
  <1>1. RunsTyped /\ RestTyped
    BY TypeHalves DEF IndexInv
  <1>2. PICK ns \in Namespace : ns = at[w]
    BY <1>1 DEF RunsTyped
  <1>3. cursor[ns] \in 0..MaxLedger /\ MaxLedger \in Nat
    BY <1>1, IndexerAssumption DEF RestTyped
  <1>4. LastOfPage(w) \in 0..MaxLedger
    <2>1. CASE batch[w] = <<>>
      BY <2>1, <1>3 DEF LastOfPage
    <2>2. CASE batch[w] # <<>>
      <3>1. Len(batch[w]) \in DOMAIN batch[w]
        BY <1>1, <2>2 DEF RunsTyped
      <3>2. batch[w][Len(batch[w])] \in DOMAIN events[ns]
        BY <1>2, <3>1 DEF IndexInv, RunsOK
      <3>3. events[ns] \in Seq([ledger : 1..MaxLedger, nullifier : Nullifier])
        BY <1>1 DEF RestTyped
      <3>4. events[ns][batch[w][Len(batch[w])]] \in [ledger : 1..MaxLedger, nullifier : Nullifier]
        BY <3>2, <3>3, ElementTyped
      <3>5. LastOfPage(w) = events[ns][batch[w][Len(batch[w])]].ledger
        BY <1>2, <2>2 DEF LastOfPage
      <3>6. QED
        BY <1>3, <3>4, <3>5
    <2>3. QED
      BY <2>1, <2>2
  <1>5. QED
    BY <1>2, <1>3, <1>4 DEF Moved

(* A page that arrives, late or not, keeps the invariant. *)
LEMMA ResponseKeeps ==
  ASSUME IndexInv, NEW w \in Runner, Response(w)
  PROVE  Keeps
  <1>1. RunsTyped /\ RestTyped /\ TypeOK
    BY TypeHalves DEF IndexInv
  <1>2. PICK ns \in Namespace, moved \in 0..MaxLedger, c \in 0..MaxLedger, b \in Seq(EventIndex) :
             ns = at[w] /\ moved = Moved(w) /\ moved >= cursor[ns] /\ c = start[w] /\ b = batch[w]
    BY <1>1, CursorMoves DEF RunsTyped
  <1>3. cursor' = [cursor EXCEPT ![ns] = moved] /\ loaded' = loaded /\ connected' = connected
        /\ loaded[ns] /\ pc[w] = "response"
    BY <1>2 DEF Response, IndexInv, RunsOK
  <1>4. lastLedger' = lastLedger \/ (connected /\ lastLedger' = [lastLedger EXCEPT ![ns] = moved])
    BY <1>2 DEF Response
  <1>5. RunsTyped' /\ RunsOK' /\ NoDoubleProcessing' /\ armed' \in BOOLEAN
    <2>1. CASE Goto(w, "handle") /\ UNCHANGED <<at, start, batch, armed>>
      <3>1. Moves(w, "handle", ns, c, b)
        <4>1. at = [at EXCEPT ![w] = ns] /\ start = [start EXCEPT ![w] = c]
          BY <1>1, <1>2, Unmoved DEF RunsTyped
        <4>2. batch = [batch EXCEPT ![w] = b]
          BY <1>1, <1>2, Unmoved DEF RunsTyped
        <4>3. QED
          BY <2>1, <4>1, <4>2 DEF Goto, Moves
      <3>2. \A k \in DOMAIN b : b[k] \in DOMAIN events[ns]
        BY <1>2 DEF IndexInv, RunsOK
      <3>3. "handle" \in Place /\ "handle" \notin InsertPlace \cup {"idle", "load", "request"}
        BY DEF Place, InsertPlace
      <3>4. events' = events /\ processed' = processed
        BY DEF Response, ledgerVars
      <3>5. RunsTyped' /\ RunsOK' /\ NoDoubleProcessing'
        BY <1>3, <3>1, <3>2, <3>3, <3>4, RunMoves
      <3>6. QED
        BY <1>1, <2>1, <3>5 DEF RestTyped
    <2>2. CASE EndPipeline(w)
      <3>1. PICK p \in {"idle", "load", "request"}, m \in Namespace, d \in 0..MaxLedger :
                 Moves(w, p, m, d, <<>>) /\ (p = "request" => loaded[m])
        BY <1>1, <2>2, PipelineEnds
      <3>2. <<>> \in Seq(EventIndex) /\ DOMAIN <<>> = {}
        OBVIOUS
      <3>3. p \in Place /\ p \notin InsertPlace
        BY DEF Place, InsertPlace
      <3>4. events' = events /\ processed' = processed
        BY DEF Response, ledgerVars
      <3>5. RunsTyped' /\ RunsOK' /\ NoDoubleProcessing'
        BY <1>3, <3>1, <3>2, <3>3, <3>4, RunMoves
      <3>6. QED
        BY <1>1, <2>2, <3>5, PipelineEnds
    <2>3. QED
      BY <2>1, <2>2 DEF Response
  <1>6. RestTyped'
    <2>1. /\ cursor' \in [Namespace -> 0..MaxLedger] /\ loaded' \in [Namespace -> BOOLEAN]
          /\ lastLedger' \in [Namespace -> 0..MaxLedger]
      BY <1>1, <1>3, <1>4 DEF RestTyped
    <2>2. /\ UNCHANGED <<now, events, connected, processed, nullifiers, certificates, restarts>>
          /\ armed' \in BOOLEAN
      BY <1>5 DEF Response, ledgerVars
    <2>3. QED
      BY <1>1, <2>1, <2>2 DEF RestTyped
  <1>7. ASSUME NEW m \in Namespace
        PROVE  /\ connected' /\ loaded'[m] => cursor'[m] >= lastLedger'[m]
               /\ lastLedger'[m] >= lastLedger[m]
    <2>1. cursor[m] \in Nat /\ lastLedger[m] \in Nat /\ moved \in Nat
      BY <1>1, IndexerAssumption DEF RestTyped
    <2>2. connected /\ loaded[m] => cursor[m] >= lastLedger[m]
      BY DEF IndexInv, CursorsOK
    <2>3. CASE m = ns
      <3>1. cursor'[m] = moved /\ moved >= cursor[m]
        BY <1>1, <1>2, <1>3, <2>3 DEF RestTyped
      <3>2. lastLedger'[m] = lastLedger[m] \/ (connected /\ lastLedger'[m] = moved)
        BY <1>1, <1>4, <2>3 DEF RestTyped
      <3>3. QED
        BY <1>3, <2>1, <2>2, <2>3, <3>1, <3>2
    <2>4. CASE m # ns
      <3>1. cursor'[m] = cursor[m] /\ lastLedger'[m] = lastLedger[m]
        BY <1>1, <1>3, <1>4, <2>4 DEF RestTyped
      <3>2. QED
        BY <1>3, <2>1, <2>2, <3>1
    <2>5. QED
      BY <2>3, <2>4
  <1>8. QED
    BY <1>5, <1>6, <1>7, TypeHalves DEF Keeps, IndexInv, CursorsOK

(* markProcessed: only an event that was not marked goes on to be inserted. *)
LEMMA MarkKeeps ==
  ASSUME IndexInv, NEW w \in Runner, Mark(w)
  PROVE  Keeps
  <1>1. RunsTyped /\ RestTyped
    BY TypeHalves DEF IndexInv
  <1>2. PICK ns \in Namespace, c \in 0..MaxLedger, b \in Seq(EventIndex) :
             ns = at[w] /\ c = start[w] /\ b = batch[w]
    BY <1>1 DEF RunsTyped
  <1>3. Id(w) = <<ns, Head(b)>> /\ Id(w) \in EventId
    <2>1. b # <<>>
      BY <1>2 DEF Mark
    <2>2. Head(b) = b[1] /\ 1 \in DOMAIN b /\ b[1] \in EventIndex
      BY <2>1, TailOf, ElementTyped
    <2>3. QED
      BY <1>2, <2>2 DEF Id, EventId
  <1>4. CASE Handled(w) /\ processed' = processed
    <2>1. RunsTyped' /\ RunsOK' /\ NoDoubleProcessing'
      BY <1>4, HandledMoves DEF Mark, ledgerVars, memoryVars
    <2>2. RestTyped'
      BY <1>1, <1>4 DEF Mark, RestTyped, ledgerVars, memoryVars
    <2>3. QED
      BY <2>1, <2>2, CursorsKept DEF Mark, memoryVars
  <1>5. CASE ~(Handled(w) /\ processed' = processed)
    <2>1. /\ ~(connected /\ Id(w) \in processed)
          /\ processed' = IF connected THEN processed \cup {Id(w)} ELSE processed
          /\ Goto(w, "insert_nullifier") /\ batch' = batch
      BY <1>5 DEF Mark
    <2>2. Moves(w, "insert_nullifier", ns, c, b)
      <3>1. at = [at EXCEPT ![w] = ns] /\ start = [start EXCEPT ![w] = c]
        BY <1>1, <1>2, Unmoved DEF RunsTyped
      <3>2. batch = [batch EXCEPT ![w] = b]
        BY <1>1, <1>2, Unmoved DEF RunsTyped
      <3>3. QED
        BY <2>1, <3>1, <3>2 DEF Mark, Goto, Moves
    <2>3. "insert_nullifier" \in Place /\ "insert_nullifier" \notin {"idle", "load", "request"}
      BY DEF Place
    <2>4. \A k \in DOMAIN b : b[k] \in DOMAIN events[ns]
      BY <1>2 DEF IndexInv, RunsOK
    <2>5. b # <<>> /\ loaded[ns]
      BY <1>2 DEF Mark, IndexInv, RunsOK
    <2>6. /\ processed \subseteq processed'
          /\ connected => <<ns, Head(b)>> \in processed' /\ <<ns, Head(b)>> \notin processed
      BY <1>3, <2>1
    <2>7. RunsTyped' /\ RunsOK' /\ NoDoubleProcessing'
      BY <2>2, <2>3, <2>4, <2>5, <2>6, RunMoves DEF Mark, ledgerVars, memoryVars
    <2>8. RestTyped'
      BY <1>1, <1>3, <2>1 DEF Mark, RestTyped, ledgerVars, memoryVars
    <2>9. QED
      BY <2>7, <2>8, CursorsKept DEF Mark, memoryVars
  <1>6. QED
    BY <1>4, <1>5

(* What a run that inserts has at hand. *)
LEMMA EventTyped ==
  ASSUME IndexInv, NEW w \in Runner, Inserting(w)
  PROVE  EventOf(w).nullifier \in Nullifier
  <1>1. RunsTyped /\ RestTyped
    BY TypeHalves DEF IndexInv
  <1>2. batch[w] # <<>> /\ batch[w] \in Seq(EventIndex) /\ at[w] \in Namespace
    BY <1>1 DEF IndexInv, RunsOK, Inserting, InsertPlace, RunsTyped
  <1>3. Head(batch[w]) \in DOMAIN events[at[w]]
    BY <1>2, TailOf DEF IndexInv, RunsOK
  <1>4. events[at[w]] \in Seq([ledger : 1..MaxLedger, nullifier : Nullifier])
    BY <1>1, <1>2 DEF RestTyped
  <1>5. EventOf(w) \in [ledger : 1..MaxLedger, nullifier : Nullifier]
    BY <1>3, <1>4, ElementTyped DEF EventOf
  <1>6. QED
    BY <1>5

(* The nullifier's INSERT keeps the invariant. *)
LEMMA InsertNullifierKeeps ==
  ASSUME IndexInv, NEW w \in Runner, InsertNullifier(w)
  PROVE  Keeps
  <1>1. RunsTyped /\ RestTyped
    BY TypeHalves DEF IndexInv
  <1>2. Inserting(w) /\ pc[w] \in InsertPlace /\ pc[w] \notin {"idle", "load"} /\ batch[w] # <<>>
    BY DEF InsertNullifier, Inserting, InsertPlace, IndexInv, RunsOK
  <1>3. PICK ns \in Namespace, c \in 0..MaxLedger, b \in Seq(EventIndex) :
             ns = at[w] /\ c = start[w] /\ b = batch[w]
    BY <1>1 DEF RunsTyped
  <1>4. RunsTyped' /\ RunsOK' /\ NoDoubleProcessing'
    <2>1. CASE Goto(w, "insert_certificate") /\ batch' = batch
      <3>1. Moves(w, "insert_certificate", ns, c, b)
        <4>1. at = [at EXCEPT ![w] = ns] /\ start = [start EXCEPT ![w] = c]
          BY <1>1, <1>3, Unmoved DEF RunsTyped
        <4>2. batch = [batch EXCEPT ![w] = b]
          BY <1>1, <1>3, Unmoved DEF RunsTyped
        <4>3. QED
          BY <2>1, <4>1, <4>2 DEF InsertNullifier, Goto, Moves
      <3>2. "insert_certificate" \in Place /\ "insert_certificate" \notin {"idle", "load", "request"}
        BY DEF Place
      <3>3. \A k \in DOMAIN b : b[k] \in DOMAIN events[ns]
        BY <1>3 DEF IndexInv, RunsOK
      <3>4. loaded[ns] /\ b # <<>> /\ (connected => <<ns, Head(b)>> \in processed) /\ Id(w) = <<ns, Head(b)>>
        BY <1>2, <1>3 DEF IndexInv, RunsOK, Id
      <3>5. QED
        BY <1>2, <3>1, <3>2, <3>3, <3>4, RunMoves DEF InsertNullifier, ledgerVars, memoryVars
    <2>2. CASE Handled(w)
      BY <1>2, <2>2, HandledMoves DEF InsertNullifier, ledgerVars, memoryVars
    <2>3. QED
      BY <2>1, <2>2 DEF InsertNullifier
  <1>5. nullifiers' \subseteq [nullifier : Nullifier, corridor : Corridor]
    <2>1. EventOf(w).nullifier \in Nullifier
      BY <1>2, EventTyped
    <2>2. CorridorOf(w) \in Corridor
      BY DEF CorridorOf, Corridor
    <2>3. QED
      BY <1>1, <2>1, <2>2 DEF InsertNullifier, RestTyped
  <1>6. RestTyped'
    BY <1>1, <1>5 DEF InsertNullifier, RestTyped, ledgerVars, memoryVars
  <1>7. QED
    BY <1>4, <1>6, CursorsKept DEF InsertNullifier, memoryVars

(* The certificate's INSERT keeps the invariant. *)
LEMMA InsertCertificateKeeps ==
  ASSUME IndexInv, NEW w \in Runner, InsertCertificate(w)
  PROVE  Keeps
  <1>1. RunsTyped /\ RestTyped
    BY TypeHalves DEF IndexInv
  <1>2. Inserting(w) /\ pc[w] \notin {"idle", "load"} /\ batch[w] # <<>>
    BY DEF InsertCertificate, Inserting, InsertPlace, IndexInv, RunsOK
  <1>3. RunsTyped' /\ RunsOK' /\ NoDoubleProcessing'
    BY <1>2, HandledMoves DEF InsertCertificate, ledgerVars, memoryVars
  <1>4. certificates' \subseteq Nullifier
    BY <1>1, <1>2, EventTyped DEF InsertCertificate, RestTyped
  <1>5. RestTyped'
    BY <1>1, <1>4 DEF InsertCertificate, RestTyped, ledgerVars, memoryVars
  <1>6. QED
    BY <1>3, <1>5, CursorsKept DEF InsertCertificate, memoryVars

(* A failing query keeps the invariant. *)
LEMMA DbErrorKeeps ==
  ASSUME IndexInv, NEW w \in Runner, DbError(w)
  PROVE  Keeps
  <1>1. CASE EndPipeline(w)
    BY <1>1, EndingKeeps DEF DbError
  <1>2. CASE Inserting(w) /\ Handled(w) /\ UNCHANGED <<at, start, armed>>
    <2>1. RunsTyped /\ RestTyped
      BY TypeHalves DEF IndexInv
    <2>2. pc[w] \notin {"idle", "load"} /\ batch[w] # <<>>
      BY <1>2 DEF Inserting, InsertPlace, IndexInv, RunsOK
    <2>3. RunsTyped' /\ RunsOK' /\ NoDoubleProcessing'
      BY <1>2, <2>2, HandledMoves DEF DbError, ledgerVars, dbVars
    <2>4. RestTyped'
      BY <1>2, <2>1 DEF DbError, RestTyped, ledgerVars, dbVars
    <2>5. QED
      BY <2>3, <2>4, CursorsKept DEF DbError, dbVars
  <1>3. QED
    BY <1>1, <1>2 DEF DbError

(* A restart forgets the cursors; what is saved stays. *)
LEMMA RestartKeeps ==
  ASSUME IndexInv, Restart
  PROVE  Keeps
  <1>1. RunsTyped /\ RestTyped
    BY TypeHalves DEF IndexInv
  <1>2. PICK up \in BOOLEAN : FreshMemory(up)
    BY DEF Restart
  <1>3. RunsTyped'
    <2>1. "idle" \in Place /\ "retirement" \in Namespace /\ 0 \in 0..MaxLedger /\ <<>> \in Seq(EventIndex)
      BY IndexerAssumption DEF Place, Namespace
    <2>2. QED
      BY <1>2, <2>1 DEF FreshMemory, RunsTyped
  <1>4. RestTyped'
    <2>1. 0 \in 0..MaxLedger /\ restarts' \in 0..MaxRestarts
      BY <1>1, IndexerAssumption DEF Restart, RestTyped
    <2>2. QED
      BY <1>1, <1>2, <2>1 DEF FreshMemory, Restart, RestTyped, ledgerVars, dbVars
  <1>5. \A w \in Runner : pc'[w] = "idle" /\ batch'[w] = <<>>
    BY <1>2 DEF FreshMemory
  <1>6. RunsOK' /\ NoDoubleProcessing'
    BY <1>5 DEF RunsOK, InsertPlace, NoDoubleProcessing, Inserting
  <1>7. CursorsOK'
    BY <1>2 DEF FreshMemory, CursorsOK
  <1>8. \A ns \in Namespace : lastLedger'[ns] >= lastLedger[ns]
    BY <1>1 DEF Restart, dbVars, RestTyped
  <1>9. QED
    BY <1>3, <1>4, <1>6, <1>7, <1>8, TypeHalves DEF Keeps, IndexInv

--------------------------------------------------------------------------------
(* Theorems. *)

(* Every step keeps the invariant, marks no event twice and lowers no cursor. *)
LEMMA StepKeeps == IndexInv /\ [Next]_vars => Keeps
  <1> SUFFICES ASSUME IndexInv, [Next]_vars PROVE Keeps
    OBVIOUS
  <1>1. ASSUME NEW n \in Nullifier, PublishRetirement(n) \/ PublishNullifier(n) PROVE Keeps
    BY <1>1, PublishRetirementKeeps, PublishNullifierKeeps
  <1>2. ASSUME CloseLedger PROVE Keeps
    BY <1>2, CloseLedgerKeeps
  <1>3. ASSUME NEW w \in Runner, Work(w) PROVE Keeps
    <2>1. CASE EndOfPage(w)
      BY <2>1, EndingKeeps DEF EndOfPage
    <2>2. QED
      BY <1>3, <2>1, PollAllKeeps, LoadCursorKeeps, GetEventsKeeps, ResponseKeeps, MarkKeeps,
         InsertNullifierKeeps, InsertCertificateKeeps DEF Work
  <1>4. ASSUME NEW w \in Runner, RpcError(w) PROVE Keeps
    BY <1>4, EndingKeeps DEF RpcError
  <1>5. ASSUME NEW w \in Runner, DbError(w) PROVE Keeps
    BY <1>5, DbErrorKeeps
  <1>6. ASSUME Restart PROVE Keeps
    BY <1>6, RestartKeeps
  <1>7. CASE UNCHANGED vars
    <2>1. RunsTyped' /\ RestTyped' /\ RunsOK' /\ NoDoubleProcessing'
      BY <1>7, TypeHalves
         DEF IndexInv, RunsTyped, RestTyped, RunsOK, NoDoubleProcessing, Inserting, Id, vars,
             ledgerVars, memoryVars, runVars, dbVars
    <2>2. QED
      BY <1>7, <2>1, CursorsKept DEF vars, memoryVars, dbVars
  <1>8. QED
    BY <1>1, <1>2, <1>3, <1>4, <1>5, <1>6, <1>7 DEF Next

(* The invariant holds however many runs overlap, fail and restart. *)
THEOREM IndexerInvariant == Spec => []IndexInv
  <1>1. IndexInv /\ [Next]_vars => IndexInv'
    BY StepKeeps DEF Keeps
  <1>2. QED
    BY InitHolds, <1>1, PTL DEF Spec

(* The indexer's state is typed: a page is of events that were published. *)
THEOREM IndexerTyped == Spec => []TypeOK
  <1>1. IndexInv => TypeOK
    BY DEF IndexInv
  <1>2. QED
    BY IndexerInvariant, <1>1, PTL

(* While the indexer has its database, two runs never insert the same      *)
(* event (markProcessed).                                                  *)
THEOREM ProcessedOnce == Spec => []NoDoubleProcessing
  <1>1. IndexInv => NoDoubleProcessing
    BY DEF IndexInv
  <1>2. QED
    BY IndexerInvariant, <1>1, PTL

(* The saved cursor never goes back (setLastLedger), whatever overlaps,    *)
(* fails, restarts or comes up without the database.                       *)
THEOREM CursorOnlyAdvances == Spec => CursorNeverGoesBack
  <1>1. IndexInv /\ [Next]_vars => [\A ns \in Namespace : lastLedger'[ns] >= lastLedger[ns]]_vars
    BY StepKeeps DEF Keeps
  <1>2. QED
    BY IndexerInvariant, <1>1, PTL DEF Spec, CursorNeverGoesBack

--------------------------------------------------------------------------------
(* Nothing is skipped while nothing fails. *)

(* No failure, no restart, and the topics the handlers expect. *)
Quiet == Faults = {} /\ MaxRestarts = 0 /\ TopicNullifier

(* Events are in the order of their ledgers, none of which is to come. *)
Ordered ==
  \A ns \in Namespace : \A i \in DOMAIN events[ns] :
    /\ events[ns][i].ledger <= now
    /\ \A j \in DOMAIN events[ns] : i <= j => events[ns][i].ledger <= events[ns][j].ledger

(* The cursor in memory is the saved one, and of a ledger there is. *)
CursorsSaved ==
  /\ connected
  /\ \A ns \in Namespace :
       /\ loaded[ns] => cursor[ns] = lastLedger[ns]
       /\ lastLedger[ns] <= now

(* What run w asks for begins no later than the saved cursor; a page that  *)
(* is on its way is a run of events, and those before it are behind the    *)
(* cursor.                                                                 *)
RunSafe(w) ==
  /\ pc[w] = "request" => start[w] <= 1 \/ start[w] <= lastLedger[at[w]]
  /\ pc[w] = "response" /\ batch[w] # <<>> =>
       /\ \A k \in DOMAIN batch[w] : batch[w][k] = batch[w][1] + k - 1
       /\ \A i \in DOMAIN events[at[w]] : i < batch[w][1] => events[at[w]][i].ledger < lastLedger[at[w]]

(* An event marked was published, and its nullifier is stored or next. *)
Marked(id) ==
  \/ Indexed(events[id[1]][id[2]].nullifier)
  \/ \E w \in Runner : pc[w] = "insert_nullifier" /\ Id(w) = id
MarksOK == \A id \in processed : id[2] \in DOMAIN events[id[1]] /\ Marked(id)

(* The inductive invariant. *)
CoverInv ==
  /\ IndexInv
  /\ Ordered /\ CursorsSaved
  /\ \A w \in Runner : RunSafe(w)
  /\ MarksOK
  /\ NothingBehindCursor

Covered(ns, i) == <<ns, i>> \in processed \/ InBatch(ns, i)

--------------------------------------------------------------------------------
(* Steps of one run. *)

Others(w) ==
  \A v \in Runner \ {w} :
    pc'[v] = pc[v] /\ at'[v] = at[v] /\ start'[v] = start[v] /\ batch'[v] = batch[v]

(* A run's step is its own. *)
LEMMA OthersStay ==
  ASSUME TypeOK, NEW w \in Runner, Work(w)
  PROVE  Others(w)
  <1>1. RunsTyped
    BY TypeHalves
  <1>2. ASSUME NEW ns \in Namespace, BeginPoll(w, ns), batch' = batch \/ batch' = [batch EXCEPT ![w] = <<>>]
        PROVE  Others(w)
    BY <1>1, <1>2 DEF RunsTyped, BeginPoll, Goto, Others
  <1>3. CASE PollAll(w)
    BY <1>2, <1>3 DEF PollAll, Namespace
  <1>4. ASSUME EndPipeline(w) PROVE Others(w)
    <2>1. CASE at[w] = "retirement"
      BY <1>2, <1>4, <2>1 DEF EndPipeline, Namespace
    <2>2. CASE at[w] # "retirement"
      BY <1>1, <1>4, <2>2 DEF RunsTyped, EndPipeline, Goto, Others
    <2>3. QED
      BY <2>1, <2>2
  <1>5. CASE LoadCursor(w)
    BY <1>1, <1>5 DEF RunsTyped, LoadCursor, Goto, Others
  <1>6. CASE GetEvents(w)
    BY <1>1, <1>6 DEF RunsTyped, GetEvents, Goto, Others
  <1>7. CASE Response(w)
    <2>1. CASE Goto(w, "handle") /\ UNCHANGED <<at, start, batch, armed>>
      BY <1>1, <2>1 DEF RunsTyped, Goto, Others
    <2>2. QED
      BY <1>4, <1>7, <2>1 DEF Response
  <1>8. ASSUME Handled(w), UNCHANGED <<at, start>> PROVE Others(w)
    BY <1>1, <1>8 DEF RunsTyped, Handled, Goto, Others
  <1>9. ASSUME NEW p, Goto(w, p), UNCHANGED <<at, start, batch>> PROVE Others(w)
    BY <1>1, <1>9 DEF RunsTyped, Goto, Others
  <1>10. CASE Mark(w)
    BY <1>8, <1>9, <1>10 DEF Mark
  <1>11. CASE InsertNullifier(w)
    BY <1>8, <1>9, <1>11 DEF InsertNullifier
  <1>12. CASE InsertCertificate(w)
    BY <1>8, <1>12 DEF InsertCertificate
  <1>13. CASE EndOfPage(w)
    BY <1>4, <1>13 DEF EndOfPage
  <1>14. QED
    BY <1>3, <1>5, <1>6, <1>7, <1>10, <1>11, <1>12, <1>13 DEF Work

(* A published event is of a ledger. *)
LEMMA LedgerTyped ==
  ASSUME TypeOK, NEW ns \in Namespace, NEW i \in DOMAIN events[ns]
  PROVE  events[ns][i].ledger \in 1..MaxLedger /\ i \in Nat
  <1>1. events[ns] \in Seq([ledger : 1..MaxLedger, nullifier : Nullifier])
    BY DEF TypeOK
  <1>2. events[ns][i] \in [ledger : 1..MaxLedger, nullifier : Nullifier]
    BY <1>1, ElementTyped
  <1>3. QED
    BY <1>1, <1>2

(* The other runs stay safe: saved cursors only advance. *)
LEMMA OthersSafe ==
  ASSUME CoverInv, NEW w \in Runner, Others(w), events' = events,
         TypeOK', \A ns \in Namespace : lastLedger'[ns] >= lastLedger[ns],
         NEW v \in Runner, v # w
  PROVE  RunSafe(v)'
  <1>1. RunsTyped /\ RestTyped /\ RestTyped'
    BY TypeHalves DEF CoverInv, IndexInv
  <1>2. PICK ns \in Namespace, c \in Nat : ns = at[v] /\ c = start[v]
    BY <1>1, IndexerAssumption DEF RunsTyped
  <1>3. pc'[v] = pc[v] /\ at'[v] = ns /\ start'[v] = c /\ batch'[v] = batch[v]
    BY <1>2 DEF Others
  <1>4. lastLedger[ns] \in Nat /\ lastLedger'[ns] \in Nat /\ lastLedger'[ns] >= lastLedger[ns]
    BY <1>1, IndexerAssumption DEF RestTyped
  <1>5. ASSUME NEW i \in DOMAIN events[ns] PROVE events[ns][i].ledger \in Nat
    BY LedgerTyped, IndexerAssumption DEF CoverInv, IndexInv
  <1>6. pc[v] = "request" => c <= 1 \/ c <= lastLedger[ns]
    BY <1>2 DEF CoverInv, RunSafe
  <1>7. pc[v] = "request" => c <= 1 \/ c <= lastLedger'[ns]
    BY <1>4, <1>6
  <1>8. pc[v] = "response" /\ batch[v] # <<>> =>
          /\ \A k \in DOMAIN batch[v] : batch[v][k] = batch[v][1] + k - 1
          /\ \A i \in DOMAIN events[ns] : i < batch[v][1] => events[ns][i].ledger < lastLedger[ns]
    BY <1>2 DEF CoverInv, RunSafe
  <1>9. ASSUME NEW i \in DOMAIN events[ns], events[ns][i].ledger < lastLedger[ns]
        PROVE  events[ns][i].ledger < lastLedger'[ns]
    BY <1>4, <1>5, <1>9
  <1>10. QED
    BY <1>3, <1>7, <1>8, <1>9 DEF RunSafe

(* What is covered stays covered, if the run that moves keeps its page or  *)
(* has marked what it drops.                                               *)
LEMMA StaysCovered ==
  ASSUME TypeOK, NEW w \in Runner, Others(w), processed \subseteq processed',
         \A k \in DOMAIN batch[w] :
           \/ pc[w] = "response"
           \/ <<at[w], batch[w][k]>> \in processed'
           \/ /\ pc'[w] # "response" /\ at'[w] = at[w]
              /\ \E l \in DOMAIN batch'[w] : batch'[w][l] = batch[w][k],
         NEW ns \in Namespace, NEW i, Covered(ns, i)
  PROVE  Covered(ns, i)'
  <1>1. CASE <<ns, i>> \in processed
    BY <1>1 DEF Covered
  <1>2. CASE InBatch(ns, i)
    <2>1. PICK v \in Runner : at[v] = ns /\ pc[v] # "response" /\ \E k \in DOMAIN batch[v] : batch[v][k] = i
      BY <1>2 DEF InBatch
    <2>2. CASE v # w
      <3>1. pc'[v] = pc[v] /\ at'[v] = at[v] /\ batch'[v] = batch[v]
        BY <2>2 DEF Others
      <3>2. QED
        BY <2>1, <3>1 DEF Covered, InBatch
    <2>3. CASE v = w
      BY <2>1, <2>3 DEF Covered, InBatch
    <2>4. QED
      BY <2>2, <2>3
  <1>3. QED
    BY <1>1, <1>2 DEF Covered

(* Marks stay good where a step neither marks nor stores. *)
LEMMA MarksStay ==
  ASSUME MarksOK, NEW w \in Runner, Others(w), pc[w] # "insert_nullifier",
         events' = events, processed' = processed, nullifiers' = nullifiers
  PROVE  MarksOK'
  <1>1. SUFFICES ASSUME NEW id \in processed PROVE Marked(id)'
    BY DEF MarksOK
  <1>2. CASE Indexed(events[id[1]][id[2]].nullifier)
    BY <1>2 DEF Marked, Indexed
  <1>3. ASSUME NEW v \in Runner, pc[v] = "insert_nullifier", Id(v) = id PROVE Marked(id)'
    <2>1. pc'[v] = pc[v] /\ Id(v)' = Id(v)
      BY <1>3 DEF Others, Id
    <2>2. QED
      BY <1>3, <2>1 DEF Marked
  <1>4. QED
    BY <1>2, <1>3 DEF MarksOK, Marked

(* A step that saves no cursor keeps the invariant, if its run is safe and *)
(* drops no event that is not marked.                                      *)
LEMMA RunStepKeeps ==
  ASSUME CoverInv, IndexInv', NEW w \in Runner, Others(w), UNCHANGED <<ledgerVars, lastLedger>>,
         processed \subseteq processed', CursorsSaved', RunSafe(w)', MarksOK',
         \A k \in DOMAIN batch[w] :
           \/ pc[w] = "response"
           \/ <<at[w], batch[w][k]>> \in processed'
           \/ /\ pc'[w] # "response" /\ at'[w] = at[w]
              /\ \E l \in DOMAIN batch'[w] : batch'[w][l] = batch[w][k]
  PROVE  CoverInv'
  <1>1. RestTyped /\ TypeOK
    BY TypeHalves DEF CoverInv, IndexInv
  <1>2. Ordered'
    BY DEF CoverInv, Ordered, ledgerVars
  <1>3. \A ns \in Namespace : lastLedger'[ns] >= lastLedger[ns]
    BY <1>1, IndexerAssumption DEF RestTyped
  <1>4. \A v \in Runner : RunSafe(v)'
    BY <1>3, OthersSafe DEF IndexInv, ledgerVars
  <1>5. NothingBehindCursor'
    <2>1. SUFFICES ASSUME NEW ns \in Namespace, NEW i \in DOMAIN events[ns],
                          events[ns][i].ledger < lastLedger[ns]
          PROVE  Covered(ns, i)'
      BY DEF NothingBehindCursor, Covered, ledgerVars
    <2>2. Covered(ns, i)
      BY <2>1 DEF CoverInv, NothingBehindCursor, Covered
    <2>3. QED
      BY <1>1, <2>2, StaysCovered
  <1>6. QED
    BY <1>2, <1>4, <1>5 DEF CoverInv

(* A poll that begins at its request asks from the saved cursor on. *)
LEMMA PollSafe ==
  ASSUME CoverInv, NEW w \in Runner, NEW ns \in Namespace, BeginPoll(w, ns), lastLedger' = lastLedger
  PROVE  RunSafe(w)' /\ pc'[w] \in {"load", "request"} /\ at'[w] = ns
  <1>1. RunsTyped /\ RestTyped
    BY TypeHalves DEF CoverInv, IndexInv
  <1>2. at'[w] = ns
    BY <1>1 DEF BeginPoll, RunsTyped
  <1>3. CASE loaded[ns]
    <2>1. pc'[w] = "request" /\ start'[w] = StartLedger(cursor[ns])
      BY <1>1, <1>3 DEF BeginPoll, Goto, RunsTyped
    <2>2. cursor[ns] = lastLedger[ns] /\ cursor[ns] \in Nat
      BY <1>1, <1>3, IndexerAssumption DEF CoverInv, CursorsSaved, RestTyped
    <2>3. StartLedger(cursor[ns]) <= 1 \/ StartLedger(cursor[ns]) <= lastLedger[ns]
      BY <2>2 DEF StartLedger
    <2>4. QED
      BY <1>2, <2>1, <2>3 DEF RunSafe
  <1>4. CASE ~loaded[ns]
    <2>1. pc'[w] = "load"
      BY <1>1, <1>4 DEF BeginPoll, Goto, RunsTyped
    <2>2. QED
      BY <1>2, <2>1 DEF RunSafe
  <1>5. QED
    BY <1>3, <1>4

--------------------------------------------------------------------------------
(* Steps. *)

(* The start of a run keeps the coverage. *)
LEMMA PollAllCovers ==
  ASSUME CoverInv, IndexInv', NEW w \in Runner, PollAll(w), Others(w)
  PROVE  CoverInv'
  <1>1. batch[w] = <<>> /\ pc[w] # "insert_nullifier"
    BY DEF PollAll, CoverInv, IndexInv, RunsOK
  <1>2. RunSafe(w)'
    BY PollSafe DEF PollAll, Namespace, dbVars
  <1>3. MarksOK'
    BY <1>1, MarksStay DEF PollAll, CoverInv, ledgerVars, dbVars
  <1>4. CursorsSaved'
    BY DEF PollAll, CoverInv, CursorsSaved, ledgerVars, memoryVars, dbVars
  <1>5. QED
    BY <1>1, <1>2, <1>3, <1>4, RunStepKeeps DEF PollAll, dbVars

(* The end of a page keeps the coverage. *)
LEMMA EndOfPageCovers ==
  ASSUME CoverInv, IndexInv', NEW w \in Runner, EndOfPage(w), Others(w)
  PROVE  CoverInv'
  <1>1. batch[w] = <<>> /\ pc[w] # "insert_nullifier"
    BY DEF EndOfPage
  <1>2. RunSafe(w)'
    <2>1. CASE at[w] = "retirement"
      BY <2>1, PollSafe DEF EndOfPage, EndPipeline, Namespace, dbVars
    <2>2. CASE at[w] # "retirement"
      <3>1. pc'[w] = "idle"
        BY <2>2, TypeHalves DEF EndOfPage, EndPipeline, Goto, CoverInv, IndexInv, RunsTyped
      <3>2. QED
        BY <3>1 DEF RunSafe
    <2>3. QED
      BY <2>1, <2>2
  <1>3. MarksOK'
    BY <1>1, MarksStay DEF EndOfPage, CoverInv, ledgerVars, dbVars
  <1>4. CursorsSaved'
    BY DEF EndOfPage, CoverInv, CursorsSaved, ledgerVars, dbVars
  <1>5. QED
    BY <1>1, <1>2, <1>3, <1>4, RunStepKeeps DEF EndOfPage, dbVars

(* Reading the cursor keeps the coverage. *)
LEMMA LoadCursorCovers ==
  ASSUME CoverInv, IndexInv', NEW w \in Runner, LoadCursor(w), Others(w)
  PROVE  CoverInv'
  <1>1. RunsTyped /\ RestTyped
    BY TypeHalves DEF CoverInv, IndexInv
  <1>2. PICK ns \in Namespace, saved \in Nat : ns = at[w] /\ saved = lastLedger[ns]
    BY <1>1, IndexerAssumption DEF RunsTyped, RestTyped
  <1>3. connected
    BY DEF CoverInv, CursorsSaved
  <1>4. /\ cursor' = [cursor EXCEPT ![ns] = saved] /\ loaded' = [loaded EXCEPT ![ns] = TRUE]
        /\ start'[w] = StartLedger(saved) /\ pc'[w] = "request" /\ at'[w] = ns
    BY <1>1, <1>2, <1>3 DEF LoadCursor, Goto, RunsTyped
  <1>5. batch[w] = <<>> /\ pc[w] # "insert_nullifier"
    BY DEF LoadCursor, CoverInv, IndexInv, RunsOK
  <1>6. RunSafe(w)'
    <2>1. StartLedger(saved) <= 1 \/ StartLedger(saved) <= saved
      BY DEF StartLedger
    <2>2. lastLedger' = lastLedger
      BY DEF LoadCursor, dbVars
    <2>3. QED
      BY <1>2, <1>4, <2>1, <2>2 DEF RunSafe
  <1>7. CursorsSaved'
    <2>1. ASSUME NEW m \in Namespace, loaded'[m] PROVE cursor'[m] = lastLedger[m]
      BY <1>1, <1>2, <1>4, <2>1 DEF CoverInv, CursorsSaved, RestTyped
    <2>2. QED
      BY <2>1 DEF LoadCursor, CoverInv, CursorsSaved, ledgerVars, dbVars
  <1>8. MarksOK'
    BY <1>5, MarksStay DEF LoadCursor, CoverInv, ledgerVars, dbVars
  <1>9. QED
    BY <1>5, <1>6, <1>7, <1>8, RunStepKeeps DEF LoadCursor, dbVars

(* A page on its way begins at the first event not behind the cursor, or   *)
(* before it.                                                              *)
LEMMA GetEventsCovers ==
  ASSUME CoverInv, IndexInv', NEW w \in Runner, GetEvents(w), Others(w)
  PROVE  CoverInv'
  <1>1. RunsTyped /\ RestTyped /\ TypeOK
    BY TypeHalves DEF CoverInv, IndexInv
  <1>2. PICK ns \in Namespace, from \in Nat : ns = at[w] /\ from = start[w]
    BY <1>1, IndexerAssumption DEF RunsTyped
  <1>3. PICK page : page = Page(ns, from)
    OBVIOUS
  <1>4. pc'[w] = "response" /\ at'[w] = ns /\ batch'[w] = page
    BY <1>1, <1>2, <1>3 DEF GetEvents, Goto, RunsTyped
  <1>5. batch[w] = <<>> /\ pc[w] # "insert_nullifier"
    BY DEF GetEvents, CoverInv, IndexInv, RunsOK
  <1>6. from <= 1 \/ from <= lastLedger[ns]
    BY <1>2 DEF GetEvents, CoverInv, RunSafe
  <1>7. ASSUME page # <<>>
        PROVE  /\ \A k \in DOMAIN page : page[k] = page[1] + k - 1
               /\ \A i \in DOMAIN events[ns] : i < page[1] => events[ns][i].ledger < lastLedger[ns]
    <2>1. /\ page \in Seq(EventIndex) /\ events[ns][page[1]].ledger < now
          /\ \A k \in DOMAIN page : page[k] \in DOMAIN events[ns] /\ page[k] = page[1] + k - 1
          /\ \A i \in DOMAIN events[ns] :
               i < page[1] => events[ns][i].ledger < from \/ events[ns][i].ledger >= now
      BY <1>1, <1>3, <1>7, PageIsRun
    <2>2. 1 \in DOMAIN page
      BY <1>7, <2>1
    <2>3. ASSUME NEW i \in DOMAIN events[ns], i < page[1] PROVE events[ns][i].ledger < lastLedger[ns]
      <3>1. i \in Nat /\ page[1] \in Nat /\ page[1] \in DOMAIN events[ns]
        BY <1>1, <2>1, <2>2 DEF RestTyped
      <3>2. events[ns][i].ledger \in 1..MaxLedger /\ events[ns][page[1]].ledger \in 1..MaxLedger
        BY <1>1, <3>1, LedgerTyped
      <3>3. events[ns][i].ledger <= events[ns][page[1]].ledger
        BY <2>3, <3>1 DEF CoverInv, Ordered
      <3>4. now \in Nat /\ lastLedger[ns] \in Nat /\ MaxLedger \in Nat
        BY <1>1, IndexerAssumption DEF RestTyped
      <3>5. events[ns][i].ledger < from
        BY <2>1, <2>3, <3>2, <3>3, <3>4
      <3>6. QED
        BY <1>6, <3>2, <3>4, <3>5
    <2>4. QED
      BY <2>1, <2>3
  <1>8. RunSafe(w)'
    BY <1>4, <1>7 DEF RunSafe, GetEvents, ledgerVars, dbVars
  <1>9. CursorsSaved'
    BY DEF GetEvents, CoverInv, CursorsSaved, ledgerVars, memoryVars, dbVars
  <1>10. MarksOK'
    BY <1>5, MarksStay DEF GetEvents, CoverInv, ledgerVars, dbVars
  <1>11. QED
    BY <1>5, <1>8, <1>9, <1>10, RunStepKeeps DEF GetEvents, dbVars

(* When a page arrives, its events are at hand, those before it are        *)
(* covered, and the cursor goes no further than its last.                  *)
LEMMA ResponseCovers ==
  ASSUME Quiet, CoverInv, Keeps, NEW w \in Runner, Response(w), Others(w)
  PROVE  CoverInv'
  <1>1. RunsTyped /\ RestTyped /\ TypeOK /\ TypeOK'
    BY TypeHalves DEF CoverInv, IndexInv, Keeps
  <1>2. PICK ns \in Namespace, page \in Seq(EventIndex), moved \in Nat :
             ns = at[w] /\ page = batch[w] /\ moved = Moved(w)
    BY <1>1, CursorMoves, IndexerAssumption DEF RunsTyped, CoverInv
  <1>3. /\ connected /\ connected' /\ pc[w] = "response" /\ loaded[ns]
        /\ events' = events /\ now' = now /\ loaded' = loaded
        /\ processed' = processed /\ nullifiers' = nullifiers
    BY <1>2 DEF Response, CoverInv, CursorsSaved, IndexInv, RunsOK, ledgerVars
  <1>4. /\ Goto(w, "handle") /\ UNCHANGED <<at, start, batch>>
        /\ cursor' = [cursor EXCEPT ![ns] = moved]
        /\ lastLedger' = IF moved > 0 THEN [lastLedger EXCEPT ![ns] = moved] ELSE lastLedger
    BY <1>2, <1>3 DEF Quiet, Response
  <1>5. pc'[w] = "handle" /\ at'[w] = ns /\ batch'[w] = page
    BY <1>1, <1>2, <1>4 DEF Goto, RunsTyped
  <1>6. cursor[ns] = lastLedger[ns] /\ lastLedger[ns] \in Nat /\ now \in Nat /\ lastLedger[ns] <= now
    BY <1>1, <1>3, IndexerAssumption DEF CoverInv, CursorsSaved, RestTyped
  <1>7. lastLedger'[ns] = moved /\ \A m \in Namespace \ {ns} : lastLedger'[m] = lastLedger[m]
    <2>1. moved >= lastLedger[ns]
      BY <1>2, <1>6, CursorMoves DEF CoverInv
    <2>2. CASE moved > 0
      BY <1>1, <1>4, <2>2 DEF RestTyped
    <2>3. CASE ~(moved > 0)
      BY <1>2, <1>4, <1>6, <2>1, <2>3
    <2>4. QED
      BY <2>2, <2>3
  <1>8. CASE page = <<>>
    <2>1. moved = lastLedger[ns]
      BY <1>2, <1>6, <1>8 DEF Moved, LastOfPage
    <2>2. \A m \in Namespace : lastLedger'[m] = lastLedger[m]
      BY <1>7, <2>1
    <2>3. lastLedger' = lastLedger
      BY <1>1, <2>2 DEF TypeOK
    <2>4. CursorsSaved'
      <3>1. ASSUME NEW m \in Namespace, loaded[m] PROVE cursor'[m] = lastLedger[m]
        BY <1>1, <1>4, <1>6, <2>1, <3>1 DEF CoverInv, CursorsSaved, RestTyped
      <3>2. QED
        BY <1>3, <2>3, <3>1 DEF CoverInv, CursorsSaved
    <2>5. RunSafe(w)'
      BY <1>5 DEF RunSafe
    <2>6. MarksOK'
      BY <1>3, MarksStay DEF CoverInv
    <2>7. QED
      BY <1>3, <2>3, <2>4, <2>5, <2>6, RunStepKeeps DEF Keeps, ledgerVars
  <1>9. CASE page # <<>>
    <2>1. PICK last \in DOMAIN events[ns], n \in Nat :
               n = Len(page) /\ DOMAIN page = 1..n /\ n >= 1 /\ last = page[n]
      <3>1. PICK n \in Nat : n = Len(page) /\ DOMAIN page = 1..n /\ n >= 1
        BY <1>9
      <3>2. page[n] \in DOMAIN events[ns]
        BY <1>2, <3>1 DEF CoverInv, IndexInv, RunsOK
      <3>3. QED
        BY <3>1, <3>2
    <2>2. LastOfPage(w) = events[ns][last].ledger
      BY <1>2, <1>9, <2>1 DEF LastOfPage
    <2>3. events[ns][last].ledger \in Nat /\ last \in Nat /\ events[ns][last].ledger <= now
      BY <1>1, LedgerTyped, IndexerAssumption DEF CoverInv, Ordered
    <2>4. moved = IF events[ns][last].ledger > lastLedger[ns] THEN events[ns][last].ledger ELSE lastLedger[ns]
      BY <1>2, <1>6, <2>2 DEF Moved
    <2>5. moved <= now
      BY <1>6, <2>3, <2>4
    <2>6. CursorsSaved'
      <3>1. ASSUME NEW m \in Namespace, loaded[m] PROVE cursor'[m] = lastLedger'[m]
        <4>1. CASE m = ns
          BY <1>1, <1>4, <1>7, <4>1 DEF RestTyped
        <4>2. CASE m # ns
          BY <1>1, <1>4, <1>7, <3>1, <4>2 DEF CoverInv, CursorsSaved, RestTyped
        <4>3. QED
          BY <4>1, <4>2
      <3>2. ASSUME NEW m \in Namespace PROVE lastLedger'[m] <= now
        BY <1>7, <2>5 DEF CoverInv, CursorsSaved
      <3>3. QED
        BY <1>3, <3>1, <3>2 DEF CursorsSaved
    <2>7. ASSUME NEW v \in Runner PROVE RunSafe(v)'
      <3>1. CASE v = w
        BY <1>5, <3>1 DEF RunSafe
      <3>2. CASE v # w
        BY <1>1, <1>3, <3>2, OthersSafe DEF Keeps
      <3>3. QED
        BY <3>1, <3>2
    <2>8. MarksOK'
      BY <1>3, MarksStay DEF CoverInv
    <2>9. Ordered'
      BY <1>3 DEF CoverInv, Ordered
    <2>10. NothingBehindCursor'
      <3>1. SUFFICES ASSUME NEW m \in Namespace, NEW i \in DOMAIN events[m],
                            events[m][i].ledger < lastLedger'[m]
            PROVE  Covered(m, i)'
        BY <1>3 DEF NothingBehindCursor, Covered
      <3>2. ASSUME events[m][i].ledger < lastLedger[m] PROVE Covered(m, i)'
        <4>1. Covered(m, i)
          BY <3>2 DEF CoverInv, NothingBehindCursor, Covered
        <4>2. QED
          BY <1>1, <1>3, <4>1, StaysCovered
      <3>3. CASE ~(events[m][i].ledger < lastLedger[m])
        <4>1. m = ns
          BY <1>7, <3>1, <3>3
        <4>2. events[ns][i].ledger \in Nat /\ i \in Nat
          BY <1>1, <4>1, LedgerTyped, IndexerAssumption
        <4>3. events[ns][i].ledger < events[ns][last].ledger
          BY <1>6, <1>7, <2>3, <2>4, <3>1, <3>3, <4>1, <4>2
        <4>4. ~(last <= i)
          BY <2>3, <4>1, <4>2, <4>3 DEF CoverInv, Ordered
        <4>5. /\ \A k \in 1..n : page[k] = page[1] + k - 1
              /\ i < page[1] => events[ns][i].ledger < lastLedger[ns]
          BY <1>2, <1>3, <1>9, <2>1, <4>1 DEF CoverInv, RunSafe
        <4>6. page[1] \in Nat
          BY <2>1 DEF EventIndex
        <4>7. i >= page[1]
          BY <3>3, <4>1, <4>2, <4>5, <4>6
        <4>8. i + 1 - page[1] \in 1..n
          <5>1. last = page[1] + n - 1
            BY <2>1, <4>5
          <5>2. QED
            BY <2>1, <2>3, <4>2, <4>4, <4>6, <4>7, <5>1
        <4>9. page[i + 1 - page[1]] = i
          BY <4>2, <4>5, <4>6, <4>8
        <4>10. InBatch(ns, i)'
          BY <1>5, <2>1, <4>8, <4>9 DEF InBatch
        <4>11. QED
          BY <4>1, <4>10 DEF Covered
      <3>4. QED
        BY <3>2, <3>3
    <2>11. QED
      BY <2>6, <2>7, <2>8, <2>9, <2>10 DEF CoverInv, Keeps
  <1>10. QED
    BY <1>8, <1>9

(* An event that is dropped from a page was marked. *)
LEMMA HandledDrops ==
  ASSUME CoverInv, NEW w \in Runner, Handled(w), UNCHANGED <<at, start>>, batch[w] # <<>>,
         Id(w) \in processed'
  PROVE  /\ RunSafe(w)'
         /\ \A k \in DOMAIN batch[w] :
              \/ <<at[w], batch[w][k]>> \in processed'
              \/ /\ pc'[w] # "response" /\ at'[w] = at[w]
                 /\ \E l \in DOMAIN batch'[w] : batch'[w][l] = batch[w][k]
  <1>1. RunsTyped
    BY TypeHalves DEF CoverInv, IndexInv
  <1>2. PICK page \in Seq(EventIndex) : page = batch[w] /\ page # <<>>
    BY <1>1 DEF RunsTyped
  <1>3. pc'[w] = "handle" /\ at'[w] = at[w] /\ batch'[w] = Tail(page)
    BY <1>1, <1>2 DEF Handled, Goto, RunsTyped
  <1>4. ASSUME NEW k \in DOMAIN page, k # 1
        PROVE  \E l \in DOMAIN Tail(page) : Tail(page)[l] = page[k]
    <2>1. k - 1 \in DOMAIN Tail(page) /\ Tail(page)[k - 1] = page[k]
      BY <1>2, <1>4
    <2>2. QED
      BY <2>1
  <1>5. <<at[w], page[1]>> \in processed'
    BY <1>2, TailOf DEF Id
  <1>6. QED
    BY <1>2, <1>3, <1>4, <1>5 DEF RunSafe

(* Marking an event keeps the coverage. *)
LEMMA MarkCovers ==
  ASSUME Quiet, CoverInv, IndexInv', NEW w \in Runner, Mark(w), Others(w)
  PROVE  CoverInv'
  <1>1. RunsTyped /\ RestTyped
    BY TypeHalves DEF CoverInv, IndexInv
  <1>2. /\ connected /\ pc[w] = "handle" /\ batch[w] # <<>>
        /\ UNCHANGED <<ledgerVars, lastLedger, nullifiers, at, start>>
    BY DEF Mark, CoverInv, CursorsSaved
  <1>3. CursorsSaved'
    BY DEF Mark, CoverInv, CursorsSaved, ledgerVars, memoryVars
  <1>4. CASE Id(w) \in processed
    <2>1. Handled(w) /\ processed' = processed
      BY <1>2, <1>4 DEF Quiet, Mark
    <2>2. MarksOK'
      BY <1>2, <2>1, MarksStay DEF CoverInv, ledgerVars
    <2>3. QED
      BY <1>2, <1>3, <1>4, <2>1, <2>2, HandledDrops, RunStepKeeps
  <1>5. CASE Id(w) \notin processed
    <2>1. /\ processed' = processed \cup {Id(w)}
          /\ Goto(w, "insert_nullifier") /\ batch' = batch
      BY <1>2, <1>5 DEF Quiet, Mark
    <2>2. pc'[w] = "insert_nullifier" /\ at'[w] = at[w] /\ batch'[w] = batch[w] /\ Id(w)' = Id(w)
      BY <1>1, <1>2, <2>1 DEF Goto, RunsTyped, Id
    <2>3. RunSafe(w)'
      BY <2>2 DEF RunSafe
    <2>4. MarksOK'
      <3>1. SUFFICES ASSUME NEW id \in processed' PROVE (id[2] \in DOMAIN events[id[1]] /\ Marked(id))'
        BY DEF MarksOK
      <3>2. CASE id = Id(w)
        <4>1. Head(batch[w]) \in DOMAIN events[at[w]]
          BY <1>1, <1>2, TailOf DEF CoverInv, IndexInv, RunsOK, RunsTyped
        <4>2. id[1] = at[w] /\ id[2] = Head(batch[w])
          BY <3>2 DEF Id
        <4>3. QED
          BY <1>2, <2>2, <3>2, <4>1, <4>2 DEF Marked, ledgerVars
      <3>3. CASE id # Id(w)
        <4>1. id \in processed /\ id[2] \in DOMAIN events[id[1]] /\ Marked(id)
          BY <2>1, <3>3 DEF CoverInv, MarksOK
        <4>2. ASSUME NEW v \in Runner, pc[v] = "insert_nullifier", Id(v) = id
              PROVE  pc'[v] = "insert_nullifier" /\ Id(v)' = id
          BY <1>2, <4>2 DEF Others, Id
        <4>3. QED
          BY <1>2, <4>1, <4>2 DEF Marked, Indexed, ledgerVars
      <3>4. QED
        BY <3>2, <3>3
    <2>5. QED
      BY <1>2, <1>3, <2>1, <2>2, <2>3, <2>4, RunStepKeeps
  <1>6. QED
    BY <1>4, <1>5

(* The nullifier of the event at hand is stored, whoever stored it. *)
LEMMA InsertNullifierCovers ==
  ASSUME CoverInv, IndexInv', NEW w \in Runner, InsertNullifier(w), Others(w)
  PROVE  CoverInv'
  <1>1. RunsTyped /\ RestTyped
    BY TypeHalves DEF CoverInv, IndexInv
  <1>2. /\ connected /\ pc[w] = "insert_nullifier" /\ batch[w] # <<>> /\ Id(w) \in processed
        /\ UNCHANGED <<ledgerVars, lastLedger, processed, at, start>>
    BY DEF InsertNullifier, CoverInv, CursorsSaved, IndexInv, RunsOK, InsertPlace
  <1>3. CursorsSaved'
    BY DEF InsertNullifier, CoverInv, CursorsSaved, ledgerVars, memoryVars
  <1>4. nullifiers \subseteq nullifiers' /\ \E x \in nullifiers' : x.nullifier = EventOf(w).nullifier
    <2>1. PICK n, x : n = EventOf(w).nullifier /\ x = [nullifier |-> n, corridor |-> CorridorOf(w)]
      OBVIOUS
    <2>2. nullifiers' = IF Indexed(n) THEN nullifiers ELSE nullifiers \cup {x}
      BY <1>2, <2>1 DEF InsertNullifier, Stored
    <2>3. CASE Indexed(n)
      BY <2>1, <2>2, <2>3 DEF Indexed
    <2>4. CASE ~Indexed(n)
      <3>1. x \in nullifiers' /\ x.nullifier = n
        BY <2>1, <2>2, <2>4
      <3>2. QED
        BY <2>1, <2>2, <2>4, <3>1
    <2>5. QED
      BY <2>3, <2>4
  <1>5. MarksOK'
    <2>1. SUFFICES ASSUME NEW id \in processed PROVE Marked(id)' /\ id[2] \in DOMAIN events[id[1]]
      BY <1>2 DEF MarksOK, ledgerVars
    <2>2. id[2] \in DOMAIN events[id[1]] /\ Marked(id)
      BY DEF CoverInv, MarksOK
    <2>3. CASE id = Id(w)
      <3>1. events[id[1]][id[2]] = EventOf(w)
        BY <2>3 DEF Id, EventOf
      <3>2. QED
        BY <1>2, <1>4, <2>2, <3>1 DEF Marked, Indexed, ledgerVars
    <2>4. ASSUME NEW v \in Runner, pc[v] = "insert_nullifier", Id(v) = id, id # Id(w) PROVE Marked(id)'
      <3>1. pc'[v] = "insert_nullifier" /\ Id(v)' = id
        BY <2>4 DEF Others, Id
      <3>2. QED
        BY <3>1 DEF Marked
    <2>5. CASE Indexed(events[id[1]][id[2]].nullifier)
      BY <1>2, <1>4, <2>2, <2>5 DEF Marked, Indexed, ledgerVars
    <2>6. QED
      BY <2>2, <2>3, <2>4, <2>5 DEF Marked
  <1>6. CASE at[w] = "retirement"
    <2>1. Goto(w, "insert_certificate") /\ batch' = batch
      BY <1>6 DEF InsertNullifier
    <2>2. pc'[w] = "insert_certificate" /\ at'[w] = at[w] /\ batch'[w] = batch[w]
      BY <1>1, <1>2, <2>1 DEF Goto, RunsTyped
    <2>3. RunSafe(w)'
      BY <2>2 DEF RunSafe
    <2>4. QED
      BY <1>2, <1>3, <1>5, <2>2, <2>3, RunStepKeeps
  <1>7. CASE at[w] # "retirement"
    <2>1. Handled(w)
      BY <1>7 DEF InsertNullifier
    <2>2. QED
      BY <1>2, <1>3, <1>5, <2>1, HandledDrops, RunStepKeeps
  <1>8. QED
    BY <1>6, <1>7

(* The certificate's INSERT keeps the coverage. *)
LEMMA InsertCertificateCovers ==
  ASSUME CoverInv, IndexInv', NEW w \in Runner, InsertCertificate(w), Others(w)
  PROVE  CoverInv'
  <1>1. /\ pc[w] = "insert_certificate" /\ batch[w] # <<>> /\ Id(w) \in processed /\ Handled(w)
        /\ UNCHANGED <<ledgerVars, lastLedger, processed, nullifiers, at, start>>
    BY DEF InsertCertificate, CoverInv, CursorsSaved, IndexInv, RunsOK, InsertPlace
  <1>2. CursorsSaved'
    BY DEF InsertCertificate, CoverInv, CursorsSaved, ledgerVars, memoryVars
  <1>3. MarksOK'
    BY <1>1, MarksStay DEF CoverInv, ledgerVars
  <1>4. QED
    BY <1>1, <1>2, <1>3, HandledDrops, RunStepKeeps

(* New events come last and in the ledger being built, which no cursor has *)
(* passed.                                                                 *)
LEMMA PublishCovers ==
  ASSUME CoverInv, IndexInv', UNCHANGED <<memoryVars, runVars, dbVars>>, now' >= now,
         Ordered',
         \A ns \in Namespace : \A i \in DOMAIN events[ns] :
           i \in DOMAIN events'[ns] /\ events'[ns][i] = events[ns][i],
         \A ns \in Namespace : \A i \in DOMAIN events'[ns] \ DOMAIN events[ns] :
           /\ events'[ns][i].ledger = now
           /\ \A j \in DOMAIN events[ns] : j < i
  PROVE  CoverInv'
  <1>1. RunsTyped /\ RestTyped /\ RestTyped' /\ TypeOK
    BY TypeHalves DEF CoverInv, IndexInv
  <1>2. CursorsSaved'
    <2>1. \A ns \in Namespace : lastLedger[ns] \in Nat /\ lastLedger[ns] <= now
      BY <1>1, IndexerAssumption DEF CoverInv, CursorsSaved, RestTyped
    <2>2. now \in Nat /\ now' \in Nat
      BY <1>1, IndexerAssumption DEF RestTyped
    <2>3. \A ns \in Namespace : lastLedger[ns] <= now'
      BY <2>1, <2>2
    <2>4. QED
      BY <2>3 DEF CoverInv, CursorsSaved, memoryVars, dbVars
  <1>3. ASSUME NEW w \in Runner PROVE RunSafe(w)'
    <2>1. PICK ns \in Namespace, page \in Seq(EventIndex) : ns = at[w] /\ page = batch[w]
      BY <1>1 DEF RunsTyped
    <2>2. RunSafe(w)
      BY DEF CoverInv
    <2>3. ASSUME page # <<>>, NEW i \in DOMAIN events'[ns], i < page[1]
          PROVE  i \in DOMAIN events[ns] /\ events'[ns][i] = events[ns][i]
      <3>1. 1 \in DOMAIN page /\ page[1] \in DOMAIN events[ns]
        BY <2>1, <2>3 DEF CoverInv, IndexInv, RunsOK
      <3>2. CASE i \notin DOMAIN events[ns]
        <4>1. page[1] < i
          BY <2>3, <3>1, <3>2
        <4>2. page[1] \in Nat /\ i \in Nat
          <5>1. page[1] \in Nat
            BY <1>1, <3>1, LedgerTyped
          <5>2. events'[ns] \in Seq([ledger : 1..MaxLedger, nullifier : Nullifier])
            BY <1>1 DEF RestTyped
          <5>3. QED
            BY <2>3, <5>1, <5>2
        <4>3. QED
          BY <2>3, <4>1, <4>2
      <3>3. QED
        BY <3>2
    <2>4. pc'[w] = pc[w] /\ at'[w] = ns /\ batch'[w] = page /\ start'[w] = start[w] /\ lastLedger' = lastLedger
      BY <2>1 DEF runVars, dbVars
    <2>5. pc[w] = "request" => start[w] <= 1 \/ start[w] <= lastLedger[ns]
      BY <2>1, <2>2 DEF RunSafe
    <2>6. pc[w] = "response" /\ page # <<>> => \A k \in DOMAIN page : page[k] = page[1] + k - 1
      BY <2>1, <2>2 DEF RunSafe
    <2>7. pc[w] = "response" /\ page # <<>> =>
            \A i \in DOMAIN events[ns] : i < page[1] => events[ns][i].ledger < lastLedger[ns]
      BY <2>1, <2>2 DEF RunSafe
    <2>8. QED
      BY <2>3, <2>4, <2>5, <2>6, <2>7 DEF RunSafe
  <1>4. MarksOK'
    <2>1. \A id \in processed : id[1] \in Namespace
      BY <1>1 DEF RestTyped, EventId
    <2>2. QED
      BY <2>1 DEF CoverInv, MarksOK, Marked, Indexed, Id, runVars, dbVars
  <1>5. NothingBehindCursor'
    <2>1. SUFFICES ASSUME NEW ns \in Namespace, NEW i \in DOMAIN events'[ns],
                          events'[ns][i].ledger < lastLedger[ns]
          PROVE  Covered(ns, i)
      BY DEF NothingBehindCursor, Covered, InBatch, runVars, dbVars
    <2>2. CASE i \in DOMAIN events[ns]
      BY <2>1, <2>2 DEF CoverInv, NothingBehindCursor, Covered
    <2>3. CASE i \notin DOMAIN events[ns]
      <3>1. lastLedger[ns] \in Nat /\ now \in Nat /\ lastLedger[ns] <= now
        BY <1>1, IndexerAssumption DEF CoverInv, CursorsSaved, RestTyped
      <3>2. now < lastLedger[ns]
        BY <2>1, <2>3
      <3>3. QED
        BY <3>1, <3>2
    <2>4. QED
      BY <2>2, <2>3
  <1>6. QED
    BY <1>2, <1>3, <1>4, <1>5 DEF CoverInv

(* A sequence with one more element. *)
LEMMA AppendedIs ==
  ASSUME NEW S, NEW s \in Seq(S), NEW e \in S
  PROVE  /\ DOMAIN Append(s, e) = 1..(Len(s) + 1) /\ Append(s, e)[Len(s) + 1] = e
         /\ \A i \in 1..Len(s) : Append(s, e)[i] = s[i]
  OBVIOUS

(* A pipeline's events with one more. *)
LEMMA AppendOrdered ==
  ASSUME CoverInv, NEW ns \in Namespace, NEW n \in Nullifier, NEW s, s = Append1(ns, n)
  PROVE  /\ \A i \in DOMAIN events[ns] : i \in DOMAIN s /\ s[i] = events[ns][i]
         /\ \A i \in DOMAIN s \ DOMAIN events[ns] :
              s[i].ledger = now /\ \A j \in DOMAIN events[ns] : j < i
         /\ \A i \in DOMAIN s :
              s[i].ledger <= now /\ \A j \in DOMAIN s : i <= j => s[i].ledger <= s[j].ledger
  <1>1. TypeOK
    BY DEF CoverInv, IndexInv
  <1>2. PICK m \in Nat : Len(events[ns]) = m /\ DOMAIN events[ns] = 1..m
                         /\ events[ns] \in Seq([ledger : 1..MaxLedger, nullifier : Nullifier])
    <2>1. events[ns] \in Seq([ledger : 1..MaxLedger, nullifier : Nullifier])
      BY <1>1 DEF TypeOK
    <2>2. QED
      BY <2>1
  <1>3. /\ DOMAIN s = 1..(m + 1) /\ s[m + 1] = [ledger |-> now, nullifier |-> n]
        /\ \A i \in 1..m : s[i] = events[ns][i]
    <2>1. PICK e \in [ledger : 1..MaxLedger, nullifier : Nullifier] : e = [ledger |-> now, nullifier |-> n]
      BY <1>1 DEF TypeOK
    <2>2. s = Append(events[ns], e)
      BY <2>1 DEF Append1
    <2>3. QED
      BY <1>2, <2>1, <2>2, AppendedIs
  <1>4. \A i \in 1..m : s[i].ledger \in Nat /\ s[i].ledger <= now
    <2>1. ASSUME NEW i \in 1..m PROVE s[i].ledger \in Nat /\ s[i].ledger <= now
      <3>1. i \in DOMAIN events[ns] /\ s[i] = events[ns][i]
        BY <1>2, <1>3
      <3>2. events[ns][i].ledger \in Nat
        BY <1>1, <3>1, LedgerTyped, IndexerAssumption
      <3>3. events[ns][i].ledger <= now
        BY <3>1 DEF CoverInv, Ordered
      <3>4. QED
        BY <3>1, <3>2, <3>3
    <2>2. QED
      BY <2>1
  <1>5. s[m + 1].ledger = now /\ now \in Nat
    BY <1>1, <1>3, IndexerAssumption DEF TypeOK
  <1>6. ASSUME NEW i \in 1..(m + 1), NEW j \in 1..(m + 1), i <= j
        PROVE  s[i].ledger <= now /\ s[i].ledger <= s[j].ledger
    <2>1. CASE j = m + 1
      <3>1. i = m + 1 \/ i \in 1..m
        BY <1>2
      <3>2. QED
        BY <1>4, <1>5, <2>1, <3>1
    <2>2. CASE j \in 1..m
      <3>1. i \in 1..m
        BY <1>6, <2>2
      <3>2. events[ns][i].ledger <= events[ns][j].ledger
        BY <1>2, <1>6, <2>2, <3>1 DEF CoverInv, Ordered
      <3>3. QED
        BY <1>3, <1>4, <2>2, <3>1, <3>2
    <2>3. QED
      BY <1>2, <2>1, <2>2
  <1>7. \A i \in DOMAIN s \ DOMAIN events[ns] : i = m + 1
    BY <1>2, <1>3
  <1>8. QED
    BY <1>2, <1>3, <1>5, <1>6, <1>7

(* A retirement's events, published together, keep the coverage. *)
LEMMA PublishRetirementCovers ==
  ASSUME CoverInv, IndexInv', NEW n \in Nullifier, PublishRetirement(n)
  PROVE  CoverInv'
  <1>1. now' = now /\ \A ns \in Namespace : events'[ns] = Append1(ns, n)
    BY DEF PublishRetirement
  <1>2. \A ns \in Namespace :
          /\ \A i \in DOMAIN events[ns] : i \in DOMAIN events'[ns] /\ events'[ns][i] = events[ns][i]
          /\ \A i \in DOMAIN events'[ns] \ DOMAIN events[ns] :
               events'[ns][i].ledger = now /\ \A j \in DOMAIN events[ns] : j < i
          /\ \A i \in DOMAIN events'[ns] :
               /\ events'[ns][i].ledger <= now
               /\ \A j \in DOMAIN events'[ns] : i <= j => events'[ns][i].ledger <= events'[ns][j].ledger
    BY <1>1, AppendOrdered
  <1>3. Ordered'
    BY <1>1, <1>2 DEF Ordered
  <1>4. now' >= now
    BY <1>1, IndexerAssumption DEF CoverInv, IndexInv, TypeOK
  <1>5. QED
    BY <1>2, <1>3, <1>4, PublishCovers DEF PublishRetirement

(* A lone nullified event keeps the coverage. *)
LEMMA PublishNullifierCovers ==
  ASSUME CoverInv, IndexInv', NEW n \in Nullifier, PublishNullifier(n)
  PROVE  CoverInv'
  <1>1. PICK s : s = Append1("nullifier", n)
    OBVIOUS
  <1>2. now' = now /\ events' = [events EXCEPT !["nullifier"] = s] /\ "nullifier" \in Namespace
    BY <1>1 DEF PublishNullifier, Namespace
  <1>3. \A ns \in Namespace : events'[ns] = IF ns = "nullifier" THEN s ELSE events[ns]
    BY <1>2 DEF CoverInv, IndexInv, TypeOK
  <1>4. /\ \A i \in DOMAIN events["nullifier"] : i \in DOMAIN s /\ s[i] = events["nullifier"][i]
        /\ \A i \in DOMAIN s \ DOMAIN events["nullifier"] :
             s[i].ledger = now /\ \A j \in DOMAIN events["nullifier"] : j < i
        /\ \A i \in DOMAIN s :
             s[i].ledger <= now /\ \A j \in DOMAIN s : i <= j => s[i].ledger <= s[j].ledger
    BY <1>1, <1>2, AppendOrdered
  <1>5. Ordered'
    <2>1. ASSUME NEW ns \in Namespace, NEW i \in DOMAIN events'[ns]
          PROVE  /\ events'[ns][i].ledger <= now
                 /\ \A j \in DOMAIN events'[ns] : i <= j => events'[ns][i].ledger <= events'[ns][j].ledger
      <3>1. CASE ns = "nullifier"
        BY <1>3, <1>4, <2>1, <3>1
      <3>2. CASE ns # "nullifier"
        BY <1>3, <2>1, <3>2 DEF CoverInv, Ordered
      <3>3. QED
        BY <3>1, <3>2
    <2>2. QED
      BY <1>2, <2>1 DEF Ordered
  <1>6. ASSUME NEW ns \in Namespace
        PROVE  /\ \A i \in DOMAIN events[ns] : i \in DOMAIN events'[ns] /\ events'[ns][i] = events[ns][i]
               /\ \A i \in DOMAIN events'[ns] \ DOMAIN events[ns] :
                    events'[ns][i].ledger = now /\ \A j \in DOMAIN events[ns] : j < i
    <2>1. CASE ns = "nullifier"
      BY <1>3, <1>4, <2>1
    <2>2. CASE ns # "nullifier"
      BY <1>3, <2>2
    <2>3. QED
      BY <2>1, <2>2
  <1>7. now' >= now
    BY <1>2, IndexerAssumption DEF CoverInv, IndexInv, TypeOK
  <1>8. QED
    BY <1>5, <1>6, <1>7, PublishCovers DEF PublishNullifier

(* A ledger that closes keeps the coverage. *)
LEMMA CloseLedgerCovers ==
  ASSUME CoverInv, IndexInv', CloseLedger
  PROVE  CoverInv'
  <1>1. now \in Nat /\ now' = now + 1 /\ events' = events
    BY IndexerAssumption DEF CloseLedger, CoverInv, IndexInv, TypeOK
  <1>2. Ordered'
    <2>1. ASSUME NEW ns \in Namespace, NEW i \in DOMAIN events[ns]
          PROVE  events[ns][i].ledger <= now'
      <3>1. events[ns][i].ledger <= now /\ events[ns][i].ledger \in Nat
        BY LedgerTyped, IndexerAssumption DEF CoverInv, IndexInv, Ordered
      <3>2. QED
        BY <1>1, <3>1
    <2>2. QED
      BY <1>1, <2>1 DEF CoverInv, Ordered
  <1>3. now' >= now
    BY <1>1
  <1>4. QED
    BY <1>1, <1>2, <1>3, PublishCovers DEF CloseLedger

--------------------------------------------------------------------------------
(* Theorems. *)

(* Nothing is published or indexed at the start. *)
LEMMA InitCovers == Init => CoverInv
  <1> SUFFICES ASSUME Init PROVE CoverInv
    OBVIOUS
  <1>1. Ordered /\ NothingBehindCursor
    BY DEF Init, Ordered, NothingBehindCursor
  <1>2. CursorsSaved /\ MarksOK
    BY DEF Init, CursorsSaved, MarksOK
  <1>3. \A w \in Runner : RunSafe(w)
    BY DEF Init, RunSafe
  <1>4. QED
    BY <1>1, <1>2, <1>3, InitHolds DEF CoverInv

(* Without failures, every step keeps the coverage. *)
LEMMA StepCovers == Quiet /\ CoverInv /\ [Next]_vars => CoverInv'
  <1> SUFFICES ASSUME Quiet, CoverInv, [Next]_vars PROVE CoverInv'
    OBVIOUS
  <1>1. Keeps /\ IndexInv'
    BY StepKeeps DEF CoverInv, Keeps
  <1>2. ASSUME NEW n \in Nullifier, PublishRetirement(n) \/ PublishNullifier(n) PROVE CoverInv'
    BY <1>1, <1>2, PublishRetirementCovers, PublishNullifierCovers
  <1>3. ASSUME CloseLedger PROVE CoverInv'
    BY <1>1, <1>3, CloseLedgerCovers
  <1>4. ASSUME NEW w \in Runner, Work(w) PROVE CoverInv'
    <2>1. Others(w)
      BY <1>4, OthersStay DEF CoverInv, IndexInv
    <2>2. QED
      BY <1>1, <1>4, <2>1, PollAllCovers, LoadCursorCovers, GetEventsCovers, ResponseCovers,
         MarkCovers,
         InsertNullifierCovers, InsertCertificateCovers, EndOfPageCovers DEF Work
  <1>5. ASSUME NEW w \in Runner PROVE ~RpcError(w) /\ ~DbError(w)
    BY DEF Quiet, RpcError, DbError
  <1>6. ~Restart
    <2>1. restarts \in 0..0
      BY DEF Quiet, CoverInv, IndexInv, TypeOK
    <2>2. QED
      BY <2>1 DEF Quiet, Restart
  <1>7. CASE UNCHANGED vars
    <2>1. Ordered' /\ CursorsSaved' /\ MarksOK' /\ NothingBehindCursor'
      BY <1>7
         DEF CoverInv, Ordered, CursorsSaved, MarksOK, Marked, Indexed, Id, NothingBehindCursor,
             InBatch, vars, ledgerVars, memoryVars, runVars, dbVars
    <2>2. ASSUME NEW w \in Runner PROVE RunSafe(w)'
      BY <1>7 DEF CoverInv, RunSafe, vars, ledgerVars, runVars, dbVars
    <2>3. QED
      BY <1>1, <2>1, <2>2 DEF CoverInv
  <1>8. QED
    BY <1>2, <1>3, <1>4, <1>5, <1>6, <1>7 DEF Next

(* Without failures and restarts the invariant holds. *)
THEOREM CoverageInvariant == Quiet => (Spec => []CoverInv)
  <1> SUFFICES ASSUME Quiet PROVE Spec => []CoverInv
    OBVIOUS
  <1>1. CoverInv /\ [Next]_vars => CoverInv'
    BY StepCovers
  <1>2. QED
    BY InitCovers, <1>1, PTL DEF Spec

(* Every event of a ledger before the saved cursor was marked or is at     *)
(* hand (StellarEventSource.poll): overlapping runs and late pages skip    *)
(* nothing, though the cursor counts ledgers and not events.               *)
THEOREM NothingSkipped == Quiet => (Spec => []NothingBehindCursor)
  <1> SUFFICES ASSUME Quiet PROVE Spec => []NothingBehindCursor
    OBVIOUS
  <1>1. CoverInv => NothingBehindCursor
    BY DEF CoverInv
  <1>2. QED
    BY CoverageInvariant, <1>1, PTL

(* An event marked as processed has its nullifier stored, or a run is at   *)
(* it (the handlers).                                                      *)
THEOREM MarkedIsIndexed == Quiet => (Spec => []ProcessedIsIndexed)
  <1> SUFFICES ASSUME Quiet PROVE Spec => []ProcessedIsIndexed
    OBVIOUS
  <1>1. CoverInv => ProcessedIsIndexed
    BY DEF CoverInv, MarksOK, Marked, ProcessedIsIndexed, Inserting
  <1>2. QED
    BY CoverageInvariant, <1>1, PTL
================================================================================
