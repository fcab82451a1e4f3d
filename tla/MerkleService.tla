---------------------------- MODULE MerkleService ----------------------------
(***************************************************************************)
(* MerkleService over RegistryService: concurrent calls for a credit's     *)
(* inclusion proof, for a rebuild of the registry trees and for a          *)
(* synchronisation of the catalogue.  The trees are built lazily by the    *)
(* first proof request.  With a database a rebuild waits for each query,   *)
(* between two registries too, and other handlers run meanwhile; without   *)
(* one a call is a single step.                                            *)
(***************************************************************************)
EXTENDS MerkleTree, Ordering

CONSTANTS
  Call,        \* the calls of a run
  Registry,    \* "Verra", "GoldStandard"
  Credit,      \* 1..n, in the order of their credit_id
  Catalogue,   \* the credits of this release (buildMockCredits)
  RegistryOf,  \* the registry of each credit
  NoTree, NoLocation, NoRoot, NoReply

ASSUME CatalogueAssumption ==
  /\ IsFiniteSet(Credit) /\ Credit = 1..Cardinality(Credit)
  /\ Catalogue \subseteq Credit /\ Catalogue # {}
  /\ RegistryOf \in [Credit -> Registry]
  /\ Cardinality(Credit) <= power[TreeDepth]   \* the leaves a tree can hold
  /\ NoLocation \notin [registry : Registry, index : Nat]

VARIABLES
  pool,             \* a database is configured
  credits,          \* rows of credits: absent, or with whose release's hash
  snapshots,        \* the latest merkle_snapshots root of each registry
  trees,            \* this.trees
  creditHashIndex,  \* this.creditHashIndex
  kind, wanted,     \* what each call is, and the credit hash it asks for
  pc, reply,        \* how far its handler is, then its answer
  synced,           \* credits its syncRegistry has upserted
  todo              \* registries its rebuild has to persist, in their order

memory == <<trees, creditHashIndex>>
database == <<credits, snapshots>>
progress == <<reply, synced, todo>>
vars == <<pool, database, memory, kind, wanted, pc, progress>>

(* A credit's hash in this release and in an earlier one. *)
creditHash(i) == Leaf(2 * i)
EarlierHash(i) == Leaf(2 * i + 1)
Hash == {creditHash(i) : i \in Credit} \cup {EarlierHash(i) : i \in Credit}
Location ==
  UNION {[registry : {r}, index : 0..(Cardinality({i \in Credit : RegistryOf[i] = r}) - 1)] :
           r \in Registry}

(* Init's database is whatever an earlier process left: rows of earlier    *)
(* releases, of credits since dropped too, and a half-finished sync.       *)
Init ==
  /\ pool \in BOOLEAN
  /\ credits \in [Credit -> {"absent", "earlier", "current"}]
  /\ \A i \in Credit \ Catalogue : credits[i] # "current"
  /\ snapshots = [r \in Registry |-> NoRoot]
  /\ trees = [r \in Registry |-> NoTree]
  /\ creditHashIndex = [h \in Hash |-> NoLocation]
  /\ kind \in [Call -> {"proof", "rebuild", "sync"}]
  /\ wanted \in [Call -> {creditHash(i) : i \in Catalogue} \cup {EarlierHash(i) : i \in Credit}]
  /\ pc = [c \in Call |-> "new"]
  /\ reply = [c \in Call |-> NoReply]
  /\ synced = [c \in Call |-> 0]
  /\ todo = [c \in Call |-> <<>>]

--------------------------------------------------------------------------------
(* RegistryService. *)

(* What syncRegistry returns: the rows in the order of their ids, or the   *)
(* catalogue itself.                                                       *)
Rows ==
  IF pool THEN credits
  ELSE [i \in Credit |-> IF i \in Catalogue THEN "current" ELSE "absent"]
RowHash(i) == IF Rows[i] = "earlier" THEN EarlierHash(i) ELSE creditHash(i)

LeavesOf(r) ==
  LET ids == Ascending({i \in Credit : Rows[i] # "absent" /\ RegistryOf[i] = r})
  IN  [k \in DOMAIN ids |-> RowHash(ids[k])]

(* byRegistry: the registries in the order of their first credit. *)
ByRegistry ==
  LET First(i) == /\ Rows[i] # "absent"
                  /\ \A j \in 1..(i - 1) : Rows[j] # "absent" => RegistryOf[j] # RegistryOf[i]
      firsts == Ascending({i \in Credit : First(i)})
  IN  [k \in DOMAIN firsts |-> [registry |-> RegistryOf[firsts[k]],
                                leaves |-> LeavesOf(RegistryOf[firsts[k]])]]

--------------------------------------------------------------------------------
(* MerkleService. *)

Goto(c, p) == pc' = [pc EXCEPT ![c] = p]

(* Mutant: the leaves are added to those of the tree before. *)
TreesGrown(list) ==
  [r \in Registry |->
     IF \E k \in DOMAIN list : list[k].registry = r
       THEN LET leaves == list[CHOOSE k \in DOMAIN list : list[k].registry = r].leaves
            IN  IF trees[r] = NoTree THEN buildMerkleTree(leaves)
                ELSE buildMerkleTree(trees[r].nodes[0] \o leaves)
       ELSE trees[r]]

TreesWith(list) ==
  [r \in Registry |->
     IF \E k \in DOMAIN list : list[k].registry = r
       THEN buildMerkleTree(list[CHOOSE k \in DOMAIN list : list[k].registry = r].leaves)
       ELSE trees[r]]

(* Mutant: the index is left as it was. *)
IndexUnchanged(list) == creditHashIndex

(* An entry is only ever overwritten, never removed. *)
IndexWith(list) ==
  LET holds(k, h) == \E i \in DOMAIN list[k].leaves : list[k].leaves[i] = h
      position(k, h) == CHOOSE i \in DOMAIN list[k].leaves : list[k].leaves[i] = h
  IN  [h \in Hash |->
         IF \E k \in DOMAIN list : holds(k, h)
           THEN LET k == CHOOSE k \in DOMAIN list : holds(k, h)
                IN  [registry |-> list[k].registry, index |-> position(k, h) - 1]
           ELSE creditHashIndex[h]]

(* A tree and its part of the index are replaced together. *)
Publish(list) == trees' = TreesWith(list) /\ creditHashIndex' = IndexWith(list)

(* getMerkleProof's second half, on the memory the handler finds. *)
Lookup(c, ts, index) ==
  LET location == index[wanted[c]]
      known == location # NoLocation /\ ts[location.registry] # NoTree
  IN
  /\ Goto(c, IF known THEN "proof" ELSE "not_found")
  /\ reply' = [reply EXCEPT ![c] =
       IF known THEN getMerkleProofFromTree(ts[location.registry], location.index) ELSE @]

(* A rebuild is over: it was asked for, or a proof request needed it. *)
Rebuilt(c, ts, index) ==
  IF kind[c] = "rebuild" THEN Goto(c, "rebuilt") /\ UNCHANGED reply ELSE Lookup(c, ts, index)

TreesBuilt == \E r \in Registry : trees[r] # NoTree

(* A request arrives.  A proof request looks no further than trees.size.   *)
Ask(c) ==
  /\ pc[c] = "new"
  /\ \/ /\ kind[c] = "proof" /\ TreesBuilt
        /\ Lookup(c, trees, creditHashIndex)
        /\ UNCHANGED memory
     \/ /\ ~(kind[c] = "proof" /\ TreesBuilt)
        /\ pool
        /\ Goto(c, "upsert") /\ UNCHANGED <<memory, reply>>
     \/ /\ ~(kind[c] = "proof" /\ TreesBuilt)
        /\ ~pool
        /\ IF kind[c] = "sync"
             THEN Goto(c, "synced") /\ UNCHANGED <<memory, reply>>
             ELSE Publish(ByRegistry) /\ Rebuilt(c, trees', creditHashIndex')
  /\ UNCHANGED <<pool, database, kind, wanted, synced, todo>>

UpsertRow(c) == credits' = [credits EXCEPT ![Ascending(Catalogue)[synced[c] + 1]] = "current"]

(* One upsert per credit, in turn: ON CONFLICT the hash is updated. *)
Upsert(c) ==
  /\ pc[c] = "upsert"
  /\ UpsertRow(c)
  /\ synced' = [synced EXCEPT ![c] = @ + 1]
  /\ Goto(c, IF synced[c] + 1 = Cardinality(Catalogue) THEN "select" ELSE "upsert")
  /\ UNCHANGED <<pool, snapshots, memory, kind, wanted, reply, todo>>

(* The rows arrive; the first registry's tree replaces the old one at once *)
(* and its snapshot is on its way.                                         *)
Select(c) ==
  /\ pc[c] = "select"
  /\ IF kind[c] = "sync"
       THEN Goto(c, "synced") /\ UNCHANGED <<memory, todo>>
       ELSE /\ todo' = [todo EXCEPT ![c] = ByRegistry]
            /\ Publish(<<Head(ByRegistry)>>)
            /\ Goto(c, "snapshot")
  /\ UNCHANGED <<pool, database, kind, wanted, reply, synced>>

SnapshotRow(c) ==
  snapshots' = [snapshots EXCEPT
    ![Head(todo[c]).registry] = buildMerkleTree(Head(todo[c]).leaves).root]

(* A snapshot is stored; then the next registry, or the rebuild is over. *)
Snapshot(c) ==
  /\ pc[c] = "snapshot"
  /\ SnapshotRow(c)
  /\ todo' = [todo EXCEPT ![c] = Tail(@)]
  /\ IF Len(todo[c]) = 1
       THEN Rebuilt(c, trees, creditHashIndex) /\ UNCHANGED memory
       ELSE Publish(<<todo[c][2]>>) /\ UNCHANGED <<pc, reply>>
  /\ UNCHANGED <<pool, credits, kind, wanted, synced>>

(* A query fails, or its answer is lost: the call throws where it is, and  *)
(* what it has published stays.                                            *)
DbError(c) ==
  /\ pc[c] \in {"upsert", "select", "snapshot"}
  /\ Goto(c, "failed")
  /\ \/ UNCHANGED database
     \/ pc[c] = "upsert" /\ UpsertRow(c) /\ UNCHANGED snapshots
     \/ pc[c] = "snapshot" /\ SnapshotRow(c) /\ UNCHANGED credits
  /\ UNCHANGED <<pool, memory, kind, wanted, progress>>

Next == \E c \in Call : Ask(c) \/ Upsert(c) \/ Select(c) \/ Snapshot(c) \/ DbError(c)

Spec == Init /\ [][Next]_vars

--------------------------------------------------------------------------------
(* Properties. *)

TypeOK ==
  /\ pool \in BOOLEAN
  /\ credits \in [Credit -> {"absent", "earlier", "current"}]
  /\ DOMAIN trees = Registry /\ DOMAIN snapshots = Registry
  /\ creditHashIndex \in [Hash -> Location \cup {NoLocation}]
  /\ pc \in [Call -> {"new", "upsert", "select", "snapshot",
                      "proof", "not_found", "rebuilt", "synced", "failed"}]
  /\ synced \in [Call -> 0..Cardinality(Catalogue)]
  /\ \A c \in Call : \A k \in DOMAIN todo[c] : todo[c][k].registry \in Registry

CreditOf(h) == CHOOSE i \in Credit : h \in {creditHash(i), EarlierHash(i)}
RegistryRoot(r) == FullDepthRoot(LeavesOf(r))

(* A proof answered is the wanted credit's, the circuits' loop accepts it, *)
(* and its root is that of the registry's whole tree - however the rebuilds*)
(* and the calls interleaved.                                              *)
ProofIsOfItsCredit ==
  \A c \in Call : pc[c] = "proof" =>
    LET p == reply[c] IN
    /\ p.creditHash = wanted[c]
    /\ verify_merkle_inclusion(wanted[c], p.merklePath, p.merkleIndices) = p.root
    /\ p.root = RegistryRoot(RegistryOf[CreditOf(wanted[c])])

(* A proof handed out stays good: a later rebuild, by whichever call, does *)
(* not change the root it was made for.                                    *)
ProofsStayValid ==
  \A c \in Call : pc[c] = "proof" =>
    reply[c].root = trees[RegistryOf[CreditOf(wanted[c])]].root

(* A credit that has a row is reported as unknown only while the tree of   *)
(* its own registry is missing.                                            *)
UnknownOnlyWhileUnbuilt ==
  [][\A c \in Call : pc[c] # "not_found" /\ pc'[c] = "not_found" =>
       LET r == RegistryOf[CreditOf(wanted[c])] IN
       (\E k \in DOMAIN LeavesOf(r) : LeavesOf(r)[k] = wanted[c]) => trees'[r] = NoTree]_vars

(* "Ensure trees are built" (merkle.service.ts:102): a request for a credit*)
(* of the catalogue is not answered with 404.                              *)
CatalogueCreditsFound ==
  \A c \in Call, i \in Catalogue : wanted[c] = creditHash(i) => pc[c] # "not_found"
================================================================================
