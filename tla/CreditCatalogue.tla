--------------------------- MODULE CreditCatalogue ---------------------------
(***************************************************************************)
(* The catalogue of credits: RegistryService over its built-in dataset or  *)
(* the table it synchronises, the requests RegistryController makes of it, *)
(* a client that walks the list page by page, and the portfolio of a       *)
(* browser (CreditPortfolioComponent) with its filters and selection.      *)
(*                                                                         *)
(* The dataset belongs to a release of the backend: deploying the next one *)
(* changes it under the rows that are stored.                              *)
(***************************************************************************)
EXTENDS Ordering, Sequences

CONSTANTS
  Credit,       \* credit ids, in the order of ORDER BY credit_id
  Registry, Vintage,
  Releases,     \* buildMockCredits of each release, in its order
  Filter,       \* filters a client asks with
  Request,      \* limit and offset parameters it begins with
  MaxLimit, DefaultLimit,   \* 100 and 50 in the code
  Undefined, Empty,         \* an absent parameter, and ''
  NoRow, Nothing

(* A credit of the dataset; the vintage stands for all its leaf is hashed   *)
(* from, and the hash is what it is the hash of.                            *)
Entry == [id : Credit, registry : Registry, vintage : Vintage]
Row == [id : Credit, registry : Registry, vintage : Vintage, credit_hash : Vintage]

CreditFilters ==
  [registry : Registry \cup {Undefined, Empty}, vintageMin : Vintage \cup {0, Undefined},
   vintageMax : Vintage \cup {0, Undefined}]

(* No two credits of a dataset have the same id. *)
DistinctIds(dataset) ==
  \A i, j \in DOMAIN dataset : dataset[i].id = dataset[j].id => i = j

ASSUME CatalogueAssumption ==
  /\ Credit \subseteq Nat /\ Vintage \subseteq Nat \ {0}
  /\ IsFiniteSet(Credit) /\ NoRow \notin Row
  /\ Releases \in Seq(Seq(Entry)) /\ Releases # <<>>
  /\ \A n \in DOMAIN Releases : DistinctIds(Releases[n]) /\ Len(Releases[n]) <= MaxLimit
  /\ Filter \subseteq CreditFilters
  /\ Request \subseteq [limit : Nat, offset : Nat]
  /\ MaxLimit \in Nat \ {0} /\ DefaultLimit \in 1..MaxLimit

VARIABLES
  release,    \* the release that is running
  rows,       \* the table credits
  syncing,    \* syncRegistry: credits done, or Nothing
  walk,       \* the client's pages
  portfolio   \* CreditPortfolioComponent, or Nothing while it is not shown

vars == <<release, rows, syncing, walk, portfolio>>

mockCredits == Releases[release]

Init ==
  /\ release = 1
  /\ rows = [c \in Credit |-> NoRow]
  /\ syncing = Nothing /\ walk = Nothing /\ portfolio = Nothing

--------------------------------------------------------------------------------
(* RegistryService. *)

(* Mutant: the bound itself is left out. *)
SqlMatchesAbove(row, f) ==
  /\ f.registry # Undefined => row.registry = f.registry
  /\ f.vintageMin # Undefined => row.vintage > f.vintageMin
  /\ f.vintageMax # Undefined => row.vintage <= f.vintageMax

(* The WHERE clause: one condition for each parameter that is defined. *)
SqlMatches(row, f) ==
  /\ f.registry # Undefined => row.registry = f.registry
  /\ f.vintageMin # Undefined => row.vintage >= f.vintageMin
  /\ f.vintageMax # Undefined => row.vintage <= f.vintageMax

Truthy(value) == value \notin {Undefined, Empty, 0}

(* The same over the dataset: one for each parameter that is truthy. *)
MemoryMatches(credit, f) ==
  /\ Truthy(f.registry) => credit.registry = f.registry
  /\ Truthy(f.vintageMin) => credit.vintage >= f.vintageMin
  /\ Truthy(f.vintageMax) => credit.vintage <= f.vintageMax

(* ORDER BY credit_id of the rows found. *)
Matching(f) == {c \in Credit : rows[c] # NoRow /\ SqlMatches(rows[c], f)}
DbList(f) == [k \in 1..Cardinality(Matching(f)) |-> rows[Ascending(Matching(f))[k]]]

(* Array.filter: what is left of a list of credits. *)
Filtered(list, f) == PickedAt(list, {i \in DOMAIN list : MemoryMatches(list[i], f)})
MemoryList(f) == Filtered(mockCredits, f)

Clamped(limit) == IF limit < 1 THEN 1 ELSE IF limit > MaxLimit THEN MaxLimit ELSE limit

Page(list, limit, offset) ==
  LET last == IF offset + limit < Len(list) THEN offset + limit ELSE Len(list)
  IN  [k \in 1..(last - offset) |-> list[offset + k]]

(* total is a column of the rows found: a page without rows says 0. *)
getCredits(f, limit, offset) ==
  LET credits == Page(DbList(f), Clamped(limit), offset)
  IN  [credits |-> credits, limit |-> Clamped(limit), offset |-> offset,
       total |-> IF credits = <<>> THEN 0 ELSE Len(DbList(f))]

getCreditsOfMemory(f, limit, offset) ==
  [credits |-> Page(MemoryList(f), Clamped(limit), offset), limit |-> Clamped(limit),
   offset |-> offset, total |-> Len(MemoryList(f))]

(* What RegistryService of the browser sends of its filters. *)
Params(f) == [field \in DOMAIN f |-> IF Truthy(f[field]) THEN f[field] ELSE Undefined]

(* syncRegistry, from the controller or from rebuildTrees. *)
SyncBegins ==
  /\ syncing = Nothing /\ syncing' = 0
  /\ UNCHANGED <<release, rows, walk, portfolio>>

(* Mutant: a conflict brings all of the row up to date. *)
UpsertWhole(credit) ==
  rows' = [rows EXCEPT ![credit.id] =
    [id |-> credit.id, registry |-> credit.registry, vintage |-> credit.vintage,
     credit_hash |-> credit.vintage]]

(* A conflict updates the hash alone. *)
Upsert(credit) ==
  rows' = [rows EXCEPT ![credit.id] =
    IF @ = NoRow
      THEN [id |-> credit.id, registry |-> credit.registry, vintage |-> credit.vintage,
            credit_hash |-> credit.vintage]
      ELSE [@ EXCEPT !.credit_hash = credit.vintage]]

SyncNext ==
  /\ syncing # Nothing
  /\ IF syncing < Len(mockCredits)
       THEN Upsert(mockCredits[syncing + 1]) /\ syncing' = syncing + 1
       ELSE UNCHANGED rows /\ syncing' = Nothing
  /\ UNCHANGED <<release, walk, portfolio>>

(* A query fails: the credits done so far stay done. *)
SyncFails ==
  /\ syncing # Nothing /\ syncing' = Nothing
  /\ UNCHANGED <<release, rows, walk, portfolio>>

(* The backend comes back as the same release or the next one. *)
Restart ==
  /\ release' \in {release, release + 1} \cap DOMAIN Releases
  /\ syncing' = Nothing
  /\ UNCHANGED <<rows, walk, portfolio>>

--------------------------------------------------------------------------------
(* A client of GET /registry/credits that asks for page after page, until  *)
(* the total says that there is no further one.                            *)

Ids(list) == {list[i].id : i \in DOMAIN list}

WalkBegins(f, request) ==
  /\ walk = Nothing
  /\ walk' = [filter |-> f, limit |-> request.limit, offset |-> request.offset, seen |-> {},
              stored |-> Ids(Page(DbList(f), Len(DbList(f)), request.offset)), over |-> FALSE]
  /\ UNCHANGED <<release, rows, syncing, portfolio>>

WalkNext ==
  /\ walk # Nothing
  /\ IF walk.over THEN walk' = Nothing
     ELSE LET page == getCredits(walk.filter, walk.limit, walk.offset)
          IN  walk' = [walk EXCEPT !.offset = @ + page.limit, !.seen = @ \cup Ids(page.credits),
                                   !.over = walk.offset + page.limit >= page.total]
  /\ UNCHANGED <<release, rows, syncing, portfolio>>

--------------------------------------------------------------------------------
(* CreditPortfolioComponent. *)

NoFilters == [registry |-> Undefined, vintageMin |-> Undefined, vintageMax |-> Undefined]

(* What its three controls filter by, one at a time. *)
applied == {[NoFilters EXCEPT !.registry = r] : r \in Registry \cup {Undefined}}
           \cup {[NoFilters EXCEPT !.vintageMin = v] : v \in Vintage}

(* Its constructor asks for the credits. *)
Open ==
  /\ portfolio = Nothing
  /\ portfolio' = [waits |-> "query", answer |-> <<>>, credits |-> <<>>, filteredCredits |-> <<>>,
                   selected |-> {}, control |-> NoFilters, emitted |-> <<>>]
  /\ UNCHANGED <<release, rows, syncing, walk>>

Leave ==
  /\ portfolio # Nothing /\ portfolio' = Nothing
  /\ UNCHANGED <<release, rows, syncing, walk>>

(* The query runs; its answer may take its time, or never come. *)
CreditsRead ==
  /\ portfolio # Nothing
  /\ portfolio.waits = "query"
  /\ portfolio' = [portfolio EXCEPT !.waits = "answer",
                                    !.answer = getCredits(NoFilters, DefaultLimit, 0).credits]
  /\ UNCHANGED <<release, rows, syncing, walk>>

(* They replace the list shown, whatever was chosen to filter it by. *)
CreditsArrive ==
  /\ portfolio # Nothing
  /\ portfolio.waits = "answer"
  /\ portfolio' = [portfolio EXCEPT !.waits = "no", !.credits = portfolio.answer,
                                    !.filteredCredits = portfolio.answer]
  /\ UNCHANGED <<release, rows, syncing, walk>>

(* Every control filters all credits, so that the last one used decides. *)
applyFilters(f) ==
  /\ portfolio # Nothing
  /\ portfolio' = [portfolio EXCEPT !.control = f,
       !.filteredCredits = Filtered(portfolio.credits, f)]
  /\ UNCHANGED <<release, rows, syncing, walk>>

SelectedOf(list, selected) == PickedAt(list, {i \in DOMAIN list : list[i].id \in selected})

Toggled(c) ==
  IF c \in portfolio.selected THEN portfolio.selected \ {c} ELSE portfolio.selected \cup {c}

(* Mutant: of the credits shown. *)
toggleShown(c) ==
  /\ portfolio # Nothing
  /\ c \in Ids(portfolio.filteredCredits)
  /\ portfolio' = [portfolio EXCEPT !.selected = Toggled(c),
       !.emitted = SelectedOf(portfolio.filteredCredits, Toggled(c))]
  /\ UNCHANGED <<release, rows, syncing, walk>>

(* The wizard is given the selection, in the order of the list. *)
toggleSelect(c) ==
  /\ portfolio # Nothing
  /\ c \in Ids(portfolio.filteredCredits)
  /\ portfolio' = [portfolio EXCEPT !.selected = Toggled(c),
       !.emitted = SelectedOf(portfolio.credits, Toggled(c))]
  /\ UNCHANGED <<release, rows, syncing, walk>>

Next ==
  \/ SyncBegins \/ SyncNext \/ SyncFails \/ Restart
  \/ \E f \in Filter, request \in Request : WalkBegins(f, request)
  \/ WalkNext
  \/ Open \/ Leave \/ CreditsRead \/ CreditsArrive
  \/ \E f \in applied : applyFilters(f)
  \/ \E c \in Credit : toggleSelect(c)

Spec == Init /\ [][Next]_vars

--------------------------------------------------------------------------------
(* Properties. *)

(* The types: of the table, where every row is under its own id, of a      *)
(* client's walk and of the portfolio.                                     *)
CatalogueTypeOK ==
  /\ release \in DOMAIN Releases
  /\ rows \in [Credit -> Row \cup {NoRow}]
  /\ \A c \in Credit : rows[c] # NoRow => rows[c].id = c
  /\ syncing # Nothing => syncing \in 0..Len(mockCredits)
  /\ walk # Nothing =>
       walk \in [filter : Filter, limit : Nat, offset : Nat, over : BOOLEAN,
                 seen : SUBSET Credit, stored : SUBSET Credit]
  /\ portfolio # Nothing =>
       portfolio \in [waits : {"query", "answer", "no"}, answer : Seq(Row), credits : Seq(Row),
                      filteredCredits : Seq(Row), emitted : Seq(Row), selected : SUBSET Credit,
                      control : applied]

(* Walking the pages while synchronisations insert and update rows, of     *)
(* whatever release, shows every credit that matched when the walk began:  *)
(* rows are never deleted, and what an upsert changes of a stored row no    *)
(* filter looks at.                                                         *)
PagingMissesNothing == walk # Nothing => (walk.over => walk.stored \subseteq walk.seen)

(* All of the dataset has been stored. *)
Synchronised == \A i \in DOMAIN mockCredits : rows[mockCredits[i].id] # NoRow

(* The table of a dataset, synchronised, lists the same credits and the    *)
(* same total as the dataset itself, under every filter a browser sends.   *)
ListingsAgree ==
  (release = 1 /\ Synchronised) =>
    \A f \in CreditFilters :
      LET stored == getCredits(Params(f), MaxLimit, 0)
          built == getCreditsOfMemory(Params(f), MaxLimit, 0)
      IN  stored.total = built.total /\ Ids(stored.credits) = Ids(built.credits)

(* The wizard always has what the portfolio marks as selected, in the      *)
(* order of the list: no filter, and no credit hidden by one, changes it.  *)
EmittedIsSelection ==
  portfolio # Nothing => portfolio.emitted = SelectedOf(portfolio.credits, portfolio.selected)

--------------------------------------------------------------------------------
(* What the code does not keep. *)

(* A row's attributes are those its hash was computed from; the wizard     *)
(* proves them against the hash.                                           *)
RowIsItsHash == \A c \in Credit : rows[c] # NoRow => rows[c].credit_hash = rows[c].vintage

(* A credit that is selected can be seen. *)
SelectionIsShown ==
  portfolio # Nothing => portfolio.selected \subseteq Ids(portfolio.filteredCredits)

(* The list shown is filtered by the control used last. *)
FilterIsApplied ==
  portfolio # Nothing =>
    \A i \in DOMAIN portfolio.filteredCredits :
      MemoryMatches(portfolio.filteredCredits[i], portfolio.control)

(* Asked directly, the table and the dataset list the same credits. *)
QueriesAgree ==
  (release = 1 /\ Synchronised) =>
    \A f \in CreditFilters : Ids(DbList(f)) = Ids(MemoryList(f))
================================================================================
