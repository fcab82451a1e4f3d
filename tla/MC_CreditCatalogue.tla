------------------------- MODULE MC_CreditCatalogue -------------------------
(* Two releases: the second has another vintage for a credit and one more,  *)
(* which the table sorts first.                                             *)
EXTENDS CreditCatalogue

CONSTANTS gold, verra

MCRegistry == {gold, verra}
MCReleases == <<<<[id |-> 2, registry |-> verra, vintage |-> 2],
                  [id |-> 3, registry |-> gold, vintage |-> 1]>>,
                <<[id |-> 2, registry |-> verra, vintage |-> 1], [id |-> 3, registry |-> gold, vintage |-> 2],
                  [id |-> 1, registry |-> gold, vintage |-> 2]>>>>
MCFilter == {NoFilters, [NoFilters EXCEPT !.vintageMin = 2], [NoFilters EXCEPT !.registry = gold]}
MCRequest == {[limit |-> 0, offset |-> 0], [limit |-> 9, offset |-> 0], [limit |-> 2, offset |-> 1]}
=============================================================================
