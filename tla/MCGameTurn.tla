------------------------------ MODULE MCGameTurn ------------------------------
(***************************************************************************)
(* Two players and two countries.  The first table has a Leaks card to     *)
(* intercept, a deal and a board on which nothing goes viral; the others   *)
(* have the smallest decks, boards above the threshold, and a pause or a   *)
(* final scoring anywhere; on one of them a card that was dealt away comes *)
(* home from a campaign.                                                   *)
(***************************************************************************)
EXTENDS GameTurn

MCHome   == [p1 |-> "arden", p2 |-> "fluma"]
MCIndex  == [p1 |-> 1, p2 |-> 2]
MCMoney  == [arden |-> 1, fluma |-> 0]
MCIncome == [arden |-> 2, fluma |-> 1]

MCPDOrder == <<"coast", "delta">>
MCHostOf  == [coast |-> "arden", delta |-> "fluma"]
MCNear    == [coast |-> {"delta"}, delta |-> {"coast"}]

\* An objective of the kind of ARDEN's easy one: five points for each
\* demographic with more than two resiliency cubes of the country.
MCObjective(country, cubes) ==
  5 * Cardinality({pd \in DOMAIN cubes : cubes[pd]["RESILIENCY"][country] > 2})

Stack(ma, mf, ra, rf) == [MALIGN     |-> [arden |-> ma, fluma |-> mf],
                          RESILIENCY |-> [arden |-> ra, fluma |-> rf]]

Board(coast, delta, hc, hd) ==
  [cubes |-> [coast |-> coast, delta |-> delta], holder |-> [coast |-> hc, delta |-> hd]]

Quiet == Board(Stack(1, 0, 0, 0), Stack(0, 0, 0, 1), Nobody, Nobody)

\* A tie both of whose types the holder owns, next to a demographic with more
\* than eight malign cubes.
Heated == Board(Stack(5, 4, 3, 6), Stack(0, 9, 1, 0), "p1", "p2")

\* Two ties; the first is one in the short variant only, and its holder owns
\* cubes of one type.
Ties == Board(Stack(0, 7, 7, 0), Stack(5, 4, 4, 5), "p1", "p2")

\* One demographic with more than eight malign cubes.
Warm == Board(Stack(9, 0, 0, 0), Stack(0, 0, 0, 0), "p1", Nobody)

CardTable ==
  [pool |-> [arden |-> {"leaks", "protocols"}, fluma |-> {"leaks", "poll"}],
   deckSize |-> 2, opening |-> 2, limit |-> 3, kit |-> 2, deals |-> 1, pauses |-> 0,
   cleanups |-> 2, endings |-> 0, variants |-> {}, patient |-> TRUE,
   board |-> Quiet, boards |-> {Quiet}]

HeatTable ==
  [pool |-> [arden |-> {"news"}, fluma |-> {"poll"}],
   deckSize |-> 1, opening |-> 1, limit |-> 2, kit |-> 2, deals |-> 0, pauses |-> 1,
   cleanups |-> 5, endings |-> 0, variants |-> {}, patient |-> TRUE,
   board |-> Quiet, boards |-> {Heated}]

\* Arden's False Identities are dealt to fluma, played in a campaign and sent
\* home by a cleanup that follows the final scoring; the hand of arden may have
\* been filled with fluma's cards.
HomeTable == [HeatTable EXCEPT !.pool["arden"] = {"falseIdentities"}, !.opening = 0,
                               !.deals = 2, !.pauses = 0, !.endings = 1, !.cleanups = 4,
                               !.boards = {Warm}]

\* The other variant, and a final scoring in the middle of it.
EndTable == [HeatTable EXCEPT !.pauses = 0, !.endings = 1, !.variants = {"SHORT"},
                               !.pool["fluma"] = {"poll", "rally"},
                               !.boards = {Ties, Quiet}]

MCTables == {CardTable, HeatTable, HomeTable, EndTable}

\* Nothing interrupts the shortest game.
QuietTables == {[HeatTable EXCEPT !.pauses = 0, !.boards = {Quiet}]}
===============================================================================
