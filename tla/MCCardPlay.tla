------------------------------ MODULE MCCardPlay ------------------------------
(***************************************************************************)
(* Three players, and one table for each kind of card: a veto, the other   *)
(* reactions, effects that ask for cards, effects that draw, effects that  *)
(* are done at once, plans of operations, and a card of a deck that is     *)
(* retrieved.  Cards whose name means nothing to CardPlay (rally, news,    *)
(* poll) are there to be moved.                                            *)
(***************************************************************************)
EXTENDS CardPlay

MCOrder == <<"p1", "p2", "p3">>

Coins(a, b, c) == [p1 |-> a, p2 |-> b, p3 |-> c]

\* The cards of some zones: hand, deck, discard pile and campaign.
Dealt(hand, deck, pile, campaign) ==
  [c \in hand \cup deck \cup pile \cup campaign |->
     CASE c \in hand -> "HAND" [] c \in deck -> "OPERATIONS_DECK"
       [] c \in pile -> "DISCARD" [] OTHER -> "CAMPAIGN"]

Of(p, names) == {<<p, n>> : n \in names}

NoPlans == [id \in {} |-> <<>>]

OpSteal(p, from)       == [kind |-> "STEAL_BLIND_CARD", by |-> p, from |-> from]
OpDismantle(p)         == [kind |-> "DISCARD_CAMPAIGN", by |-> p]
OpModify(p, old, new)  == [kind |-> "MODIFY_CAMPAIGN", by |-> p, old |-> old, new |-> new]
OpBacklash(p, n)       == [kind |-> "APPLY_BACKLASH", by |-> p, amount |-> n]
OpEstablish(p, pd)     == [kind |-> "ESTABLISH_LEGITIMACY", by |-> p, pd |-> pd]
OpStarter(p, c)        == [kind |-> "PLAY_STARTER", by |-> p, card |-> c]

\* Two players may object to the campaign of the third, while the first veto
\* card can be stolen and the campaign can be given up.
VetoTable ==
  [phase |-> "RESOLUTION_STAGE",
   cards |-> Dealt(Of("p2", {"veto"}) \cup Of("p3", {"veto", "firstRefusal"}), {}, {},
                   Of("p1", {"rally", "falseIdentities"})),
   money |-> Coins(0, 0, 0), holder |-> [coast |-> Nobody], limit |-> 3, purge |-> 1,
   windows |-> 2, ops |-> 1, reviews |-> TRUE, plans |-> NoPlans,
   loose |-> {OpSteal("p3", "p2"), OpDismantle("p1")}]

\* Everything else there is to react to; the leaks may be stolen meanwhile.
ReactionTable ==
  [phase |-> "RESOLUTION_STAGE",
   cards |-> Dealt(Of("p1", {"corruption", "cyberattack", "leaks", "cybersecurity"})
                     \cup Of("p2", {"hackBack", "anticorruption", "protocols"})
                     \cup Of("p3", {"doubleAgent", "hackBack"})
                     \cup Of("p1", {"counterintelligence"}),
                   {}, {}, {}),
   money |-> Coins(1, 0, 0), holder |-> [coast |-> Nobody], limit |-> 6, purge |-> 1,
   windows |-> 2, ops |-> 1, reviews |-> FALSE, plans |-> NoPlans,
   loose |-> {OpSteal("p3", "p1")}]

\* Cards that are asked for, and may be stolen before the answer.
ChoiceTable ==
  [phase |-> "RESOLUTION_STAGE",
   cards |-> Dealt(Of("p1", {"doubleAgent", "spy"}) \cup Of("p2", {"discard", "honeypot", "news"})
                     \cup Of("p3", {"interagency", "poll"}),
                   Of("p3", {"leaks"}), Of("p2", {"rally"}), {}),
   money |-> Coins(1, 0, 1), holder |-> [coast |-> Nobody], limit |-> 3, purge |-> 2,
   windows |-> 0, ops |-> 1, reviews |-> FALSE, plans |-> NoPlans,
   loose |-> {OpSteal("p1", "p2"), OpSteal("p2", "p1"), OpSteal("p1", "p3")}]

\* A hand is filled, once in the planning stage and once after it.
DrawTable ==
  [phase |-> "ACTION_STAGE_PLAN",
   cards |-> Dealt(Of("p1", {"policyShift", "priority", "budget", "draw", "protocols"}),
                   Of("p1", {"leaks", "news", "poll"}), Of("p1", {"rally"}), {}),
   money |-> Coins(0, 0, 0), holder |-> [coast |-> Nobody], limit |-> 5, purge |-> 1,
   windows |-> 0, ops |-> 1, reviews |-> FALSE, plans |-> NoPlans,
   loose |-> {OpSteal("p2", "p1")}]

\* Effects that are done at once, paid with little.
MoneyTable ==
  [phase |-> "RESOLUTION_STAGE",
   cards |-> Dealt(Of("p1", {"trade", "exposure", "surcharge", "resilience"})
                     \cup Of("p2", {"sanctions", "doubleAction"}) \cup Of("p3", {"cyberTheft", "corruption"}),
                   {}, {}, Of("p2", {"rally"})),
   money |-> Coins(1, 1, 2), holder |-> [coast |-> Nobody], limit |-> 4, purge |-> 1,
   windows |-> 0, ops |-> 0, reviews |-> FALSE, plans |-> NoPlans, loose |-> {}]

\* Two plans that the server runs side by side, and an operation of neither.
PlanTable ==
  [phase |-> "RESOLUTION_STAGE",
   cards |-> Dealt(Of("p1", {"budget", "news"}) \cup Of("p2", {"poll"}), {}, {},
                   Of("p1", {"rally"})),
   money |-> Coins(0, 0, 0),
   holder |-> [coast |-> "p1", delta |-> "p1", ridge |-> "p1", shore |-> Nobody],
   limit |-> 3, purge |-> 1, windows |-> 0, ops |-> 1, reviews |-> FALSE,
   plans |-> [first  |-> <<OpBacklash("p2", 2), OpEstablish("p1", "shore"), OpEstablish("p2", "coast"),
                           OpSteal("p2", "p1")>>,
              second |-> <<OpModify("p1", <<"p1", "rally">>, <<"p1", "news">>),
                           OpStarter("p1", <<"p1", "budget">>), OpDismantle("p1")>>],
   loose |-> {OpDismantle("p1"), OpEstablish("p1", "shore"), OpEstablish("p2", "shore"),
              OpSteal("p1", "p2"), OpBacklash("p2", 2), OpStarter("p1", <<"p1", "budget">>),
              OpModify("p1", <<"p1", "rally">>, <<"p1", "news">>)}]

\* A card of the deck is retrieved from the discard pile, stolen, drawn by its
\* old owner and exchanged.
RetrievalTable ==
  [phase |-> "RESOLUTION_STAGE",
   cards |-> Dealt(Of("p1", {"discard", "news", "poll", "interagency", "draw"}), Of("p1", {"rally"}),
                   {}, {}),
   money |-> Coins(1, 0, 0), holder |-> [coast |-> Nobody], limit |-> 5, purge |-> 1,
   windows |-> 0, ops |-> 2, reviews |-> FALSE, plans |-> NoPlans,
   loose |-> {OpSteal("p2", "p1"), OpBacklash("p2", 1)}]

MCTables ==
  {VetoTable, ReactionTable, ChoiceTable, DrawTable, MoneyTable, PlanTable, RetrievalTable}
===============================================================================
