------------------------------- MODULE CardPiles -------------------------------
(***************************************************************************)
(* What happens to the cards of a player when one is drawn, and what the   *)
(* passage through the state of the M2 engine makes of all of them         *)
(* (resolveDrawnCard in packages/game-engine/src/setup-dispatcher.ts and   *)
(* m2-integrated-state.ts).                                                *)
(*                                                                         *)
(* A card is a pair whose second part is its name.  The record of a card   *)
(* says who controls it (by) and where it is (zone); the record of a       *)
(* player says so again (deck, hand, discard).  Decks are sets: they have  *)
(* been shuffled.                                                          *)
(***************************************************************************)
EXTENDS Naturals

CONSTANT Starters   \* names of the starter cards

Nobody == "NOBODY"

IsStarter(c) == c[2] \in Starters

\* Mutated form of DrawCard: the protocols are discarded and stay in the hand.
DrawKeepingProtocols(s, c) ==
  LET drawn     == [s EXCEPT !.deck = @ \ {c}]
      protocols == {d \in s.hand : d[2] = "protocols"}
  IN  IF c[2] = "leaks" /\ protocols # {}
      THEN {[drawn EXCEPT !.discard = @ \cup {c, d}] : d \in protocols}
      ELSE {[drawn EXCEPT !.hand = @ \cup {c}]}

\* resolveDrawnCard: a Leaks card drawn by a player who holds Security
\* Protocols is discarded together with one of these.
DrawCard(s, c) ==
  LET drawn     == [s EXCEPT !.deck = @ \ {c}]
      protocols == {d \in s.hand : d[2] = "protocols"}
  IN  IF c[2] = "leaks" /\ protocols # {}
      THEN {[drawn EXCEPT !.hand = @ \ {d}, !.discard = @ \cup {c, d}] : d \in protocols}
      ELSE {[drawn EXCEPT !.hand = @ \cup {c}]}

DrawAny(s) == UNION {DrawCard(s, c) : c \in s.deck}

\* What n draws from a shuffled deck may leave.
Drawn(s, n) ==
  LET after[k \in 0 .. n] ==
        IF k = 0 THEN {s} ELSE UNION {DrawAny(t) : t \in after[k - 1]}
  IN  after[n]

\* The M2 engine knows no pool and no pile: a card of a deck or a pool comes
\* back from it as a discarded one, while the order of the deck stays.
Flattened(cards) ==
  [c \in DOMAIN cards |->
     IF cards[c].zone \in {"OPERATIONS_DECK", "OPERATIONS_POOL", "STARTER_POOL"}
     THEN [cards[c] EXCEPT !.zone = "DISCARD"] ELSE cards[c]]

\* The hands and the discard piles are then those that the cards say.
Pile(cards, p, z) == {c \in DOMAIN cards : cards[c].by = p /\ cards[c].zone = z}

Piled(piles, cards) ==
  [p \in DOMAIN piles |-> [piles[p] EXCEPT !.hand = Pile(cards, p, "HAND"),
                                           !.discard = Pile(cards, p, "DISCARD")]]
================================================================================
