-------------------------------- MODULE CardPlay --------------------------------
(***************************************************************************)
(* What cards do when they are played: the effects and the choices they    *)
(* ask for, the reaction windows with the veto, and the core operations    *)
(* with their scheduler (executeM2Effect, submitM2EffectChoice,            *)
(* openM2Reaction, passReaction, playReaction, the veto commands and       *)
(* executeM2CoreOperation of packages/game-engine/src/setup-dispatcher.ts, *)
(* with m2b.ts and m2b-reaction.ts).                                       *)
(*                                                                         *)
(* The server's side may call these operations in any order and the        *)
(* players answer when they like: each is one action, as it is committed   *)
(* whole or not at all.  A card is <<owner, name>>, where the owner is the *)
(* player of the country that printed it.  A player has one campaign at    *)
(* most.  Pauses are TurnPreparation's.                                    *)
(***************************************************************************)
EXTENDS Sequences, FiniteSets, FiniteSetsExt, Functions, CardPiles

CONSTANTS
  Order,    \* initiative.orderParticipantIds
  Tables    \* the instances explored: the cards, the operations and the bounds

Players == Range(Order)

Zones == {"OPERATIONS_DECK", "HAND", "DISCARD", "CAMPAIGN", "REMOVED_FROM_GAME"}

\* The operations of an instance.
Operations(t) == t.loose \cup UNION {Range(t.plans[id]) : id \in DOMAIN t.plans}

ASSUME OrderAssumption == Order \in Seq(Range(Order))

\* The registry prints the veto and the policy shift as starter cards.
ASSUME VetoAssumption == "veto" \in Starters
ASSUME ShiftAssumption == "policyShift" \in Starters

ASSUME TablesAssumption ==
  \A t \in Tables :
    /\ t.phase \in {"ACTION_STAGE_PLAN", "RESOLUTION_STAGE"}
    /\ IsFiniteSet(DOMAIN t.cards)
    /\ \A c \in DOMAIN t.cards : c[1] \in Players /\ t.cards[c] \in Zones
    \* lockStrategy takes no starter into a deck.
    /\ t.phase = "ACTION_STAGE_PLAN" =>
         \A c \in DOMAIN t.cards : IsStarter(c) => t.cards[c] \notin {"OPERATIONS_DECK", "DISCARD"}
    /\ t.money \in [Players -> Nat]
    /\ \A pd \in DOMAIN t.holder : t.holder[pd] \in Players \cup {Nobody}
    /\ t.windows \in Nat /\ t.ops \in Nat
    /\ \A id \in DOMAIN t.plans : t.plans[id] \in Seq(Operations(t))
    /\ \A o \in Operations(t) :
         o.by \in Players /\ (o.kind = "APPLY_BACKLASH" => o.amount \in Nat)

VARIABLES
  table,     \* the instance
  phase,     \* state.phase
  card,      \* state.cards: by, zone and back (returnToOwnerOnDiscard)
  strategy,  \* state.strategy: hand, deck and discard of a player
  money,     \* resources of the players' countries
  points,    \* adjudication.vpByParticipant
  mat,       \* adjudication.campaigns: the cards of a player's campaign
  holder,    \* adjudication.legitimacyByPd
  choice,    \* state.m2EffectChoice
  window,    \* state.reactionContinuation
  veto,      \* state.m2Veto
  blocked,   \* state.vetoBlockedParticipantIdsThisTurn
  plan,      \* state.m2CoreScheduler
  ran,       \* the operations of plans, in the order of their execution
  calls      \* windows and operations so far, against the bounds of the table

cardVars  == <<card, strategy>>
boardVars == <<money, points, mat, holder>>
talkVars  == <<window, veto, blocked>>
runVars   == <<plan, ran, calls>>
vars      == <<table, phase, cardVars, boardVars, choice, talkVars, runVars>>

--------------------------------------------------------------------------------

HandLimit == table.limit

NoChoice == [effect |-> "NONE", actor |-> Nobody, chooser |-> Nobody, target |-> Nobody,
             source |-> <<Nobody, "NONE">>, groups |-> <<>>, limit |-> FALSE]
NoWindow == [status |-> "NONE", trigger |-> "NONE", by |-> Nobody, priority |-> <<>>,
             next |-> 1, card |-> <<Nobody, "NONE">>, refused |-> {}]
NoVeto   == [status |-> "NONE", card |-> <<Nobody, "NONE">>, by |-> Nobody, of |-> Nobody,
             votes |-> [p \in Players |-> "NONE"]]
NoPlan   == [id |-> "NONE", next |-> 1]

Hand(p) == Pile(card, p, "HAND")

Holds(p, c) == c \in Hand(p)

\* discardWithLifecycle: a taken card goes home, and so does the one card that
\* returns from a campaign; a starter leaves the game.
Discarded(cards, S) ==
  [c \in DOMAIN cards |->
     IF c \notin S THEN cards[c]
     ELSE IF \/ cards[c].back /\ cards[c].by # c[1]
             \/ c[2] = "falseIdentities" /\ cards[c].zone = "CAMPAIGN"
     THEN [by |-> c[1], zone |-> "HAND", back |-> FALSE]
     ELSE [cards[c] EXCEPT !.zone = IF IsStarter(c) THEN "REMOVED_FROM_GAME" ELSE "DISCARD"]]

Removed(cards, c) == [cards EXCEPT ![c].zone = "REMOVED_FROM_GAME"]

\* applyM2StateToCanonical
WriteBack(cards) ==
  /\ card' = Flattened(cards)
  /\ strategy' = Piled(strategy, Flattened(cards))

Paid(p, n) == money[p] >= n /\ money' = [money EXCEPT ![p] = @ - n]

--------------------------------------------------------------------------------
(* Effects that are done at once (executeM2Effect). *)

\* pay: what an effect costs that does nothing else in this model: direct
\* influence, the surcharges of a campaign and the double action.
Price == [leaks |-> 0, resilience |-> 3, surcharge |-> 1, doubleAction |-> 1]

PayEffect(p, c) ==
  /\ c[2] \in DOMAIN Price
  /\ c[2] = "doubleAction" => mat[p] # {}
  /\ Paid(p, Price[c[2]])
  /\ WriteBack(Discarded(card, {c}))
  /\ UNCHANGED <<points, mat, holder>>

\* TRADE_AGREEMENTS and SANCTIONS.
Trade(p, c, q) ==
  /\ p # q /\ c[2] \in {"trade", "sanctions"}
  /\ money' = LET n == Min({2, money[q]})
              IN  IF c[2] = "trade" THEN [money EXCEPT ![p] = @ + 2, ![q] = @ + 2]
                  ELSE [money EXCEPT ![p] = @ + n, ![q] = @ - n]
  /\ WriteBack(Discarded(card, {c}))
  /\ UNCHANGED <<points, mat, holder>>

\* MULTI_ROLL_RESOURCE_TRANSFER: whoever rolls four or less and has a resource
\* gives one.
CyberTheft(p, c) ==
  /\ c[2] = "cyberTheft"
  /\ \E low \in SUBSET (Players \ {p}) :
       LET payers == {q \in low : money[q] > 0}
       IN  money' = [q \in Players |-> CASE q = p -> money[p] + Cardinality(payers)
                                         [] q \in payers -> money[q] - 1
                                         [] OTHER -> money[q]]
  /\ WriteBack(Discarded(card, {c}))
  /\ UNCHANGED <<points, mat, holder>>

\* CORRUPTION
Corrupt(p, c, q) ==
  /\ c[2] = "corruption" /\ Paid(p, 1)
  /\ points' = [points EXCEPT ![q] = Max({0, @ - 2})]
  /\ WriteBack(Discarded(card, {c}))
  /\ UNCHANGED <<mat, holder>>

\* PAY_AND_DISCARD_CAMPAIGN; the source is discarded after the campaign.
Expose(p, c, q) ==
  /\ c[2] = "exposure" /\ mat[q] # {} /\ Paid(p, 1)
  /\ mat' = [mat EXCEPT ![q] = {}]
  /\ WriteBack(Discarded(Discarded(card, mat[q]), {c}))
  /\ UNCHANGED <<points, holder>>

\* FIXED_GAIN_4, a starter that may be played while plans are made.
Budget(p, c) ==
  /\ c[2] = "budget"
  /\ money' = [money EXCEPT ![p] = @ + 4]
  /\ WriteBack(Removed(card, c))
  /\ UNCHANGED <<points, mat, holder>>

\* The policy shift, which does not go through the M2 engine: the hand is
\* discarded, deck and discard pile are shuffled and a new hand is drawn.  It
\* is refused when a card would be in the new deck twice.
PolicyShift(p, c) ==
  LET hand == strategy[p].hand \ {c}
      home == {d \in hand : card[d].back /\ d[1] # p}
      gone == {d \in hand \ home : IsStarter(d)}
      pool == strategy[p].deck \cup strategy[p].discard \cup (hand \ (home \cup gone))
      new  == [strategy[p] EXCEPT !.hand = {}, !.discard = {}, !.deck = pool]
      hit(s) == pool \ s.deck
  IN  /\ c[2] = "policyShift"
      /\ strategy[p].deck \cap strategy[p].discard = {}
      /\ hand \cap (strategy[p].deck \cup strategy[p].discard) = {}
      /\ \E n \in 0 .. Cardinality(pool) :
           \E s \in Drawn(new, n) :
             /\ Cardinality(s.hand) >= HandLimit \/ s.deck = {}
             /\ Cardinality(s.hand) <= HandLimit
             /\ strategy' = [q \in Players |->
                  IF q = p THEN s
                  ELSE [strategy[q] EXCEPT !.hand = @ \cup {d \in home : d[1] = q}]]
             /\ card' = [d \in DOMAIN card |->
                  IF d \in home THEN [by |-> d[1], zone |-> "HAND", back |-> FALSE]
                  ELSE [card[d] EXCEPT !.zone = IF d \in gone \cup {c} THEN "REMOVED_FROM_GAME"
                                                ELSE IF d \in s.hand THEN "HAND"
                                                ELSE IF d \in hit(s) THEN "DISCARD"
                                                ELSE IF d \in pool THEN "OPERATIONS_DECK"
                                                ELSE @]]
      /\ UNCHANGED boardVars

--------------------------------------------------------------------------------
(* Effects that ask a player for cards. *)

Group(from, n) == [from |-> from, n |-> n]

Ask(effect, actor, chooser, target, source, groups) ==
  choice' = [effect |-> effect, actor |-> actor, chooser |-> chooser, target |-> target,
             source |-> source, groups |-> groups, limit |-> FALSE]

\* The discard down to the limit, after the source has been dealt with.
AskForLimit(effect, p, source, hand) ==
  choice' = [effect |-> effect, actor |-> p, chooser |-> p, target |-> p, source |-> source,
             groups |-> <<Group(hand, Cardinality(hand) - HandLimit)>>, limit |-> TRUE]

\* Three cards are drawn, whatever the records of these cards have become, and
\* a choice that is open is replaced by that of the limit.
DrawThree(p, c) ==
  /\ c[2] = "draw"
  /\ \E s \in Drawn([strategy[p] EXCEPT !.hand = @ \ {c}, !.discard = @ \cup {c}],
                    Min({3, Cardinality(strategy[p].deck)})) :
       LET off == (strategy[p].deck \ s.deck) \cup ((strategy[p].hand \ {c}) \ s.hand)
       IN  /\ strategy' = [strategy EXCEPT ![p] = s]
           /\ card' = [d \in DOMAIN card |->
                [card[d] EXCEPT !.zone = IF d \in off \ {c} /\ d \in s.hand THEN "HAND"
                                         ELSE IF d \in off \cup {c} THEN "DISCARD" ELSE @]]
           /\ IF Cardinality(s.hand) > HandLimit THEN AskForLimit("draw", p, c, s.hand)
              ELSE UNCHANGED choice
  /\ UNCHANGED boardVars

\* The priority policy, the only choice of the planning stage.
Search(p, c) ==
  /\ c[2] = "priority" /\ choice = NoChoice
  /\ Cardinality(strategy[p].deck) >= 2
  /\ Ask("priority", p, p, p, c, <<Group(strategy[p].deck, 2)>>)
  /\ UNCHANGED <<cardVars, boardVars>>

\* Double agent, discard, spy and interagency: nothing moves before the answer.
Request(p, c, q) ==
  LET own == Hand(p) \ {c}
      bin == Pile(card, p, "DISCARD")
  IN  /\ choice = NoChoice
      /\ CASE c[2] = "doubleAgent" ->
                /\ p # q /\ Hand(q) # {}
                /\ Ask("doubleAgent", p, p, q, c,
                       <<Group(Hand(q), Min({table.purge, Cardinality(Hand(q))}))>>)
           [] c[2] = "discard" ->
                /\ q = p /\ Cardinality(own) >= 2
                /\ Ask("discard", p, p, p, c,
                       <<Group(own, 2), Group(bin, Min({1, Cardinality(bin)}))>>)
           [] c[2] = "spy" ->
                /\ Hand(q) \ {c} # {}
                /\ Ask("spy", p, p, q, c, <<Group(Hand(q) \ {c}, 1)>>)
           [] c[2] = "interagency" ->
                /\ q = p /\ own # {} /\ strategy[p].deck # {}
                /\ Ask("interagency", p, p, p, c, <<Group(strategy[p].deck, 1), Group(own, 1)>>)
           [] OTHER -> FALSE
      /\ UNCHANGED <<cardVars, boardVars>>

\* Honey pot: the target, who has rolled six or less, discards an action card,
\* which here is any card that is no starter and in no campaign.
Honeypot(p, c, q) ==
  LET able == {d \in Hand(q) \ {c} : ~IsStarter(d)}
  IN  /\ c[2] = "honeypot" /\ choice = NoChoice
      /\ \/ /\ able # {}
            /\ Ask("honeypot", p, q, q, c, <<Group(able, 1)>>)
            /\ UNCHANGED cardVars
         \/ /\ WriteBack(Discarded(card, {c}))
            /\ UNCHANGED choice
      /\ UNCHANGED boardVars

InPlan == {"policyShift", "priority", "budget"}

\* executeM2Effect: the stage and the card are looked at, whoever asks.
PlayEffect(p, c) ==
  /\ phase \in (IF c[2] \in InPlan THEN {"ACTION_STAGE_PLAN"} ELSE {})
                 \cup (IF c[2] \in InPlan \ {"budget"} THEN {} ELSE {"RESOLUTION_STAGE"})
  /\ Holds(p, c)
  /\ \/ /\ \/ PayEffect(p, c) \/ CyberTheft(p, c) \/ Budget(p, c) \/ PolicyShift(p, c)
           \/ \E q \in Players : Trade(p, c, q) \/ Corrupt(p, c, q) \/ Expose(p, c, q)
        /\ UNCHANGED choice
     \/ DrawThree(p, c)
     \/ Search(p, c)
     \/ \E q \in Players : Request(p, c, q) \/ Honeypot(p, c, q)
  /\ UNCHANGED <<table, phase, talkVars, runVars>>

--------------------------------------------------------------------------------
(* Answers (submitM2EffectChoice). *)

\* The cards chosen from each group: as many as it wants, no card twice.
Picks ==
  {s \in [DOMAIN choice.groups -> SUBSET UNION {choice.groups[i].from : i \in DOMAIN choice.groups}] :
     /\ \A i \in DOMAIN s : s[i] \subseteq choice.groups[i].from
                              /\ Cardinality(s[i]) = choice.groups[i].n
     /\ \A i, j \in DOMAIN s : i # j => s[i] \cap s[j] = {}}

\* Mutated form of Current: the cards are where they were when they were offered.
StillOffered(S, p, z) == S \subseteq DOMAIN card

\* What was offered may have moved since.
Current(S, p, z) == S \subseteq Pile(card, p, z)

\* The M2 engine's answers end with the source.
Settle(cards) ==
  /\ choice.limit \/ Holds(choice.actor, choice.source)
  /\ WriteBack(IF choice.limit THEN cards ELSE Discarded(cards, {choice.source}))
  /\ choice' = NoChoice
  /\ UNCHANGED <<points, mat, holder>>

\* The two cards of the priority policy; more than the limit asks again.
AnswerSearch(p, s) ==
  LET chosen == s[1]
      hand   == (strategy[p].hand \ {choice.source}) \cup chosen
  IN  /\ choice.effect = "priority" /\ ~choice.limit
      /\ chosen \subseteq strategy[p].deck /\ choice.source \in strategy[p].hand
      /\ strategy' = [strategy EXCEPT ![p].deck = @ \ chosen, ![p].hand = hand]
      /\ card' = [d \in DOMAIN card |->
                    [card[d] EXCEPT !.zone = IF d \in chosen THEN "HAND"
                                             ELSE IF d = choice.source THEN "REMOVED_FROM_GAME"
                                             ELSE @]]
      /\ IF Cardinality(hand) > HandLimit
         THEN AskForLimit("priority", p, choice.source, hand) ELSE choice' = NoChoice
      /\ UNCHANGED boardVars

\* Mutated form of AnswerSwap: the card of the deck stays listed there.
AnswerSwapListed(p, s) ==
  /\ choice.effect = "interagency"
  /\ s[1] \subseteq strategy[p].deck
  /\ s[2] \cup {choice.source} \subseteq strategy[p].hand
  /\ Paid(p, 1)
  /\ strategy' = [strategy EXCEPT
       ![p] = [hand    |-> (@.hand \ (s[2] \cup {choice.source})) \cup s[1],
               deck    |-> @.deck \cup s[2],
               discard |-> @.discard \cup {choice.source}]]
  /\ card' = [d \in DOMAIN card |->
                [card[d] EXCEPT !.zone = IF d = choice.source THEN "DISCARD"
                                         ELSE IF d \in s[2] THEN "OPERATIONS_DECK"
                                         ELSE IF d \in s[1] THEN "HAND" ELSE @]]
  /\ choice' = NoChoice
  /\ UNCHANGED <<points, mat, holder>>

\* Interagency: a card of the deck for one of the hand, and a resource.
AnswerSwap(p, s) ==
  /\ choice.effect = "interagency"
  /\ s[1] \subseteq strategy[p].deck
  /\ s[2] \cup {choice.source} \subseteq strategy[p].hand
  /\ Paid(p, 1)
  /\ strategy' = [strategy EXCEPT
       ![p] = [hand    |-> (@.hand \ (s[2] \cup {choice.source})) \cup s[1],
               deck    |-> (@.deck \ s[1]) \cup s[2],
               discard |-> @.discard \cup {choice.source}]]
  /\ card' = [d \in DOMAIN card |->
                [card[d] EXCEPT !.zone = IF d = choice.source THEN "DISCARD"
                                         ELSE IF d \in s[2] THEN "OPERATIONS_DECK"
                                         ELSE IF d \in s[1] THEN "HAND" ELSE @]]
  /\ choice' = NoChoice
  /\ UNCHANGED <<points, mat, holder>>

\* Spy: the card that was pointed at becomes the actor's.
AnswerSpy(s) ==
  LET taken == [d \in DOMAIN card |->
                  IF d \in s[1] THEN [by |-> choice.actor, zone |-> "HAND",
                                      back |-> d[1] # choice.actor]
                  ELSE card[d]]
  IN  /\ choice.effect = "spy"
      /\ Current(s[1], choice.target, "HAND")
      /\ Settle(taken)
      /\ UNCHANGED money

\* Mutated form of AnswerDiscard: the price is not looked at again.
AnswerDiscardUnpaid(s) ==
  /\ choice.effect \in {"honeypot", "doubleAgent"} \/ choice.limit
  /\ Current(s[1], choice.target, "HAND")
  /\ money' = IF choice.effect = "doubleAgent" THEN [money EXCEPT ![choice.actor] = @ - 1]
              ELSE money
  /\ Settle(Discarded(card, s[1]))

\* Honey pot, double agent and the hand limit: cards of the target's hand.
AnswerDiscard(s) ==
  /\ choice.effect \in {"honeypot", "doubleAgent"} \/ choice.limit
  /\ Current(s[1], choice.target, "HAND")
  /\ IF choice.effect = "doubleAgent" THEN Paid(choice.actor, 1) ELSE UNCHANGED money
  /\ Settle(Discarded(card, s[1]))

\* Discard: two cards of the hand for one of the discard pile.
AnswerRetrieve(s) ==
  LET thrown == Discarded(card, s[1])
  IN  /\ choice.effect = "discard"
      /\ Current(s[1], choice.actor, "HAND") /\ Current(s[2], choice.actor, "DISCARD")
      /\ Settle([d \in DOMAIN card |-> IF d \in s[2] THEN [thrown[d] EXCEPT !.zone = "HAND"]
                                        ELSE thrown[d]])
      /\ UNCHANGED money

Answer(p) ==
  /\ choice # NoChoice /\ choice.chooser = p
  /\ phase = IF choice.effect = "priority" THEN "ACTION_STAGE_PLAN" ELSE "RESOLUTION_STAGE"
  /\ \E s \in Picks :
       \/ AnswerSearch(p, s) \/ AnswerSwap(p, s)
       \/ AnswerSpy(s) \/ AnswerDiscard(s) \/ AnswerRetrieve(s)
  /\ UNCHANGED <<table, phase, talkVars, runVars>>

--------------------------------------------------------------------------------
(* Reaction windows. *)

\* The card that must have been played for a trigger, and the reaction to it.
TriggerCard == [DOUBLE_AGENT |-> "doubleAgent", CORRUPTION |-> "corruption",
                CYBERATTACK |-> "cyberattack", HACK_BACK |-> "hackBack",
                LEAKS_DRAWN |-> "leaks"]
Reaction == [counterintelligence |-> "DOUBLE_AGENT", anticorruption |-> "CORRUPTION",
             hackBack |-> "CYBERATTACK", cybersecurity |-> "HACK_BACK",
             protocols |-> "LEAKS_DRAWN", firstRefusal |-> "PRE_ROLL", veto |-> "NARRATIVE"]

\* reactionPriority: the others, from the player after p on.
After(order, p) ==
  LET k == CHOOSE i \in DOMAIN order : order[i] = p
  IN  SubSeq(order, k + 1, Len(order)) \o SubSeq(order, 1, k - 1)

Opened(trigger, p, order, c) ==
  [status |-> "WAITING_FOR_PRIORITY_PLAYER", trigger |-> trigger, by |-> p,
   priority |-> After(order, p), next |-> 1, card |-> c, refused |-> {}]

IsOpen == window.status = "WAITING_FOR_PRIORITY_PLAYER"

HasPriority(p) ==
  IsOpen /\ window.next \in DOMAIN window.priority /\ window.priority[window.next] = p

\* openM2Reaction
OpenWindow(p, trigger) ==
  /\ phase = "RESOLUTION_STAGE" /\ ~IsOpen
  /\ calls.windows < table.windows
  /\ calls' = [calls EXCEPT !.windows = @ + 1]
  /\ \/ /\ trigger \in DOMAIN TriggerCard
        /\ \E c \in DOMAIN card :
             /\ c[2] = TriggerCard[trigger] /\ card[c].by = p
             /\ trigger = "LEAKS_DRAWN" => Holds(p, c)
             /\ window' = Opened(trigger, p, Order, c)
     \/ /\ trigger \in {"PRE_ROLL", "NARRATIVE"} /\ mat[p] # {}
        /\ window' = Opened(trigger, p, Order, <<Nobody, "NONE">>)
  /\ UNCHANGED <<table, phase, cardVars, boardVars, choice, veto, blocked, plan, ran>>

\* passReaction; the last pass closes the window.
Pass(p) ==
  /\ phase = "RESOLUTION_STAGE" /\ HasPriority(p)
  /\ window' = [window EXCEPT !.next = @ + 1,
                  !.status = IF window.next = Len(window.priority) THEN "CLOSED" ELSE @]
  /\ UNCHANGED <<table, phase, cardVars, boardVars, choice, veto, blocked, runVars>>

\* What a reaction discards, whether or not its die allows it to negate.
Negate(p, c) ==
  /\ c[2] \in {"counterintelligence", "anticorruption", "cybersecurity"}
  /\ WriteBack(Discarded(card, {c}))
  /\ window' = [window EXCEPT !.status = "CLOSED"]
  /\ UNCHANGED <<mat, veto>>

\* The right of first refusal, on a roll of four or less, takes the campaign.
FirstRefusal(p, c) ==
  /\ c[2] = "firstRefusal" /\ mat[window.by] # {}
  /\ \/ /\ WriteBack(Discarded(card, {c})) /\ mat' = mat
     \/ /\ WriteBack(Discarded(Discarded(card, {c}), mat[window.by]))
        /\ mat' = [mat EXCEPT ![window.by] = {}]
  /\ window' = [window EXCEPT !.status = "CLOSED"]
  /\ veto' = veto

\* Security protocols go with the Leaks card, if that is still where it was.
Intercept(p, c) ==
  /\ c[2] = "protocols" /\ Holds(window.by, window.card)
  /\ WriteBack(Discarded(card, {c, window.card}))
  /\ window' = [window EXCEPT !.status = "CLOSED"]
  /\ UNCHANGED <<mat, veto>>

\* A hack back may be answered by the attacker alone, in a window that takes
\* the place of the first: nothing goes back to that one.
HackBack(p, c) ==
  /\ c[2] = "hackBack"
  /\ WriteBack(Discarded(card, {c}))
  /\ window' = Opened("HACK_BACK", p, <<p, window.by>>, c)
  /\ UNCHANGED <<mat, veto>>

\* The veto stays in the hand until the votes are counted.
Object(p, c) ==
  /\ c[2] = "veto" /\ p \notin window.refused
  /\ mat[window.by] # {} /\ veto = NoVeto
  /\ WriteBack(card)
  /\ veto' = [NoVeto EXCEPT !.status = "AWAITING_DEFENSE", !.card = c, !.by = p, !.of = window.by]
  /\ window' = [window EXCEPT !.status = "CLOSED"]
  /\ mat' = mat

\* playReaction
React(p, c) ==
  /\ phase = "RESOLUTION_STAGE" /\ HasPriority(p) /\ Holds(p, c)
  /\ c[2] \in DOMAIN Reaction /\ Reaction[c[2]] = window.trigger
  /\ \/ Negate(p, c) \/ FirstRefusal(p, c) \/ Intercept(p, c) \/ HackBack(p, c) \/ Object(p, c)
  /\ UNCHANGED <<table, phase, money, points, holder, choice, blocked, runVars>>

--------------------------------------------------------------------------------
(* The veto. *)

\* resolveVetoAbuse: the facilitator lets or does not let the player with the
\* priority object.
ReviewAbuse(reject) ==
  /\ phase = "RESOLUTION_STAGE"
  /\ window.trigger = "NARRATIVE" /\ window.next <= Len(window.priority)
  /\ table.reviews
  /\ LET p == window.priority[window.next]
     IN  window' = [window EXCEPT !.refused = IF reject THEN @ \cup {p} ELSE @ \ {p}]
  /\ UNCHANGED <<table, phase, cardVars, boardVars, choice, veto, blocked, runVars>>

\* submitVetoDefense
Defend(p) ==
  /\ phase = "RESOLUTION_STAGE"
  /\ veto.status = "AWAITING_DEFENSE" /\ veto.of = p
  /\ veto' = [veto EXCEPT !.status = "VOTING"]
  /\ UNCHANGED <<table, phase, cardVars, boardVars, choice, window, blocked, runVars>>

Against(votes) == {p \in Players : votes[p] = "UNACCEPTABLE"}

\* Mutated form of Electorate: the player who objects does not vote.
Others == Players \ {veto.by}

\* electorateParticipantIds
Electorate == Players

\* Mutated form of Rejects: half of the votes, rounded down, are enough.
RejectsHalf(votes) == Cardinality(Against(votes)) >= Cardinality(Players) \div 2

\* resolveVeto: a strict majority.
Rejects(votes) == 2 * Cardinality(Against(votes)) > Cardinality(Players)

\* The verdict.  The vote that brings it is refused, and so is every later one,
\* when the card has left the hand, or when the campaign to discard is gone.
Verdict(votes) ==
  LET c     == veto.card
      spent == Removed(Discarded(card, {c}), c)
  IN  /\ card[c].zone = "HAND"
      /\ IF Rejects(votes)
         THEN /\ mat[veto.of] # {}
              /\ WriteBack(Discarded(spent, mat[veto.of]))
              /\ mat' = [mat EXCEPT ![veto.of] = {}]
              /\ blocked' = blocked \cup {veto.of}
              /\ window' = NoWindow
         ELSE /\ WriteBack(spent)
              /\ window' = Opened("NARRATIVE", veto.of, Order, <<Nobody, "NONE">>)
              /\ UNCHANGED <<mat, blocked>>
      /\ veto' = NoVeto

\* castVetoVote
Vote(p, v) ==
  /\ phase = "RESOLUTION_STAGE"
  /\ veto.status = "VOTING" /\ p \in Electorate /\ veto.votes[p] = "NONE"
  /\ LET votes == [veto.votes EXCEPT ![p] = v]
     IN  IF \E q \in Players : votes[q] = "NONE"
         THEN /\ veto' = [veto EXCEPT !.votes = votes]
              /\ UNCHANGED <<cardVars, mat, window, blocked>>
         ELSE Verdict(votes)
  /\ UNCHANGED <<table, phase, money, points, holder, choice, runVars>>

--------------------------------------------------------------------------------
(* Core operations (executeM2CoreOperation). *)

\* applyBacklash: as many points as cubes are placed.
Backlash(o) ==
  /\ \E placed \in 0 .. o.amount : points' = [points EXCEPT ![o.by] = Max({0, @ - placed})]
  /\ WriteBack(card)
  /\ UNCHANGED <<money, mat, holder>>

\* establishLegitimacy: a fourth marker of a player replaces another one.
Establish(o) ==
  LET own == {pd \in DOMAIN holder : holder[pd] = o.by}
  IN  /\ IF Cardinality(own) < 3 THEN holder' = [holder EXCEPT ![o.pd] = o.by]
         ELSE \E other \in own :
                holder' = [[holder EXCEPT ![other] = Nobody] EXCEPT ![o.pd] = o.by]
      /\ points' = [points EXCEPT ![o.by] = @ + 1]
      /\ WriteBack(card)
      /\ UNCHANGED <<money, mat>>

\* modifyCampaignCard
Modify(o) ==
  /\ o.old \in mat[o.by] /\ Holds(o.by, o.new)
  /\ WriteBack([Discarded(card, {o.old}) EXCEPT ![o.new].zone = "CAMPAIGN"])
  /\ mat' = [mat EXCEPT ![o.by] = (@ \ {o.old}) \cup {o.new}]
  /\ UNCHANGED <<money, points, holder>>

\* discardCampaign
Dismantle(o) ==
  /\ mat[o.by] # {}
  /\ WriteBack(Discarded(card, mat[o.by]))
  /\ mat' = [mat EXCEPT ![o.by] = {}]
  /\ UNCHANGED <<money, points, holder>>

\* playStarter
PlayStarter(o) ==
  /\ IsStarter(o.card) /\ Holds(o.by, o.card)
  /\ money' = [money EXCEPT ![o.by] = @ + (IF o.card[2] = "budget" THEN 4 ELSE 0)]
  /\ WriteBack(Removed(card, o.card))
  /\ UNCHANGED <<points, mat, holder>>

\* stealBlindCard, even a card of one's own.
Steal(o) ==
  /\ o.by # o.from
  /\ \E c \in Hand(o.from) :
       WriteBack([card EXCEPT ![c] = [by |-> o.by, zone |-> "HAND", back |-> TRUE]])
  /\ UNCHANGED boardVars

Operate(o) ==
  \/ o.kind = "APPLY_BACKLASH" /\ Backlash(o)
  \/ o.kind = "ESTABLISH_LEGITIMACY" /\ Establish(o)
  \/ o.kind = "MODIFY_CAMPAIGN" /\ Modify(o)
  \/ o.kind = "DISCARD_CAMPAIGN" /\ Dismantle(o)
  \/ o.kind = "PLAY_STARTER" /\ PlayStarter(o)
  \/ o.kind = "STEAL_BLIND_CARD" /\ Steal(o)

\* An operation of no plan.
Core(o) ==
  /\ phase = "RESOLUTION_STAGE" /\ calls.ops < table.ops
  /\ Operate(o)
  /\ calls' = [calls EXCEPT !.ops = @ + 1]
  /\ UNCHANGED <<table, phase, choice, talkVars, plan, ran>>

\* Mutated form of MayRun: another plan may be unfinished.
MayRunAny(id, k) == k = IF plan.id = id THEN plan.next ELSE 1

\* Nothing but the next operation of the unfinished plan may run.
MayRun(id, k) ==
  LET active == plan # NoPlan /\ plan.next <= Len(table.plans[plan.id])
  IN  IF active THEN plan.id = id /\ plan.next = k ELSE k = 1

\* runM2CoreScheduler: the key of an operation is its plan and its place, and a
\* key that has been committed is answered without another execution.
RunPlan(id, k) ==
  /\ phase = "RESOLUTION_STAGE"
  /\ <<id, k>> \notin Range(ran)
  /\ MayRun(id, k)
  /\ Operate(table.plans[id][k])
  /\ plan' = [id |-> id, next |-> k + 1]
  /\ ran' = Append(ran, <<id, k>>)
  /\ UNCHANGED <<table, phase, choice, talkVars, calls>>

--------------------------------------------------------------------------------

Init ==
  /\ table \in Tables
  /\ phase = table.phase
  /\ card = [c \in DOMAIN table.cards |-> [by |-> c[1], zone |-> table.cards[c], back |-> FALSE]]
  /\ strategy = [p \in Players |-> [deck    |-> Pile(card, p, "OPERATIONS_DECK"),
                                    hand    |-> Pile(card, p, "HAND"),
                                    discard |-> Pile(card, p, "DISCARD")]]
  /\ money = table.money
  /\ points = [p \in Players |-> 1]
  /\ mat = [p \in Players |-> Pile(card, p, "CAMPAIGN")]
  /\ holder = table.holder
  /\ choice = NoChoice /\ window = NoWindow /\ veto = NoVeto /\ blocked = {}
  /\ plan = NoPlan /\ ran = <<>>
  /\ calls = [windows |-> 0, ops |-> 0]

\* lockActionPlan, of the last player: it looks at no choice.
PlansLocked ==
  /\ phase = "ACTION_STAGE_PLAN"
  /\ phase' = "RESOLUTION_STAGE"
  /\ UNCHANGED <<table, cardVars, boardVars, choice, talkVars, runVars>>

Triggers == DOMAIN TriggerCard \cup {"PRE_ROLL", "NARRATIVE"}

Next ==
  \/ PlansLocked
  \/ \E p \in Players :
       \/ \E c \in DOMAIN card : PlayEffect(p, c) \/ React(p, c)
       \/ Answer(p)
       \/ \E t \in Triggers : OpenWindow(p, t)
       \/ Pass(p)
       \/ Defend(p)
       \/ \E v \in {"ACCEPTABLE", "UNACCEPTABLE"} : Vote(p, v)
  \/ \E reject \in BOOLEAN : ReviewAbuse(reject)
  \/ \E o \in table.loose : Core(o)
  \/ \E id \in DOMAIN table.plans : \E k \in DOMAIN table.plans[id] : RunPlan(id, k)

Spec == Init /\ [][Next]_vars

\* Players pass when it is their turn to react, defend and vote; nobody has to
\* play a card.
Fairness ==
  \A p \in Players :
    /\ WF_vars(Pass(p))
    /\ WF_vars(Defend(p))
    /\ WF_vars(\E v \in {"ACCEPTABLE", "UNACCEPTABLE"} : Vote(p, v))

FairSpec == Spec /\ Fairness

--------------------------------------------------------------------------------
(* Properties. *)

Cards == DOMAIN card

\* The shape of the state; nobody pays, at once or with an answer, what is not
\* there (resources never become negative).
TypeOK ==
  /\ table \in Tables /\ phase \in {"ACTION_STAGE_PLAN", "RESOLUTION_STAGE"}
  /\ card \in [Cards -> [by : Players, zone : Zones, back : BOOLEAN]]
  /\ strategy \in [Players -> [deck : SUBSET Cards, hand : SUBSET Cards, discard : SUBSET Cards]]
  /\ money \in [Players -> Nat] /\ points \in [Players -> Nat]
  /\ mat \in [Players -> SUBSET Cards]
  /\ \A pd \in DOMAIN holder : holder[pd] \in Players \cup {Nobody}
  /\ choice.chooser \in Players \cup {Nobody} /\ choice.limit \in BOOLEAN
  /\ window.status \in {"NONE", "WAITING_FOR_PRIORITY_PLAYER", "CLOSED"}
  /\ window.next \in 1 .. Len(window.priority) + 1
  /\ veto.status \in {"NONE", "AWAITING_DEFENSE", "VOTING"} /\ blocked \subseteq Players
  /\ plan.id \in DOMAIN table.plans \cup {"NONE"}
  /\ calls.windows \in 0 .. table.windows /\ calls.ops \in 0 .. table.ops

\* Where the records of the cards of a deck say they are: WriteBack moves the
\* record of a card, and not the card, to the discard pile.
Stacked == {"OPERATIONS_DECK", "DISCARD"}

\* The record of a card and the lists of the players agree.
InPlace(c) ==
  \A p \in Players :
    /\ c \in strategy[p].hand <=> Holds(p, c)
    /\ c \in strategy[p].deck => card[c].by = p /\ card[c].zone \in Stacked
    /\ c \in mat[p] => card[c].by = p /\ card[c].zone = "CAMPAIGN"

\* The discard effect brings a card to the hand from the discard pile, where
\* WriteBack had recorded it, while the deck goes on listing it.
Retrieved(c) ==
  /\ choice.effect = "discard" /\ \E p \in Players : Answer(p)
  /\ card[c].zone = "DISCARD" /\ card'[c].zone = "HAND"
  /\ \E p \in Players : c \in strategy[p].deck \cap strategy'[p].deck

\* No draw, exchange, theft, answer, veto or core operation, in whatever order,
\* ever makes the lists of the players disagree with the record of a card (say,
\* a card of one player's hand that another's deck lists), except for the
\* retrieval of a card that a deck still lists (section 6 of the README).
OnlyRetrievalMisplaces ==
  [][\A c \in Cards : InPlace(c) => InPlace(c)' \/ Retrieved(c)]_vars

\* What has happened to a card: to its record, but for the flattening, or to
\* its place in a hand.
Moved(c) ==
  \/ Flattened(card)[c] # Flattened(card')[c]
  \/ \E q \in Players : ~ (c \in strategy[q].hand <=> c \in strategy'[q].hand)

\* An answer moves the card that was played, if the actor has it, and takes
\* cards only from where they were offered, as they are at that moment: out of
\* the hand of the target, or of the deck or the discard pile of the chooser.
\* Whatever else happened between the request and the answer, a card that has
\* been stolen, discarded or played since is not taken again.  What is said of
\* a card holds while it is in place.
AnswersAreCurrent ==
  [][\A p \in Players, c \in Cards :
       Answer(p) /\ InPlace(c) /\ Moved(c) =>
         \/ c = choice.source /\ card[c].by = choice.actor
         \/ /\ \E i \in DOMAIN choice.groups : c \in choice.groups[i].from
            /\ card[c].by = choice.target]_vars

\* The operations of a plan run once each and in order, and another plan does
\* not begin before the last of them has run, however the runs of the server
\* overlap or are repeated (schedulerPlan of executeM2CoreOperation).
PlansDoNotInterleave ==
  \A i \in DOMAIN ran :
    /\ \A j \in DOMAIN ran : ran[i] = ran[j] => i = j
    /\ IF ran[i][2] = 1
       THEN i = 1 \/ ran[i - 1][2] = Len(table.plans[ran[i - 1][1]])
       ELSE i > 1 /\ ran[i - 1] = <<ran[i][1], ran[i][2] - 1>>

\* A veto ends with everybody's vote: the card is out of the game, and exactly
\* a strict majority takes the campaign and blocks its owner.
VetoSettled ==
  [][veto # NoVeto /\ veto' = NoVeto =>
       \E last \in Players, v \in {"ACCEPTABLE", "UNACCEPTABLE"} :
         LET votes == [veto.votes EXCEPT ![last] = v]
             against == Cardinality({p \in Players : votes[p] = "UNACCEPTABLE"})
             rejected == against > Cardinality(Players) - against
         IN  /\ \A p \in Players : votes[p] # "NONE"
             /\ card'[veto.card].zone = "REMOVED_FROM_GAME"
             /\ rejected <=> mat'[veto.of] # mat[veto.of]
             /\ rejected => veto.of \in blocked' /\ mat'[veto.of] = {}]_vars

\* A reaction window is closed in the end, also when a hack back or a veto that
\* failed has put another one in its place; and a veto is decided, unless its
\* card or its campaign is gone before the last vote, which is then refused.
ReactionsEnd ==
  /\ window.status = "WAITING_FOR_PRIORITY_PLAYER"
       ~> window.status # "WAITING_FOR_PRIORITY_PLAYER"
  /\ veto # NoVeto
       ~> (veto = NoVeto \/ card[veto.card].zone # "HAND" \/ mat[veto.of] = {})
================================================================================
