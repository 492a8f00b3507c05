---------------------------- MODULE TurnPreparation ----------------------------
(***************************************************************************)
(* The commands that take a game from its creation to the resolution       *)
(* stage: SetupCommandDispatcher.reduce in                                 *)
(* packages/game-engine/src/setup-dispatcher.ts, for the phases SETUP,     *)
(* STRATEGY_STAGE, INITIATIVE_STAGE and ACTION_STAGE_PLAN, with the deals  *)
(* and the pause that may arrive between any two of them.                  *)
(*                                                                         *)
(* Every command is prepared on a copy of the state and committed whole or *)
(* not at all, so that it is one action; its {error} returns are the       *)
(* guards.  A card is a pair <<country, name>>; the code keeps where a     *)
(* card is twice, in the card (zone, controller) and in the piles of a     *)
(* player's strategy, and so does the model.  A deck is a set from which   *)
(* any card may come next: it has been shuffled.                           *)
(***************************************************************************)
EXTENDS Sequences, FiniteSets, Functions, CampaignRules, CardPiles

CONSTANTS
  Players,     \* canonicalPlayerIds
  Home,        \* [Players -> country], the canonical topology
  Index,       \* [Players -> 1 ..], the canonical seat indices
  StartMoney,  \* [countries -> startingResources]
  Income,      \* [countries -> turnIncome]
  Tables       \* the instances explored: card pools, limits and bounds

Countries == Range(Home)
Places    == Range(Index)

ASSUME TopologyAssumption ==
  /\ IsFiniteSet(Players) /\ Nobody \notin Players
  /\ Home \in [Players -> Countries] /\ Index \in [Players -> Places]
  /\ IsInjective(Home) /\ IsInjective(Index)
  /\ "NONE" \notin Countries /\ Places \subseteq Nat
  /\ StartMoney \in [Countries -> Nat] /\ Income \in [Countries -> Nat]

\* The starters and the first cards of the deck are not more than a hand holds.
ASSUME HandAssumption ==
  /\ IsFiniteSet(Starters)
  /\ \A t \in Tables :
       /\ {t.opening, t.limit, t.deals, t.pauses} \subseteq Nat
       /\ Cardinality(Starters) + t.opening <= t.limit

VARIABLES
  table,        \* the instance; pool, deckSize, opening, limit, deals, pauses, ...
  phase,        \* state.phase
  paused,       \* state.overlay = "PAUSED"
  variant,      \* state.viralVariant
  joined,       \* the players among state.participants
  seat,         \* state.seats
  card,         \* state.cards: [by |-> controllerParticipantId, zone |-> zone]
  strategy,     \* state.strategy
  initiative,   \* state.initiative: status and orderParticipantIds
  maintenance,  \* state.initiative.maintenance
  planning,     \* state.actionPlanning
  money,        \* resources of state.countries
  deals,        \* deals made, against the bound table.deals
  pauses        \* pauses made, against the bound table.pauses

setupVars   == <<table, variant, joined, seat>>
stageVars   == <<initiative, maintenance, planning>>
cardVars    == <<card, strategy>>
prepVars    == <<setupVars, phase, paused, cardVars, stageVars, money, deals, pauses>>

--------------------------------------------------------------------------------

NoSeat == [country |-> "NONE", index |-> 0]
Seated == {p \in Players : seat[p] # NoSeat}

EmptyStrategy == [submitted |-> {}, deck |-> {}, hand |-> {}, discard |-> {}, locked |-> FALSE]
NoMaintenance == [discards |-> {}, submitted |-> FALSE, locked |-> FALSE]
NoPlan        == [cards |-> {}, locked |-> FALSE, done |-> FALSE]

\* createGame, which leaves every card in a pool and nobody seated.
PrepInit ==
  /\ table \in Tables
  /\ phase = "SETUP" /\ paused = FALSE /\ variant = "BASELINE"
  /\ joined = {}
  /\ seat = [p \in Players |-> NoSeat]
  /\ card = [c \in UNION {{n} \X (Starters \cup table.pool[n]) : n \in Countries} |->
               [by |-> Nobody,
                zone |-> IF IsStarter(c) THEN "STARTER_POOL" ELSE "OPERATIONS_POOL"]]
  /\ strategy = [p \in Players |-> EmptyStrategy]
  /\ initiative = [status |-> "PENDING_ROLL", order |-> <<>>]
  /\ maintenance = [p \in Players |-> NoMaintenance]
  /\ planning = [p \in Players |-> NoPlan]
  /\ money = StartMoney
  /\ deals = 0 /\ pauses = 0

--------------------------------------------------------------------------------
(* Setup: who plays, where they sit and the options of the game. *)

\* join
Join(p) ==
  /\ phase = "SETUP" /\ p \notin joined
  /\ joined' = joined \cup {p}
  /\ UNCHANGED <<table, variant, seat, phase, paused, cardVars, stageVars, money, deals, pauses>>

\* assignSeat: any free country and any free place; there is no way back.
AssignSeat(p, c, i) ==
  /\ phase = "SETUP" /\ p \in joined /\ p \notin Seated
  /\ \A q \in Seated : seat[q].country # c /\ seat[q].index # i
  /\ seat' = [seat EXCEPT ![p] = [country |-> c, index |-> i]]
  /\ card' = [d \in DOMAIN card |-> IF d[1] = c THEN [card[d] EXCEPT !.by = p] ELSE card[d]]
  /\ UNCHANGED <<table, variant, joined, phase, paused, strategy, stageVars, money, deals, pauses>>

\* configureOption; the turn limit and the dice mode change nothing here.
ConfigureOption(v) ==
  /\ phase = "SETUP" /\ v \in table.variants
  /\ variant' = v
  /\ UNCHANGED <<table, joined, seat, phase, paused, cardVars, stageVars, money, deals, pauses>>

\* validStartState: everyone is in the canonical seat.
CanonicalSeating ==
  \A p \in Players : seat[p] = [country |-> Home[p], index |-> Index[p]]

\* startGame
StartGame ==
  /\ phase = "SETUP" /\ ~paused /\ joined = Players /\ CanonicalSeating
  /\ phase' = "STRATEGY_STAGE"
  /\ UNCHANGED <<setupVars, paused, cardVars, stageVars, money, deals, pauses>>

\* pause and resume: the overlay that pauseBlockedCommands and every internal
\* operation look at.
Pause ==
  /\ ~paused /\ pauses < table.pauses
  /\ paused' = TRUE /\ pauses' = pauses + 1
  /\ UNCHANGED <<setupVars, phase, cardVars, stageVars, money, deals>>

Resume ==
  /\ paused /\ paused' = FALSE
  /\ UNCHANGED <<setupVars, phase, cardVars, stageVars, money, deals, pauses>>

--------------------------------------------------------------------------------
(* Drawing cards. *)

Full(s)      == Cardinality(s.hand) >= table.limit
Exhausted(s) == s.deck = {} /\ s.discard = {}

\* The discard pile is shuffled into an empty deck.
Reshuffled(s) == IF s.deck = {} THEN [s EXCEPT !.deck = s.discard, !.discard = {}] ELSE s

\* The loop of lockInitiativeMaintenance.  A discarded Leaks card may be drawn
\* and intercepted again after a reshuffle; twice the hand limit bounds that.
Filled(s) ==
  LET Draw(t) == IF Full(t) \/ Exhausted(t) THEN {t} ELSE DrawAny(Reshuffled(t))
      after[k \in 0 .. 2 * table.limit] ==
        IF k = 0 THEN {s} ELSE UNION {Draw(t) : t \in after[k - 1]}
  IN  {t \in after[2 * table.limit] : Full(t) \/ Exhausted(t)}

\* The cards of p after its piles have become those of s.
Filed(p, s) ==
  [c \in DOMAIN card |->
     IF c \in s.hand \cup s.deck \cup s.discard
     THEN [by |-> p, zone |-> IF c \in s.hand THEN "HAND"
                              ELSE IF c \in s.deck THEN "OPERATIONS_DECK" ELSE "DISCARD"]
     ELSE card[c]]

--------------------------------------------------------------------------------
(* Strategy stage: the decks. *)

\* deckEligibilityError
DeckEligible(p, d) ==
  /\ Cardinality(d) = table.deckSize
  /\ \A c \in d : card[c].by = p /\ ~IsStarter(c) /\ card[c].zone = "OPERATIONS_POOL"

\* submitDeck, as often as the player likes before the lock.
SubmitDeck(p) ==
  /\ phase = "STRATEGY_STAGE" /\ ~paused /\ ~strategy[p].locked
  /\ \E d \in SUBSET {c \in DOMAIN card : card[c].by = p} :
       /\ DeckEligible(p, d)
       /\ strategy' = [strategy EXCEPT ![p].submitted = d]
  /\ UNCHANGED <<setupVars, phase, paused, card, stageVars, money, deals, pauses>>

\* lockStrategy: the deck is shuffled, the starters and the first cards of the
\* deck make the opening hand; the last lock opens the initiative stage.
LockStrategy(p) ==
  /\ phase = "STRATEGY_STAGE" /\ ~paused /\ ~strategy[p].locked
  /\ strategy[p].submitted # {} /\ DeckEligible(p, strategy[p].submitted)
  /\ LET dealt == [strategy[p] EXCEPT
                     !.deck = strategy[p].submitted, !.discard = {}, !.locked = TRUE,
                     !.hand = {c \in DOMAIN card : card[c].by = p /\ IsStarter(c)}]
     IN  \E s \in Drawn(dealt, table.opening) :
           /\ strategy' = [strategy EXCEPT ![p] = s]
           /\ card' = Filed(p, s)
  /\ phase' = IF \A q \in Players \ {p} : strategy[q].locked
              THEN "INITIATIVE_STAGE" ELSE phase
  /\ UNCHANGED <<setupVars, paused, stageVars, money, deals, pauses>>

--------------------------------------------------------------------------------
(* Initiative stage: the roll and the maintenance of every player in turn. *)

\* resolveInitiative: the seats in order, beginning with the winner.
OrderFrom(winner) ==
  [k \in 1 .. Cardinality(Players) |->
     CHOOSE p \in Players :
       Cardinality({q \in Players : seat[q].index < seat[p].index}) =
         (Cardinality({q \in Players : seat[q].index < seat[winner].index}) + k - 1)
           % Cardinality(Players)]

\* Only the first seat may ask; the dice, thrown again among the highest
\* until one is alone, make anyone the winner.
ResolveInitiative(p) ==
  /\ phase = "INITIATIVE_STAGE" /\ ~paused
  /\ initiative.status = "PENDING_ROLL"
  /\ p \in Seated /\ \A q \in Seated : seat[p].index <= seat[q].index
  /\ \E winner \in Seated :
       initiative' = [status |-> "MAINTENANCE", order |-> OrderFrom(winner)]
  /\ UNCHANGED <<setupVars, phase, paused, cardVars, maintenance, planning, money, deals, pauses>>

\* The first player of the order who has not locked.
MaintenanceTurn(p) ==
  \E k \in DOMAIN initiative.order :
    /\ initiative.order[k] = p /\ ~maintenance[p].locked
    /\ \A j \in 1 .. k - 1 : maintenance[initiative.order[j]].locked

InHand(p, c) == card[c] = [by |-> p, zone |-> "HAND"] /\ c \in strategy[p].hand

\* setInitiativeMaintenance
SetMaintenance(p) ==
  /\ phase = "INITIATIVE_STAGE" /\ ~paused
  /\ initiative.status = "MAINTENANCE" /\ MaintenanceTurn(p)
  /\ \E d \in SUBSET strategy[p].hand :
       /\ \A c \in d : InHand(p, c)
       /\ maintenance' = [maintenance EXCEPT ![p].discards = d, ![p].submitted = TRUE]
  /\ UNCHANGED <<setupVars, phase, paused, cardVars, initiative, planning, money, deals, pauses>>

\* lockInitiativeMaintenance: the selection, which a deal may have spoilt, is
\* discarded, the hand is filled and the income is paid; the last player to
\* lock opens the planning of actions.  No card of this module is marked to
\* return to its owner.
LockMaintenance(p) ==
  /\ phase = "INITIATIVE_STAGE" /\ ~paused
  /\ initiative.status = "MAINTENANCE" /\ MaintenanceTurn(p)
  /\ maintenance[p].submitted
  /\ \A c \in maintenance[p].discards : InHand(p, c)
  /\ LET d == maintenance[p].discards
     IN  \E s \in Filled([strategy[p] EXCEPT !.hand = @ \ d, !.discard = @ \cup d]) :
           /\ strategy' = [strategy EXCEPT ![p] = s]
           /\ card' = Filed(p, s)
  /\ money' = [money EXCEPT ![seat[p].country] = @ + Income[seat[p].country]]
  /\ maintenance' = [maintenance EXCEPT ![p].locked = TRUE]
  /\ IF \A q \in Players \ {p} : maintenance[q].locked
     THEN /\ phase' = "ACTION_STAGE_PLAN"
          /\ initiative' = [initiative EXCEPT !.status = "COMPLETE"]
          /\ planning' = [q \in Players |-> NoPlan]
     ELSE UNCHANGED <<phase, initiative, planning>>
  /\ UNCHANGED <<setupVars, paused, deals, pauses>>

--------------------------------------------------------------------------------
(* Deals, which are open in the initiative stage and while plans are made. *)

\* negotiationParticipants
MayDeal(p, q) ==
  /\ p \in Seated /\ q \in joined /\ p # q /\ ~paused
  /\ \/ phase = "INITIATIVE_STAGE"
     \/ phase = "ACTION_STAGE_PLAN" /\ ~planning[p].locked

\* Mutated form of DealResources: the payer's balance is not looked at.
DealUncovered(p, q) ==
  /\ MayDeal(p, q) /\ q \in Seated /\ deals < table.deals
  /\ money' = [money EXCEPT ![seat[p].country] = @ - 1, ![seat[q].country] = @ + 1]
  /\ deals' = deals + 1
  /\ UNCHANGED <<setupVars, phase, paused, cardVars, stageVars, pauses>>

\* Mutated form of DealResources: the payee is credited, nobody is charged.
DealMinted(p, q) ==
  /\ MayDeal(p, q) /\ q \in Seated /\ deals < table.deals
  /\ money[seat[p].country] >= 1
  /\ money' = [money EXCEPT ![seat[q].country] = @ + 1]
  /\ deals' = deals + 1
  /\ UNCHANGED <<setupVars, phase, paused, cardVars, stageVars, pauses>>

\* transferDealResources, one unit at a time.
DealResources(p, q) ==
  /\ MayDeal(p, q) /\ q \in Seated /\ deals < table.deals
  /\ money[seat[p].country] >= 1
  /\ money' = [money EXCEPT ![seat[p].country] = @ - 1, ![seat[q].country] = @ + 1]
  /\ deals' = deals + 1
  /\ UNCHANGED <<setupVars, phase, paused, cardVars, stageVars, pauses>>

\* transferDealCard: a card of the hand, whatever has been planned with it, to
\* a player whose hand is not full.
DealCard(p, q, c) ==
  /\ MayDeal(p, q) /\ q \in Seated /\ deals < table.deals
  /\ InHand(p, c) /\ ~Full(strategy[q])
  /\ strategy' = [strategy EXCEPT ![p].hand = @ \ {c}, ![q].hand = @ \cup {c}]
  /\ card' = [card EXCEPT ![c].by = q]
  /\ deals' = deals + 1
  /\ UNCHANGED <<setupVars, phase, paused, stageVars, money, pauses>>

--------------------------------------------------------------------------------
(* Planning.  A plan is the cards of at most one campaign: the walk over the *)
(* slots of a plan is the subject of Adjudication.                           *)

\* setActionPlan with validateActionPlanReferences
SetPlan(p) ==
  /\ phase = "ACTION_STAGE_PLAN" /\ ~paused /\ ~planning[p].locked
  /\ \E d \in SUBSET strategy[p].hand :
       /\ Cardinality(d) \in {0, table.kit}
       /\ \A c \in d : InHand(p, c)
       /\ planning' = [planning EXCEPT ![p].cards = d]
  /\ UNCHANGED <<setupVars, phase, paused, cardVars, initiative, maintenance, money, deals, pauses>>

\* lockActionPlan, which does not look at the cards again.
LockPlan(p) ==
  /\ phase = "ACTION_STAGE_PLAN" /\ ~paused /\ ~planning[p].locked
  /\ planning' = [planning EXCEPT ![p].locked = TRUE]
  /\ phase' = IF \A q \in Players \ {p} : planning[q].locked
              THEN "RESOLUTION_STAGE" ELSE phase
  /\ UNCHANGED <<setupVars, paused, cardVars, initiative, maintenance, money, deals, pauses>>

--------------------------------------------------------------------------------

Setup ==
  \/ \E p \in Players : Join(p)
  \/ \E p \in Players, c \in Countries, i \in Places : AssignSeat(p, c, i)
  \/ \E v \in {"BASELINE", "SHORT"} : ConfigureOption(v)
  \/ StartGame

Prepare(p) ==
  \/ SubmitDeck(p)
  \/ LockStrategy(p)
  \/ ResolveInitiative(p)
  \/ SetMaintenance(p)
  \/ LockMaintenance(p)
  \/ \E q \in Players : DealResources(p, q)
  \/ \E q \in Players, c \in strategy[p].hand : DealCard(p, q, c)
  \/ SetPlan(p)
  \/ LockPlan(p)

================================================================================
