----------------------------- MODULE Adjudication -----------------------------
(***************************************************************************)
(* The resolution stage of one turn: the scheduler of                      *)
(* packages/game-engine/src/m1-adjudication.ts, which walks the locked     *)
(* action plans in initiative order, and the commands that answer it.      *)
(*                                                                         *)
(* dispatchAtomicCommand prepares every command on a copy of the state and *)
(* commits the copy or nothing, so that a command is one action and a      *)
(* rejected command (any {error} return, or an exception) is an action     *)
(* that is not enabled.  An activation is a chain of such commands:        *)
(*                                                                         *)
(*   RunNext -> NARRATIVE -> COALITION -> MANUAL_DIE -> CHOICE -> outcome  *)
(*                                                                         *)
(* where every arrow may be taken by the scheduler itself or stop at a     *)
(* pending resolution that a player has to answer, while the facilitator's *)
(* other calls (executeM2Effect, executeM2CoreOperation, the veto vote,    *)
(* pause) keep arriving: none of them looks at the pending resolution.     *)
(*                                                                         *)
(* A kit stands for the intent, method and amplifier cards of a campaign,  *)
(* which move together.  A campaign is identified by its owner             *)
(* (`campaign:<owner>:row-i`, the id it keeps when it ages).  Countries    *)
(* and the players who hold them are the same thing here.  The regimes of  *)
(* PRESQUE and URSARIA are not modelled.                                   *)
(***************************************************************************)
EXTENDS Sequences, FiniteSets, Functions, CampaignRules

CONSTANTS
  Players,      \* seated players
  Order,        \* initiative.orderParticipantIds
  Regime,       \* [Players -> the country of the player]
  PDs,          \* population demographics
  HomeOf,       \* [PDs -> the country the demographic belongs to]
  Kits,         \* names of campaign kits
  KitOf,        \* [Kits -> what the cards of the kit are worth]
  Plans,        \* [Players -> the plans the player may have locked]
  Openings,     \* the tables on which the stage may begin
  Rolls,        \* die values explored
  Meddling,     \* the calls that may interrupt the scheduler
  MaxMeddling   \* bound on such calls

Regimes == {"ARDEN", "DINESIA", "FLUMA"}

Seats == 1 .. Len(Order)

NoHolder == "nobody"

Activates(act) == act.type \in {"ACTIVATE", "DOUBLE"}

\* M1ActionPayload, with what the schedule looks at.
SlotActions ==
  [type : {"CONSTRUCT"}, kit : Kits] \cup
  [type : {"ACTIVATE", "DOUBLE"}, of : Players, pd : PDs, core : BOOLEAN] \cup
  [type : {"BOOST"}, of : Players, seq : 1 .. 3] \cup
  [type : {"REGIME"}]

\* The card a slot needs.  A hand holds these and a Sanctions card, the other
\* cards of the player have been discarded before.
CardFor(act) == CASE act.type = "CONSTRUCT" -> act.kit
                  [] act.type = "BOOST"     -> "boost"
                  [] act.type = "DOUBLE"    -> "double"
                  [] OTHER                  -> "sanctions"

(***************************************************************************)
(* validateActionPlanReferences, for cards that are in the hand of their   *)
(* owner when the plan is saved.  Nothing else is checked at this time:    *)
(* an ACTIVATE may name any campaign, and two slots may both construct.    *)
(***************************************************************************)
ValidPlan(plan) ==
  LET slotsOf(t) == {s \in DOMAIN plan : plan[s].type = t}
  IN  /\ Len(plan) <= 3
      /\ \A t \in {"REGIME", "BOOST", "DOUBLE"} : Cardinality(slotsOf(t)) <= 1
      /\ \A s, t \in slotsOf("CONSTRUCT") : plan[s].kit = plan[t].kit => s = t
      /\ \A s \in slotsOf("BOOST") :
           /\ plan[s].seq \in slotsOf("ACTIVATE")
           /\ plan[s].seq > s
           /\ plan[plan[s].seq].of = plan[s].of
      /\ \A s \in slotsOf("DOUBLE") :
           \E t \in slotsOf("ACTIVATE") : t < s /\ plan[t].of = plan[s].of

ASSUME OrderAssumption ==
  /\ Order \in Seq(Players)
  /\ {Order[i] : i \in DOMAIN Order} = Players
  /\ \A i, j \in DOMAIN Order : Order[i] = Order[j] => i = j
ASSUME RegimeAssumption ==
  /\ Regime \in [Players -> Regimes]
  /\ \A p, q \in Players : Regime[p] = Regime[q] => p = q
  /\ HomeOf \in [PDs -> Regimes]
  /\ \A country \in {"ARDEN", "DINESIA"} : \E pd \in PDs : HomeOf[pd] = country
ASSUME KitAssumption ==
  /\ KitOf \in [Kits -> [alignment : Types, cv : Nat, pair : {0, 2}, extra : Nat,
                         coalition : BOOLEAN, reach : SUBSET PDs]]
  /\ Kits \cap {"NONE", "boost", "double", "sanctions"} = {}
ASSUME PlanAssumption ==
  \A p \in Players : \A plan \in Plans[p] : plan \in Seq(SlotActions) /\ ValidPlan(plan)
ASSUME OpeningAssumption ==
  \A opening \in Openings :
    /\ opening.manual \in BOOLEAN
    /\ opening.resources \in [Players -> Nat]
    /\ opening.influence \in [PDs -> [Types -> [Players -> Nat]]]
    /\ opening.legitimacy \in [PDs -> Players \cup {NoHolder}]
    /\ opening.aged \in [Players -> Kits \cup {"NONE"}]
ASSUME RollAssumption == Rolls \subseteq 1 .. 10
ASSUME MeddlingAssumption == MaxMeddling \in Nat
-------------------------------------------------------------------------------
VARIABLES
  slots,       \* [Players -> Seq([act, revealed, outcome])], the locked plans
  cursor,      \* adjudication.scheduler, with positions counted from one
  current,     \* currentRevealedAction
  pending,     \* adjudication.pendingResolution
  choice,      \* m2EffectChoice, for the regime effects
  campaign,    \* [Players -> the campaign the player owns]
  narrated,    \* players whose campaign id has a PLAYER narrative
  cards,       \* [cards -> zone and controller]
  resources,   \* [Players -> Nat]
  ledger,      \* resourceLedger since the plans were locked
  coreUsed,    \* coreModifierUsedByParticipant
  boost,       \* [Players -> the slot of the planned boost, 0 for none]
  influence,   \* [PDs -> [Types -> [Players -> Nat]]]
  legitimacy,  \* [PDs -> the player who holds the marker]
  vp,          \* [Players -> Nat]
  regimeUsed,  \* regimeAbilityUsedByParticipant
  vetoed,      \* vetoBlockedParticipantIdsThisTurn
  fluma,       \* flumaRegimeByParticipant of the FLUMA player
  paused,      \* overlay = PAUSED
  setup,       \* the opening chosen, which the stage never writes
  meddled      \* interruptions so far

schedule == <<slots, cursor, current>>
purse    == <<resources, ledger, coreUsed>>
mat      == <<campaign, narrated, cards, boost>>
board    == <<influence, legitimacy, vp>>
abilities == <<regimeUsed, vetoed, fluma>>
table    == <<paused, setup, meddled>>
vars     == <<schedule, pending, choice, purse, mat, board, abilities, table>>

None   == [kind |-> "NONE"]
NoCampaign == [kit |-> "NONE"]

Cards == Players \X (Kits \cup {"boost", "double", "sanctions"})

Outcomes == {"NONE", "RESOLVED", "FAILED_COST", "NOT_EXECUTED"}

Reasons == {"CAMPAIGN_ACTIVATION_COST", "CAMPAIGN_COMPONENT_COST",
            "CORE_ROLL_MODIFIER", "COALITION_CONTRIBUTION", "CARD_COST",
            "CARD_EFFECT", "REGIME_ABILITY_COST"}

Pendings ==
  {None} \cup
  [kind : {"NARRATIVE", "REGIME_MANUAL_DIE"}, p : Players, s : 1 .. 3] \cup
  [kind : {"COALITION"}, p : Players, s : 1 .. 3,
   decided : SUBSET Players, gave : SUBSET Players] \cup
  [kind : {"MANUAL_DIE"}, p : Players, s : 1 .. 3, bonus : Nat] \cup
  [kind : {"CHOICE"}, p : Players, s : 1 .. 3, generated : Types, count : Nat,
   result : Int, removals : Nat, options : SUBSET Players,
   before : Players \cup {NoHolder}]

Choices ==
  {None} \cup
  [kind : {"ARDEN"}, p : Players, s : 1 .. 3, stacks : SUBSET (PDs \X Players)] \cup
  [kind : {"DINESIA"}, p : Players, s : 1 .. 3] \cup
  [kind : {"FLUMA"}, p : Players, s : 0 .. 3, units : Nat]

TypeOK ==
  /\ slots \in [Players -> Seq([act : SlotActions, revealed : BOOLEAN, outcome : Outcomes])]
  /\ cursor \in [p : 1 .. Len(Order) + 1, s : 1 .. 4,
                 status : {"READY", "SUSPENDED", "COMPLETE"}]
  /\ current \in {<<>>} \cup (Players \X (1 .. 3))
  /\ pending \in Pendings
  /\ choice \in Choices
  /\ campaign \in [Players -> {NoCampaign} \cup
                              [kit : Kits, row : {"I", "II"}, count : Nat]]
  /\ narrated \subseteq Players
  /\ cards \in [Cards -> [zone : {"HAND", "CAMPAIGN", "DISCARD"}, ctrl : Players]]
  /\ resources \in [Players -> Nat]
  /\ ledger \in Seq([by : Players, delta : Int, reason : Reasons])
  /\ coreUsed \subseteq Players
  /\ boost \in [Players -> 0 .. 3]
  /\ influence \in [PDs -> [Types -> [Players -> Nat]]]
  /\ legitimacy \in [PDs -> Players \cup {NoHolder}]
  /\ vp \in [Players -> Nat]
  /\ regimeUsed \subseteq Players
  /\ vetoed \subseteq Players
  /\ fluma \in [active : BOOLEAN, processed : SUBSET (1 .. Len(ledger))]
  /\ paused \in BOOLEAN
  /\ setup \in Openings
  /\ meddled \in 0 .. MaxMeddling

\* The stage begins when the last plan is locked (lockActionPlan).
Init ==
  /\ setup \in Openings
  /\ \E plans \in [Players -> UNION {Plans[p] : p \in Players}] :
       /\ \A p \in Players : plans[p] \in Plans[p]
       /\ slots = [p \in Players |->
                     [s \in DOMAIN plans[p] |->
                        [act |-> plans[p][s], revealed |-> FALSE, outcome |-> "NONE"]]]
  /\ cursor = [p |-> 1, s |-> 1, status |-> "READY"]
  /\ current = <<>>
  /\ pending = None
  /\ choice = None
  /\ campaign = [p \in Players |->
                   IF setup.aged[p] = "NONE" THEN NoCampaign
                   ELSE [kit |-> setup.aged[p], row |-> "II", count |-> 0]]
  /\ narrated = {}
  /\ cards = [c \in Cards |->
                LET plan == slots[c[1]]
                    hand == {"sanctions"} \cup {CardFor(plan[s].act) : s \in DOMAIN plan}
                IN  [zone |-> IF c[2] = setup.aged[c[1]] THEN "CAMPAIGN"
                              ELSE IF c[2] \in hand THEN "HAND" ELSE "DISCARD",
                     ctrl |-> c[1]]]
  /\ resources = setup.resources
  /\ ledger = <<>>
  /\ coreUsed = {}
  /\ boost = [p \in Players |-> 0]
  /\ influence = setup.influence
  /\ legitimacy = setup.legitimacy
  /\ vp = [p \in Players |-> 0]
  /\ regimeUsed = {}
  /\ vetoed = {}
  /\ fluma = [active |-> FALSE, processed |-> {}]
  /\ paused = FALSE
  /\ meddled = 0
-------------------------------------------------------------------------------
(***************************************************************************)
(* The cursor.                                                             *)
(***************************************************************************)
\* locateNextSlot: players without a plan are skipped.
Locate(i, s) ==
  IF i \in Seats /\ s <= Len(slots[Order[i]]) THEN <<i, s>>
  ELSE LET later == {j \in Seats : j > i /\ slots[Order[j]] # <<>>}
       IN  IF later = {} THEN <<Len(Order) + 1, 1>>
           ELSE <<CHOOSE j \in later : \A k \in later : j <= k, 1>>

At == Locate(cursor.p, cursor.s)

AtSlot(p, s) == At[1] \in Seats /\ p = Order[At[1]] /\ s = At[2]

Act(p, s) == slots[p][s].act

\* A terminal outcome and advanceScheduler.
Decide(p, s, outcome) ==
  LET next == Locate(At[1], At[2] + 1)
  IN  /\ slots' = [slots EXCEPT ![p][s].revealed = TRUE, ![p][s].outcome = outcome]
      /\ cursor' = [p |-> next[1], s |-> next[2],
                    status |-> IF next[1] \in Seats THEN "READY" ELSE "COMPLETE"]
      /\ current' = <<>>

\* The slot is on the table and waits for an answer.
Suspend(p, s) ==
  /\ slots' = [slots EXCEPT ![p][s].revealed = TRUE]
  /\ cursor' = [p |-> At[1], s |-> At[2], status |-> "SUSPENDED"]
  /\ current' = <<p, s>>

(***************************************************************************)
(* The ledger and the FLUMA regime, which answers the spends of others.    *)
(***************************************************************************)
Total(f) == FoldFunction(+, 0, f)

\* A ledger entry for each part of a price that is not zero.
Charge(entries, p, amount, reason) ==
  IF amount = 0 THEN entries
  ELSE Append(entries, [by |-> p, delta |-> -amount, reason |-> reason])

\* The reasons prepareScheduler looks for.
TriggerReasons == {"CAMPAIGN_ACTIVATION_COST", "COALITION_CONTRIBUTION", "CARD_COST"}

\* The reasons buildM2StateFromCanonical hands to resolveFlumaRegimeSpends.
SpendReasons == TriggerReasons \cup {"CORE_ROLL_MODIFIER"}

Spends(reasons) ==
  {i \in DOMAIN ledger : /\ ledger[i].reason \in reasons
                         /\ ledger[i].delta < 0
                         /\ Regime[ledger[i].by] # "FLUMA"
                         /\ i \notin fluma.processed}

Units(entries) == Total([i \in entries |-> -ledger[i].delta])

FlumaDue == fluma.active /\ Spends(TriggerReasons) # {}

ArdenPDs == {pd \in PDs : HomeOf[pd] = "ARDEN"}

\* Mutated form of Cuts: cubes are taken from whoever is named.
CutsUnchecked(pd, t, n) == {cut \in [Players -> 0 .. n] : Total(cut) = n}

(***************************************************************************)
(* Influence on the board.                                                 *)
(***************************************************************************)
\* The ways to take n cubes of type t from pd; stack order is abstracted.
Cuts(pd, t, n) ==
  {cut \in [Players -> 0 .. n] :
     Total(cut) = n /\ \A q \in Players : cut[q] <= influence[pd][t][q]}

Opposing(pd, t) == Total(influence[pd][Opposite(t)])

\* The demographic after `cut` is taken from the opposite type and `placed`
\* cubes of type t are put down for p.
Shifted(stacks, t, p, placed, cut) ==
  [u \in Types |-> IF u = t THEN [stacks[u] EXCEPT ![p] = @ + placed]
                   ELSE [q \in Players |-> stacks[u][q] - cut[q]]]
-------------------------------------------------------------------------------
(***************************************************************************)
(* An activation, from its first check to its outcome.                     *)
(***************************************************************************)
KitIn(p) == KitOf[campaign[p].kit]

CoreCost(act) == IF act.core THEN 2 ELSE 0

Price(p, act) == BaseCost(KitIn(p).cv) + KitIn(p).extra + CoreCost(act)

(***************************************************************************)
(* resolveActivation on the working copy <<res, led, hand>>.  When the     *)
(* campaign id already has a narrative, which in a game only a player      *)
(* writes, appendNarrativeEvent throws and nothing is committed: there is  *)
(* no disjunct for it.                                                     *)
(***************************************************************************)
ResolveActivation(p, s, repeat, res, led, hand) ==
  LET act == Act(p, s)
  IN  /\ act.of = p
      /\ campaign[p] # NoCampaign
      /\ p \notin vetoed
      /\ repeat \/ campaign[p].count = 0
      /\ act.pd \in KitIn(p).reach
      /\ act.core => p \notin coreUsed
      /\ \/ /\ res[p] < Price(p, act)
            /\ Decide(p, s, "FAILED_COST")
            /\ UNCHANGED pending
         \/ /\ res[p] >= Price(p, act)
            /\ p \notin narrated
            /\ Suspend(p, s)
            /\ pending' = [kind |-> "NARRATIVE", p |-> p, s |-> s]
      /\ resources' = res
      /\ ledger' = led
      /\ cards' = hand
      /\ UNCHANGED <<choice, coreUsed, campaign, narrated, boost>>
      /\ UNCHANGED <<board, abilities, table>>

(***************************************************************************)
(* completeActivation.  `before` is the legitimacy the continuation        *)
(* remembers, the board is the present one.                                *)
(***************************************************************************)
Complete(p, s, generated, count, result, before, cut) ==
  LET pd == Act(p, s).pd
      placed == count - 2 * Total(cut)
      scores == result > 0 /\ placed > 0
      changes == scores /\ before # p
  IN  /\ Total(cut) = Removed(count, Opposing(pd, generated))
      /\ influence' = [influence EXCEPT ![pd] = Shifted(@, generated, p, placed, cut)]
      /\ legitimacy' = IF ~changes THEN legitimacy
                       ELSE [legitimacy EXCEPT ![pd] =
                               IF before = NoHolder THEN p ELSE NoHolder]
      /\ vp' = [vp EXCEPT ![p] =
                  CASE result > 0 -> @ + placed + (IF changes THEN 1 ELSE 0)
                    [] result < 0 -> IF @ < placed THEN 0 ELSE @ - placed
                    [] OTHER -> @]
      /\ campaign' = [campaign EXCEPT ![p].count = @ + 1]
      /\ Decide(p, s, "RESOLVED")

(***************************************************************************)
(* The second half of continueActivationAfterNarrative: the price of the   *)
(* campaign, the planned boost, the die and the ERT.  Removing cubes of    *)
(* several players is the owner's choice.                                  *)
(***************************************************************************)
PayAndRoll(p, s, bonus, roll, res, led) ==
  LET act == Act(p, s)
      kit == KitIn(p)
      boosted == boost[p] = s
      modified == roll + (IF legitimacy[act.pd] = p THEN 1 ELSE 0)
                       + (IF boosted THEN 1 ELSE 0) + (IF act.core THEN 1 ELSE 0)
      result == Ert(Tier(kit.cv + kit.pair + bonus), kit.alignment, modified)
      generated == IF result >= 0 THEN kit.alignment ELSE Opposite(kit.alignment)
      count == IF result >= 0 THEN result ELSE -result
      removals == Removed(count, Opposing(act.pd, generated))
      options == {q \in Players : influence[act.pd][Opposite(generated)][q] > 0}
      base == Charge(led, p, BaseCost(kit.cv), "CAMPAIGN_ACTIVATION_COST")
      part == Charge(base, p, kit.extra, "CAMPAIGN_COMPONENT_COST")
  IN  /\ act.core => p \notin coreUsed
      /\ res[p] >= Price(p, act)
      /\ boosted => cards[<<p, "boost">>] = [zone |-> "HAND", ctrl |-> p]
      /\ resources' = [res EXCEPT ![p] = @ - Price(p, act)]
      /\ ledger' = Charge(part, p, CoreCost(act), "CORE_ROLL_MODIFIER")
      /\ coreUsed' = coreUsed \cup {q \in {p} : act.core}
      /\ cards' = IF boosted THEN [cards EXCEPT ![<<p, "boost">>].zone = "DISCARD"]
                  ELSE cards
      /\ boost' = IF boosted THEN [boost EXCEPT ![p] = 0] ELSE boost
      /\ \/ /\ removals > 0 /\ Cardinality(options) > 1
            /\ pending' = [kind |-> "CHOICE", p |-> p, s |-> s,
                           generated |-> generated, count |-> count,
                           result |-> result, removals |-> removals,
                           options |-> options, before |-> legitimacy[act.pd]]
            /\ Suspend(p, s)
            /\ UNCHANGED <<campaign, board>>
         \/ /\ removals = 0 \/ Cardinality(options) <= 1
            /\ pending' = None
            /\ \E cut \in Cuts(act.pd, Opposite(generated), removals) :
                 Complete(p, s, generated, count, result, legitimacy[act.pd], cut)

\* Mutated form of RollOrAsk: the campaign is also paid for when the die is
\* asked for.
RollOrAskPaying(p, s, bonus, res, led) ==
  LET base == BaseCost(KitIn(p).cv)
  IN  \/ /\ setup.manual
         /\ pending' = [kind |-> "MANUAL_DIE", p |-> p, s |-> s, bonus |-> bonus]
         /\ Suspend(p, s)
         /\ resources' = [res EXCEPT ![p] = @ - base]
         /\ ledger' = Charge(led, p, base, "CAMPAIGN_ACTIVATION_COST")
         /\ UNCHANGED <<coreUsed, campaign, cards, boost, board>>
      \/ /\ ~setup.manual
         /\ \E roll \in Rolls : PayAndRoll(p, s, bonus, roll, res, led)

\* The die is rolled here, or asked for.
RollOrAsk(p, s, bonus, res, led) ==
  \/ /\ setup.manual
     /\ pending' = [kind |-> "MANUAL_DIE", p |-> p, s |-> s, bonus |-> bonus]
     /\ Suspend(p, s)
     /\ resources' = res
     /\ ledger' = led
     /\ UNCHANGED <<coreUsed, campaign, cards, boost, board>>
  \/ /\ ~setup.manual
     /\ \E roll \in Rolls : PayAndRoll(p, s, bonus, roll, res, led)
-------------------------------------------------------------------------------
\* Mutated form of Idle: an open effect choice does not hold the scheduler.
IdleDespiteChoice == ~paused /\ pending = None

(***************************************************************************)
(* The scheduler.                                                          *)
(***************************************************************************)
Idle == ~paused /\ pending = None /\ choice = None

\* Mutated form of FlumaTrigger: the end of the schedule is looked at first.
FlumaTriggerBeforeEnd ==
  /\ Idle
  /\ cursor.status # "COMPLETE"
  /\ FlumaDue
  /\ \E p \in Players :
       /\ Regime[p] = "FLUMA"
       /\ choice' = [kind |-> "FLUMA", p |-> p, s |-> 0,
                     units |-> Units(Spends(TriggerReasons))]
  /\ cursor' = [cursor EXCEPT !.status = "SUSPENDED"]
  /\ UNCHANGED <<slots, current, pending, purse, mat, board, abilities, table>>

\* The part of prepareScheduler that precedes the slots.
FlumaTrigger ==
  /\ Idle
  /\ FlumaDue
  /\ \E p \in Players :
       /\ Regime[p] = "FLUMA"
       /\ choice' = [kind |-> "FLUMA", p |-> p, s |-> 0,
                     units |-> Units(Spends(TriggerReasons))]
  /\ cursor' = [cursor EXCEPT !.status = "SUSPENDED"]
  /\ UNCHANGED <<slots, current, pending, purse, mat, board, abilities, table>>

\* Mutated form of Ready: the spends of others are looked at later.
ReadyBeforeFluma(p, s, type) ==
  /\ Idle
  /\ cursor.status # "COMPLETE"
  /\ AtSlot(p, s)
  /\ Act(p, s).type = type

Ready(p, s, type) ==
  /\ Idle
  /\ ~FlumaDue
  /\ cursor.status # "COMPLETE"
  /\ AtSlot(p, s)
  /\ Act(p, s).type = type

\* constructCampaign.  The id of the new campaign must be free: an aged
\* campaign of the same owner still has it.
ConstructCampaign(p, s) ==
  LET kit == Act(p, s).kit
  IN  /\ Ready(p, s, "CONSTRUCT")
      /\ campaign[p] = NoCampaign
      /\ cards[<<p, kit>>] = [zone |-> "HAND", ctrl |-> p]
      /\ campaign' = [campaign EXCEPT ![p] = [kit |-> kit, row |-> "I", count |-> 0]]
      /\ cards' = [cards EXCEPT ![<<p, kit>>].zone = "CAMPAIGN"]
      /\ Decide(p, s, "RESOLVED")
      /\ UNCHANGED <<pending, choice, purse, narrated, boost, board, abilities, table>>

PlayBoost(p, s) ==
  /\ Ready(p, s, "BOOST")
  /\ cards[<<p, "boost">>] = [zone |-> "HAND", ctrl |-> p]
  /\ Act(p, s).of = p
  /\ campaign[p] # NoCampaign
  /\ boost[p] = 0
  /\ boost' = [boost EXCEPT ![p] = Act(p, s).seq]
  /\ Decide(p, s, "RESOLVED")
  /\ UNCHANGED <<pending, choice, purse, campaign, narrated, cards>>
  /\ UNCHANGED <<board, abilities, table>>

PlayDoubleAction(p, s) ==
  LET hand == [cards EXCEPT ![<<p, "double">>].zone = "DISCARD"]
  IN  /\ Ready(p, s, "DOUBLE")
      /\ cards[<<p, "double">>] = [zone |-> "HAND", ctrl |-> p]
      /\ Act(p, s).of = p
      /\ campaign[p] # NoCampaign
      /\ campaign[p].count >= 1
      /\ \/ /\ resources[p] < 1
            /\ cards' = hand
            /\ Decide(p, s, "FAILED_COST")
            /\ UNCHANGED <<pending, choice, purse, campaign, narrated, boost>>
            /\ UNCHANGED <<board, abilities, table>>
         \/ /\ resources[p] >= 1
            /\ ResolveActivation(p, s, TRUE, [resources EXCEPT ![p] = @ - 1],
                                 Charge(ledger, p, 1, "CARD_COST"), hand)

\* Mutated form of NegateActivation: the boost stays planned.
NegateKeepingBoost(p, s) ==
  /\ Ready(p, s, "ACTIVATE")
  /\ p \in vetoed
  /\ boost[p] = s
  /\ cards[<<p, "boost">>] = [zone |-> "HAND", ctrl |-> p]
  /\ cards' = [cards EXCEPT ![<<p, "boost">>].zone = "DISCARD"]
  /\ Decide(p, s, "NOT_EXECUTED")
  /\ UNCHANGED <<pending, choice, purse, campaign, narrated, boost, board, abilities, table>>

\* A boosted activation of a player whose campaign the table has vetoed.
NegateActivation(p, s) ==
  /\ Ready(p, s, "ACTIVATE")
  /\ p \in vetoed
  /\ boost[p] = s
  /\ cards[<<p, "boost">>] = [zone |-> "HAND", ctrl |-> p]
  /\ cards' = [cards EXCEPT ![<<p, "boost">>].zone = "DISCARD"]
  /\ boost' = [boost EXCEPT ![p] = 0]
  /\ Decide(p, s, "NOT_EXECUTED")
  /\ UNCHANGED <<pending, choice, purse, campaign, narrated, board, abilities, table>>

ActivateCampaign(p, s) ==
  /\ Ready(p, s, "ACTIVATE")
  /\ ResolveActivation(p, s, FALSE, resources, ledger, cards)

(***************************************************************************)
(* USE_REGIME_ABILITY.                                                     *)
(***************************************************************************)
\* The ability is used up without an effect.
RegimeFizzles(p, s) ==
  /\ regimeUsed' = regimeUsed \cup {p}
  /\ Decide(p, s, "RESOLVED")
  /\ UNCHANGED choice

AskRegime(p, s, request) ==
  /\ choice' = request
  /\ Suspend(p, s)
  /\ UNCHANGED regimeUsed

MalignAtHome ==
  {st \in ArdenPDs \X Players : influence[st[1]]["MALIGN"][st[2]] > 0}

RollRegime(p, s, roll) ==
  \/ /\ roll > 4 \/ MalignAtHome = {}
     /\ RegimeFizzles(p, s)
  \/ /\ roll <= 4 /\ MalignAtHome # {}
     /\ AskRegime(p, s, [kind |-> "ARDEN", p |-> p, s |-> s, stacks |-> MalignAtHome])

UseRegime(p, s) ==
  /\ Ready(p, s, "REGIME")
  /\ p \notin regimeUsed
  /\ \/ /\ Regime[p] = "ARDEN" /\ setup.manual
        /\ pending' = [kind |-> "REGIME_MANUAL_DIE", p |-> p, s |-> s]
        /\ Suspend(p, s)
        /\ UNCHANGED <<choice, regimeUsed>>
     \/ /\ Regime[p] = "ARDEN" /\ ~setup.manual
        /\ \E roll \in Rolls : RollRegime(p, s, roll)
        /\ UNCHANGED pending
     \/ /\ Regime[p] = "DINESIA" /\ resources[p] < 2
        /\ RegimeFizzles(p, s)
        /\ UNCHANGED pending
     \/ /\ Regime[p] = "DINESIA" /\ resources[p] >= 2
        /\ AskRegime(p, s, [kind |-> "DINESIA", p |-> p, s |-> s])
        /\ UNCHANGED pending
     \/ /\ Regime[p] = "FLUMA"
        /\ AskRegime(p, s, [kind |-> "FLUMA", p |-> p, s |-> s,
                            units |-> Units(Spends(TriggerReasons))])
        /\ UNCHANGED pending
  /\ UNCHANGED <<purse, mat, board, vetoed, fluma, table>>

RunNext ==
  \E p \in Players : \E s \in DOMAIN slots[p] :
    \/ ConstructCampaign(p, s)
    \/ PlayBoost(p, s)
    \/ PlayDoubleAction(p, s)
    \/ UseRegime(p, s)
    \/ NegateActivation(p, s)
    \/ ActivateCampaign(p, s)
-------------------------------------------------------------------------------
(***************************************************************************)
(* The answers.                                                            *)
(***************************************************************************)
Asked(kind) == ~paused /\ pending.kind = kind

\* prepareNarrative
SubmitNarrative ==
  /\ Asked("NARRATIVE")
  /\ campaign[pending.p] # NoCampaign
  /\ narrated' = narrated \cup {pending.p}
  /\ LET p == pending.p
         s == pending.s
         invites == KitIn(p).coalition /\ Players # {p}
     IN  \/ /\ invites
            /\ pending' = [kind |-> "COALITION", p |-> p, s |-> s,
                           decided |-> {}, gave |-> {}]
            /\ Suspend(p, s)
            /\ UNCHANGED <<purse, campaign, cards, boost, board>>
         \/ /\ ~invites
            /\ RollOrAsk(p, s, 0, resources, ledger)
  /\ UNCHANGED <<choice, abilities, table>>

\* prepareCoalitionContribution by q
SubmitCoalition(q, gives) ==
  LET decided == pending.decided \cup {q}
      gave == pending.gave \cup {x \in {q} : gives}
      res == IF gives THEN [resources EXCEPT ![q] = @ - 1] ELSE resources
      led == IF gives THEN Charge(ledger, q, 1, "COALITION_CONTRIBUTION") ELSE ledger
  IN  /\ Asked("COALITION")
      /\ q \notin pending.decided
      /\ q # pending.p
      /\ gives => resources[q] >= 1
      /\ \/ /\ decided # Players \ {pending.p}
            /\ pending' = [pending EXCEPT !.decided = decided, !.gave = gave]
            /\ resources' = res
            /\ ledger' = led
            /\ UNCHANGED <<schedule, coreUsed, campaign, cards, boost, board>>
         \/ /\ decided = Players \ {pending.p}
            /\ campaign[pending.p] # NoCampaign
            /\ RollOrAsk(pending.p, pending.s, Cardinality(gave), res, led)
      /\ UNCHANGED <<choice, narrated, abilities, table>>

\* prepareManualDie, by the player or the facilitator
SubmitManualDie(roll) ==
  /\ Asked("MANUAL_DIE")
  /\ campaign[pending.p] # NoCampaign
  /\ PayAndRoll(pending.p, pending.s, pending.bonus, roll, resources, ledger)
  /\ UNCHANGED <<choice, narrated, abilities, table>>

SubmitRegimeDie(roll) ==
  /\ Asked("REGIME_MANUAL_DIE")
  /\ pending' = None
  /\ RollRegime(pending.p, pending.s, roll)
  /\ UNCHANGED <<purse, mat, board, vetoed, fluma, table>>

\* prepareChoice
SubmitChoice ==
  /\ Asked("CHOICE")
  /\ campaign[pending.p] # NoCampaign
  /\ \E cut \in Cuts(Act(pending.p, pending.s).pd, Opposite(pending.generated),
                     pending.removals) :
       /\ \A q \in Players : cut[q] > 0 => q \in pending.options
       /\ Complete(pending.p, pending.s, pending.generated, pending.count,
                   pending.result, pending.before, cut)
  /\ pending' = None
  /\ UNCHANGED <<choice, purse, narrated, cards, boost, abilities, table>>

\* Mutated form of AdvanceInline: the slot index is not reset.
AdvanceInlineKeepingSlot(p, s) ==
  LET next == IF s + 1 > Len(slots[p]) THEN cursor.p + 1 ELSE cursor.p
  IN  /\ slots' = [slots EXCEPT ![p][s].outcome = "RESOLVED"]
      /\ cursor' = [p |-> next, s |-> s + 1,
                    status |-> IF next \in Seats THEN "READY" ELSE "COMPLETE"]
      /\ current' = <<>>

\* The cursor after a regime slot (submitM2EffectChoice moves it itself).
AdvanceInline(p, s) ==
  LET over == s + 1 > Len(slots[p])
      next == IF over THEN cursor.p + 1 ELSE cursor.p
  IN  /\ slots' = [slots EXCEPT ![p][s].outcome = "RESOLVED"]
      /\ cursor' = [p |-> next, s |-> IF over THEN 1 ELSE s + 1,
                    status |-> IF next \in Seats THEN "READY" ELSE "COMPLETE"]
      /\ current' = <<>>

ChoiceDone ==
  /\ choice' = None
  /\ regimeUsed' = regimeUsed \cup {choice.p}

Chosen(kind) == ~paused /\ choice.kind = kind

SubmitArdenChoice ==
  /\ Chosen("ARDEN")
  /\ choice.p \notin regimeUsed
  /\ \E st \in choice.stacks :
       /\ influence[st[1]]["MALIGN"][st[2]] > 0
       /\ influence' = [influence EXCEPT ![st[1]]["MALIGN"][st[2]] = @ - 1]
  /\ ChoiceDone
  /\ AdvanceInline(choice.p, choice.s)
  /\ UNCHANGED <<pending, purse, mat, legitimacy, vp, vetoed, fluma, table>>

SubmitDinesiaChoice ==
  /\ Chosen("DINESIA")
  /\ choice.p \notin regimeUsed
  /\ resources[choice.p] >= 2
  /\ \E pd \in {d \in PDs : HomeOf[d] = "DINESIA"} :
       influence' = [influence EXCEPT ![pd]["RESILIENCY"][choice.p] = @ + 1]
  /\ resources' = [resources EXCEPT ![choice.p] = @ - 2]
  /\ ledger' = Charge(ledger, choice.p, 2, "REGIME_ABILITY_COST")
  /\ ChoiceDone
  /\ AdvanceInline(choice.p, choice.s)
  /\ UNCHANGED <<pending, coreUsed, mat, legitimacy, vp, vetoed, fluma, table>>

\* One demographic for each unit spent, two malign cubes each: k units on a
\* demographic remove up to k resilient cubes.
SubmitFlumaChoice ==
  LET spends == Spends(SpendReasons)
  IN  /\ Chosen("FLUMA")
      /\ fluma.active \/ choice.p \notin regimeUsed
      /\ choice.units = Units(spends)
      /\ \E target \in [1 .. choice.units -> ArdenPDs] :
           LET units(pd) == Cardinality({i \in 1 .. choice.units : target[i] = pd})
               removed(pd) == Removed(2 * units(pd), Opposing(pd, "MALIGN"))
           IN  \E cuts \in [ArdenPDs -> [Players -> 0 .. choice.units]] :
                 /\ \A pd \in ArdenPDs : cuts[pd] \in Cuts(pd, "RESILIENCY", removed(pd))
                 /\ influence' =
                      [pd \in PDs |->
                         IF pd \notin ArdenPDs THEN influence[pd]
                         ELSE Shifted(influence[pd], "MALIGN", choice.p,
                                      Placed(2 * units(pd), Opposing(pd, "MALIGN")),
                                      cuts[pd])]
      /\ fluma' = [active |-> TRUE, processed |-> fluma.processed \cup spends]
      /\ ChoiceDone
      /\ \/ /\ choice.s > 0
            /\ AdvanceInline(choice.p, choice.s)
         \/ /\ choice.s = 0
            /\ cursor' = [cursor EXCEPT !.status =
                            IF cursor.p \in Seats THEN "READY" ELSE "COMPLETE"]
            /\ UNCHANGED <<slots, current>>
      /\ UNCHANGED <<pending, purse, mat, legitimacy, vp, vetoed, table>>

Answer ==
  \/ SubmitNarrative
  \/ \E q \in Players, gives \in BOOLEAN : SubmitCoalition(q, gives)
  \/ \E roll \in Rolls : SubmitManualDie(roll) \/ SubmitRegimeDie(roll)
  \/ SubmitChoice
  \/ SubmitArdenChoice
  \/ SubmitDinesiaChoice
  \/ SubmitFlumaChoice
-------------------------------------------------------------------------------
(***************************************************************************)
(* The calls that interrupt the scheduler.  The coordinator's calls are    *)
(* accepted in the whole resolution stage, whatever is pending.            *)
(***************************************************************************)
Meddle(call) ==
  /\ call \in Meddling
  /\ meddled < MaxMeddling
  /\ ~paused
  /\ meddled' = meddled + 1

\* discardCampaign: the cards leave the mat, the narrative stays.
Scrap(p) ==
  /\ campaign[p] # NoCampaign
  /\ campaign' = [campaign EXCEPT ![p] = NoCampaign]
  /\ cards' = [cards EXCEPT ![<<p, campaign[p].kit>>].zone = "DISCARD"]

\* The card Sanctions of p, played on q through executeM2Effect.
PlaySanctions(p, q) ==
  LET amount == IF resources[q] < 2 THEN resources[q] ELSE 2
      loss == Charge(ledger, q, amount, "CARD_COST")
  IN  /\ Meddle("SANCTIONS")
      /\ p # q
      /\ cards[<<p, "sanctions">>] = [zone |-> "HAND", ctrl |-> p]
      /\ cards' = [cards EXCEPT ![<<p, "sanctions">>].zone = "DISCARD"]
      /\ resources' = [resources EXCEPT ![p] = @ + amount, ![q] = @ - amount]
      /\ ledger' = Charge(loss, p, -amount, "CARD_EFFECT")
      /\ UNCHANGED <<schedule, pending, choice, coreUsed, campaign, narrated, boost>>
      /\ UNCHANGED <<board, abilities, paused, setup>>

\* STEAL_BLIND_CARD
StealCard(p, q) ==
  /\ Meddle("STEAL_BLIND_CARD")
  /\ p # q
  /\ \E c \in Cards :
       /\ cards[c] = [zone |-> "HAND", ctrl |-> q]
       /\ cards' = [cards EXCEPT ![c].ctrl = p]
  /\ UNCHANGED <<schedule, pending, choice, purse, campaign, narrated, boost>>
  /\ UNCHANGED <<board, abilities, paused, setup>>

\* DISCARD_CAMPAIGN
DiscardCampaign(p) ==
  /\ Meddle("DISCARD_CAMPAIGN")
  /\ Scrap(p)
  /\ UNCHANGED <<schedule, pending, choice, purse, narrated, boost>>
  /\ UNCHANGED <<board, abilities, paused, setup>>

\* castVetoVote: the last vote rejects the campaign of p.
VetoCampaign(p) ==
  /\ Meddle("VETO")
  /\ Scrap(p)
  /\ vetoed' = vetoed \cup {p}
  /\ UNCHANGED <<schedule, pending, choice, purse, narrated, boost>>
  /\ UNCHANGED <<board, regimeUsed, fluma, paused, setup>>

\* ESTABLISH_LEGITIMACY, at most three markers of a player
Establish(p, pd) ==
  LET held == {d \in PDs : legitimacy[d] = p}
  IN  /\ Meddle("ESTABLISH_LEGITIMACY")
      /\ \/ /\ Cardinality(held) < 3
            /\ legitimacy' = [legitimacy EXCEPT ![pd] = p]
         \/ /\ Cardinality(held) >= 3
            /\ \E old \in held :
                 legitimacy' = [legitimacy EXCEPT ![old] = NoHolder, ![pd] = p]
      /\ vp' = [vp EXCEPT ![p] = @ + 1]
      /\ UNCHANGED <<schedule, pending, choice, purse, mat>>
      /\ UNCHANGED <<influence, abilities, paused, setup>>

\* APPLY_BACKLASH, with a number that both cancels and places cubes
BacklashCubes == 3

ApplyBacklash(p, pd, amount) ==
  LET placed == Placed(amount, Opposing(pd, "RESILIENCY"))
  IN  /\ Meddle("APPLY_BACKLASH")
      /\ \E cut \in Cuts(pd, "MALIGN", Removed(amount, Opposing(pd, "RESILIENCY"))) :
           influence' = [influence EXCEPT ![pd] = Shifted(@, "RESILIENCY", p, placed, cut)]
      /\ vp' = [vp EXCEPT ![p] = IF @ < placed THEN 0 ELSE @ - placed]
      /\ UNCHANGED <<schedule, pending, choice, purse, mat>>
      /\ UNCHANGED <<legitimacy, abilities, paused, setup>>

Pause ==
  /\ Meddle("PAUSE")
  /\ paused' = TRUE
  /\ UNCHANGED <<schedule, pending, choice, purse, mat, board, abilities, setup>>

Resume ==
  /\ paused
  /\ paused' = FALSE
  /\ UNCHANGED <<schedule, pending, choice, purse, mat, board, abilities, setup, meddled>>

Interrupt ==
  \/ \E p, q \in Players : PlaySanctions(p, q) \/ StealCard(p, q)
  \/ \E p \in Players : DiscardCampaign(p) \/ VetoCampaign(p)
  \/ \E p \in Players, pd \in PDs : \/ Establish(p, pd)
                                    \/ ApplyBacklash(p, pd, BacklashCubes)
  \/ Pause

Next == RunNext \/ FlumaTrigger \/ Answer \/ Interrupt \/ Resume

Spec == Init /\ [][Next]_vars

(***************************************************************************)
(* The facilitator keeps running the scheduler, whoever is asked answers   *)
(* and a pause ends.                                                       *)
(***************************************************************************)
FairSpec ==
  /\ Spec
  /\ WF_vars(RunNext)
  /\ WF_vars(FlumaTrigger)
  /\ WF_vars(Answer)
  /\ WF_vars(Resume)
-------------------------------------------------------------------------------
(***************************************************************************)
(* Safety.                                                                 *)
(***************************************************************************)
Decided(p, s) == slots[p][s].outcome # "NONE"

Behind(i, s) == i < cursor.p \/ (i = cursor.p /\ s < cursor.s)

\* Slots are decided in initiative order and, for a player, in the order of
\* the plan: the cursor stands between the decided slots and the others, also
\* after a suspension, a regime slot (whose answer moves the cursor by itself)
\* and a FLUMA trigger that arrives when the schedule is complete.  And a plan
\* stays secret until its turn: the revealed slots are the decided ones and the
\* one that waits for an answer (currentRevealedAction).
SlotsInOrder ==
  \A i \in Seats : \A s \in DOMAIN slots[Order[i]] :
    /\ Decided(Order[i], s) <=> Behind(i, s)
    /\ slots[Order[i]][s].revealed <=> (Decided(Order[i], s) \/ current = <<Order[i], s>>)

\* At most one thing is open, the cursor is suspended exactly then, and what is
\* open belongs to the undecided slot under the cursor and is of its kind.
SuspensionOwnsSlot ==
  LET owns(r) == /\ cursor.p \in Seats
                 /\ <<r.p, r.s>> = <<Order[cursor.p], cursor.s>>
                 /\ current = <<r.p, r.s>>
                 /\ ~Decided(r.p, r.s)
  IN  /\ pending = None \/ choice = None
      /\ cursor.status = "SUSPENDED" <=> (pending # None \/ choice # None)
      /\ pending # None =>
           /\ owns(pending)
           /\ Activates(Act(pending.p, pending.s)) <=> pending.kind # "REGIME_MANUAL_DIE"
      /\ choice # None /\ choice.s > 0 =>
           /\ owns(choice)
           /\ Act(choice.p, choice.s).type = "REGIME"
           /\ choice.p \notin regimeUsed

\* Every payment, transfer and contribution is in the ledger once: the resources
\* of a player are those of the opening and the player's entries.  And an
\* activation is paid for once, when the die is rolled, however often it is
\* suspended: the payments of a player are the resolved activations and the one
\* whose attribution choice is open.
PaidOnce ==
  \A p \in Players :
    /\ resources[p] =
         setup.resources[p] +
         Total([i \in DOMAIN ledger |-> IF ledger[i].by = p THEN ledger[i].delta ELSE 0])
    /\ Cardinality({i \in DOMAIN ledger :
                      ledger[i].by = p /\ ledger[i].reason = "CAMPAIGN_ACTIVATION_COST"})
         = Cardinality({s \in DOMAIN slots[p] :
                          /\ Activates(Act(p, s))
                          /\ \/ slots[p][s].outcome = "RESOLVED"
                             \/ pending.kind = "CHOICE" /\ <<pending.p, pending.s>> = <<p, s>>})

\* The cards of a campaign are on the mat exactly as long as the campaign is.
\* And a planned boost modifies one roll: once its activation is resolved or
\* negated it is no longer planned and its card is in the discard pile.
CardsFollowTheSlots ==
  \A p \in Players :
    /\ \A k \in Kits : cards[<<p, k>>].zone = "CAMPAIGN" <=> campaign[p].kit = k
    /\ \A s \in DOMAIN slots[p] :
         (Act(p, s).type = "BOOST" /\ slots[p][s].outcome = "RESOLVED") =>
           LET seq == Act(p, s).seq
           IN  slots[p][seq].outcome \in {"RESOLVED", "NOT_EXECUTED"} =>
                 boost[p] = 0 /\ cards[<<p, "boost">>].zone = "DISCARD"

\* An active FLUMA regime answers the spends of the others before the next slot
\* is revealed.
FlumaBeforeNextSlot ==
  [][FlumaDue => \A p \in Players : \A s \in DOMAIN slots[p] :
                   slots'[p][s].revealed => slots[p][s].revealed]_vars
-------------------------------------------------------------------------------
(***************************************************************************)
(* Liveness.                                                               *)
(***************************************************************************)
\* Every slot of the locked plans gets an outcome, and the spends that an active
\* FLUMA regime must answer are answered, those of the last activation included.
ScheduleEnds ==
  /\ <>(\A p \in Players : \A s \in DOMAIN slots[p] : Decided(p, s))
  /\ FlumaDue ~> ~FlumaDue
===============================================================================
