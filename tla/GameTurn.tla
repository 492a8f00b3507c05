-------------------------------- MODULE GameTurn --------------------------------
(***************************************************************************)
(* A whole turn of a game: TurnPreparation, then the resolution stage, its *)
(* cleanup with the viral questions, and the return to the initiative      *)
(* stage (runM2Cleanup, advanceViralCleanup, submitViralChoice and         *)
(* runM2EndGame of packages/game-engine/src/setup-dispatcher.ts, with      *)
(* m2b-lifecycle.ts, m2b-endgame.ts and m2-integrated-state.ts).           *)
(*                                                                         *)
(* The cleanup is run by the facilitator's side, any number of times: it   *)
(* looks at the phase and the overlay only.  It stops at a question to a   *)
(* player and goes on when that is answered, provided that no command at   *)
(* all was accepted in between: question and continuation carry the        *)
(* version of the game for which they stand.                               *)
(***************************************************************************)
EXTENDS TurnPreparation

CONSTANTS
  PDOrder,              \* the population demographics, in the order of their names
  HostOf,               \* [PDs -> country]
  Near,                 \* [PDs -> the demographics that share a trait with it]
  Objective(_, _)       \* evaluateObjectives(country, cubes): victory points

PDs == Range(PDOrder)

Boards == [holder : [PDs -> Players \cup {Nobody}],
           cubes  : [PDs -> [Types -> [Countries -> Nat]]]]

ASSUME BoardAssumption ==
  /\ PDOrder \in Seq(PDs) /\ IsInjective(PDOrder)
  /\ Near \in [PDs -> SUBSET PDs]
  /\ \A t \in Tables : /\ {t.cleanups, t.endings} \subseteq Nat
                       /\ {t.board} \cup t.boards \subseteq Boards

VARIABLES
  mat,          \* adjudication.campaigns: the campaign of a player
  board,        \* adjudication.influenceStacks (cubes) and legitimacyByPd (holder)
  cleanup,      \* state.cleanupContinuation
  viralChoice,  \* state.viralChoice
  endGame,      \* vpByParticipant and state.endGame
  cleanups      \* cleanups started, against the bound table.cleanups

turnVars == <<mat, board, cleanup, viralChoice, endGame, cleanups>>
vars     == <<prepVars, turnVars>>

--------------------------------------------------------------------------------
(* The board. *)

NoCampaign == [row |-> "NONE", cards |-> {}]

Cubes(b, pd, t) == SumFunction(b.cubes[pd][t])

Threshold == IF variant = "SHORT" THEN 6 ELSE 8

OwnCubes(b, pd, t) ==
  LET p == b.holder[pd]
  IN  IF p = Nobody THEN 0 ELSE b.cubes[pd][t][seat[p].country]

\* As many cubes of either type, more than the threshold of each.
Tied(b, pd) ==
  /\ b.holder[pd] # Nobody
  /\ Cubes(b, pd, "MALIGN") = Cubes(b, pd, "RESILIENCY")
  /\ Cubes(b, pd, "MALIGN") > Threshold

\* The turn of a demographic: its holder's in initiative order, then its name.
Position(seq, x) == CHOOSE k \in DOMAIN seq : seq[k] = x

Earlier(b, pd, other) ==
  LET rank(x) == Position(initiative.order, b.holder[x]) * (Len(PDOrder) + 1)
                   + Position(PDOrder, x)
  IN  rank(pd) < rank(other)

First(b, S) == CHOOSE pd \in S : \A other \in S \ {pd} : Earlier(b, pd, other)

\* applyDirectInfluence: generated cubes cancel opposite ones two to one.  The
\* stacks are reduced in the order they came into being, which is left open.
Influenced(b, pd, t, country, generated) ==
  LET here  == b.cubes[pd][t]
      there == b.cubes[pd][Opposite(t)]
      gone  == Removed(generated, SumFunction(there))
      left  == {f \in [Countries -> 0 .. SumFunction(there)] :
                  /\ \A c \in Countries : f[c] <= there[c]
                  /\ SumFunction(f) = SumFunction(there) - gone}
      grown == [here EXCEPT ![country] = @ + Placed(generated, SumFunction(there))]
  IN  {[b EXCEPT !.cubes[pd] = [u \in Types |-> IF u = t THEN grown ELSE f]] : f \in left}

--------------------------------------------------------------------------------
(* The cleanup. *)

NoQuestion == [kind |-> "NONE", pd |-> Nobody, of |-> Nobody, options |-> {}, fresh |-> FALSE]
NoCleanup  == [step |-> "NONE", choices |-> [pd \in PDs |-> "NONE"], left |-> {}]

Question(kind, pd, b, options) ==
  [kind |-> kind, pd |-> pd, of |-> b.holder[pd], options |-> options, fresh |-> TRUE]

\* Mutated form of Stale: a question outlives the commands after it.
StillOpen == viralChoice

\* Any other accepted command leaves a question that nobody can answer.
Stale == [viralChoice EXCEPT !.fresh = FALSE]

\* automaticViralTieChoices: a holder with cubes of one type only has no choice.
Automatic(b, choices) ==
  [pd \in PDs |->
     IF choices[pd] = "NONE" /\ Tied(b, pd)
     THEN CASE OwnCubes(b, pd, "RESILIENCY") = 0 /\ OwnCubes(b, pd, "MALIGN") > 0 -> "MALIGN"
            [] OwnCubes(b, pd, "MALIGN") = 0 /\ OwnCubes(b, pd, "RESILIENCY") > 0 -> "RESILIENCY"
            [] OTHER -> "NONE"
     ELSE choices[pd]]

\* unresolvedViralTies
Unresolved(b, choices) ==
  {pd \in PDs : /\ choices[pd] = "NONE" /\ Tied(b, pd)
                /\ \A t \in Types : OwnCubes(b, pd, t) > 0
                /\ Near[pd] # {}}

\* The type with which a demographic goes viral.
ViralType(b, pd, choices) ==
  LET m == Cubes(b, pd, "MALIGN") r == Cubes(b, pd, "RESILIENCY")
  IN  IF m <= Threshold /\ r <= Threshold THEN "NONE"
      ELSE IF m = r THEN choices[pd]
      ELSE IF m > r THEN "MALIGN" ELSE "RESILIENCY"

\* snapshotViralOrigins, as a set: First gives the order of the code.
Origins(b, choices) ==
  {pd \in PDs : /\ b.holder[pd] # Nobody /\ Near[pd] # {}
                /\ ViralType(b, pd, choices) # "NONE"
                /\ OwnCubes(b, pd, ViralType(b, pd, choices)) > 0}

\* buildM2StateFromCanonical and applyM2StateToCanonical, with the cards as the
\* M2 engine leaves them.
WriteBack(cards) ==
  /\ card' = Flattened(cards)
  /\ strategy' = Piled(strategy, Flattened(cards))

\* advanceViralCleanup, with the continuation k on the board b: the next tie,
\* or else the snapshot and its next origin, or else the end of the turn.  The
\* initiative keeps the status and the locks of the turn that ends.
Advance(k, b) ==
  LET chosen   == IF k.step = "VIRAL_SNAPSHOT" THEN Automatic(b, k.choices) ELSE k.choices
      ties     == IF k.step = "VIRAL_SNAPSHOT" THEN Unresolved(b, chosen) ELSE {}
      snapshot == [step |-> "VIRAL_RESOLUTION",
                   choices |-> [pd \in PDs |->
                                  IF pd \in Origins(b, chosen) THEN ViralType(b, pd, chosen)
                                  ELSE "NONE"],
                   left |-> Origins(b, chosen)]
      frozen   == IF k.step = "VIRAL_SNAPSHOT" THEN snapshot ELSE k
  IN  CASE ties # {} ->
             /\ cleanup' = [k EXCEPT !.choices = chosen]
             /\ viralChoice' = Question("INFLUENCE_TYPE", First(b, ties), b, Types)
             /\ phase' = phase
        [] ties = {} /\ frozen.left # {} ->
             /\ cleanup' = frozen
             /\ viralChoice' = LET pd == First(b, frozen.left)
                               IN  Question("DESTINATION_PD", pd, b, Near[pd])
             /\ phase' = phase
        [] OTHER ->
             /\ cleanup' = NoCleanup /\ viralChoice' = NoQuestion
             /\ phase' = "INITIATIVE_STAGE"

\* cleanupCampaignAging: a campaign of row II is discarded; one of row I moves
\* to row II.
AgedMat ==
  [p \in Players |-> CASE mat[p].row = "I" -> [mat[p] EXCEPT !.row = "II"]
                       [] OTHER -> NoCampaign]

\* discardWithLifecycle on a card of a discarded campaign: False Identities
\* return to the player of the country they belong to, whoever controls them and
\* however full that hand is; nothing of the cleanup looks at the hand limit.
OwnerOf(c) == CHOOSE p \in Players : seat[p].country = c[1]

Retired(c) ==
  IF c[2] = "falseIdentities" /\ card[c].zone = "CAMPAIGN"
  THEN [by |-> OwnerOf(c), zone |-> "HAND"]
  ELSE [card[c] EXCEPT !.zone = IF IsStarter(c) THEN "REMOVED_FROM_GAME" ELSE "DISCARD"]

AgedCards ==
  LET discarded == UNION {mat[p].cards : p \in {q \in Players : mat[q].row = "II"}}
  IN  [c \in DOMAIN card |-> IF c \in discarded THEN Retired(c) ELSE card[c]]

\* Mutated form of RunCleanup: a continuation that is there must be finished.
RunCleanupOnce ==
  /\ phase = "RESOLUTION_STAGE" /\ ~paused
  /\ cleanups < table.cleanups
  /\ cleanup.step = "NONE"
  /\ mat' = AgedMat
  /\ WriteBack(AgedCards)
  /\ Advance([step |-> "VIRAL_SNAPSHOT", choices |-> [pd \in PDs |-> "NONE"], left |-> {}], board)
  /\ cleanups' = cleanups + 1
  /\ UNCHANGED <<setupVars, paused, stageVars, money, deals, pauses, board, endGame>>

\* runM2Cleanup.  Patient facilitators do not start it again while a player
\* can answer.
RunCleanup ==
  /\ phase = "RESOLUTION_STAGE" /\ ~paused
  /\ cleanups < table.cleanups
  /\ table.patient => ~viralChoice.fresh
  /\ mat' = AgedMat
  /\ WriteBack(AgedCards)
  /\ Advance([step |-> "VIRAL_SNAPSHOT", choices |-> [pd \in PDs |-> "NONE"], left |-> {}], board)
  /\ cleanups' = cleanups + 1
  /\ UNCHANGED <<setupVars, paused, stageVars, money, deals, pauses, board, endGame>>

\* submitViralChoice, the type of a tie.
ChooseType(p, t) ==
  /\ phase = "RESOLUTION_STAGE" /\ ~paused
  /\ viralChoice.kind = "INFLUENCE_TYPE" /\ viralChoice.fresh
  /\ viralChoice.of = p /\ t \in viralChoice.options
  /\ Advance([cleanup EXCEPT !.choices[viralChoice.pd] = t], board)
  /\ UNCHANGED <<setupVars, paused, cardVars, stageVars, money, deals, pauses,
                 mat, board, endGame, cleanups>>

\* resolveViralOrigin: a roll of six succeeds; in the baseline a second die
\* decides between one cube and two.
Generated == IF variant = "SHORT" THEN {0, 1} ELSE {0, 1, 2}

\* submitViralChoice, the destination of an origin.
ChooseDestination(p, pd) ==
  /\ phase = "RESOLUTION_STAGE" /\ ~paused
  /\ viralChoice.kind = "DESTINATION_PD" /\ viralChoice.fresh
  /\ viralChoice.of = p /\ pd \in viralChoice.options
  /\ LET origin == viralChoice.pd
     IN  \E n \in Generated :
           \E b \in IF n = 0 THEN {board}
                    ELSE Influenced(board, pd, cleanup.choices[origin], seat[p].country, n) :
             /\ board' = b
             /\ Advance([cleanup EXCEPT !.left = @ \ {origin}], b)
  /\ WriteBack(card)
  /\ UNCHANGED <<setupVars, paused, stageVars, money, deals, pauses, mat, endGame, cleanups>>

--------------------------------------------------------------------------------
(* The rest of the resolution stage. *)

\* The scheduler reaches the player's slot: the campaign of the plan, if its
\* cards are still in the hand.  Everything else a slot does is Adjudication's;
\* here it leaves any of the boards of the instance.
ResolvePlan(p) ==
  /\ phase = "RESOLUTION_STAGE" /\ ~paused
  /\ ~planning[p].done
  /\ \A k \in 1 .. Position(initiative.order, p) - 1 : planning[initiative.order[k]].done
  /\ planning' = [planning EXCEPT ![p].done = TRUE]
  /\ LET d == planning[p].cards
     IN  IF d # {} /\ \A c \in d : InHand(p, c)
         THEN /\ mat' = [mat EXCEPT ![p] = [row |-> "I", cards |-> d]]
              /\ card' = [c \in DOMAIN card |->
                            IF c \in d THEN [card[c] EXCEPT !.zone = "CAMPAIGN"] ELSE card[c]]
              /\ strategy' = [strategy EXCEPT ![p].hand = @ \ d]
         ELSE UNCHANGED <<mat, cardVars>>
  /\ board' \in table.boards
  /\ viralChoice' = Stale
  /\ UNCHANGED <<setupVars, phase, paused, initiative, maintenance, money, deals, pauses,
                 cleanup, endGame, cleanups>>

\* determineWinners: the most points, then the fewest malign cubes at home.
Winners(vp) ==
  LET leaders == {p \in Players : \A q \in Players : vp[q] <= vp[p]}
      home(p) == {pd \in PDs : HostOf[pd] = seat[p].country}
      malign(p) == SumFunctionOnSet([pd \in PDs |-> Cubes(board, pd, "MALIGN")], home(p))
  IN  {p \in leaders : \A q \in leaders : malign(p) <= malign(q)}

\* runM2EndGame with finalizeGame: a new call adds the objectives once more.
EndGame ==
  /\ phase = "RESOLUTION_STAGE" /\ ~paused
  /\ endGame.calls < table.endings
  /\ LET vp == [p \in Players |-> endGame.vp[p] + Objective(seat[p].country, board.cubes)]
     IN  endGame' = [vp |-> vp, winners |-> Winners(vp), calls |-> endGame.calls + 1]
  /\ viralChoice' = Stale
  /\ UNCHANGED <<prepVars, mat, board, cleanup, cleanups>>

--------------------------------------------------------------------------------

\* createGame
Init ==
  /\ PrepInit
  /\ mat = [p \in Players |-> NoCampaign]
  /\ board = table.board
  /\ cleanup = NoCleanup /\ viralChoice = NoQuestion
  /\ endGame = [vp |-> [p \in Players |-> 0], winners |-> {}, calls |-> 0]
  /\ cleanups = 0

Overlay ==
  /\ Pause \/ Resume
  /\ viralChoice' = Stale
  /\ UNCHANGED <<mat, board, cleanup, endGame, cleanups>>

Answer(p) ==
  \/ \E t \in Types : ChooseType(p, t)
  \/ \E pd \in PDs : ChooseDestination(p, pd)

Next ==
  \/ Setup /\ UNCHANGED turnVars
  \/ \E p \in Players : Prepare(p) /\ UNCHANGED turnVars
  \/ Overlay
  \/ \E p \in Players : ResolvePlan(p) \/ Answer(p)
  \/ RunCleanup
  \/ EndGame

Spec == Init /\ [][Next]_vars

(***************************************************************************)
(* Players do what the stage waits for, the facilitator lifts a pause, and *)
(* the server's side runs the scheduler and the cleanup.  Nobody has to    *)
(* deal, to pause, to change a deck or to end the game.                    *)
(***************************************************************************)
Lock(p) == LockStrategy(p) \/ ResolveInitiative(p) \/ LockMaintenance(p) \/ LockPlan(p)

Fairness ==
  /\ \A p \in Players : WF_vars(SubmitDeck(p) /\ UNCHANGED turnVars)
  /\ WF_vars(\E p \in Players : SetMaintenance(p) /\ UNCHANGED turnVars)
  /\ WF_vars(\E p \in Players : Lock(p) /\ UNCHANGED turnVars)
  /\ WF_vars(\E p \in Players : ResolvePlan(p) \/ Answer(p))
  /\ WF_vars(Resume /\ Overlay)
  /\ WF_vars(RunCleanup)

FairSpec == Spec /\ Fairness

--------------------------------------------------------------------------------
(* Properties. *)

Cards == DOMAIN card
Zones == {"STARTER_POOL", "OPERATIONS_POOL", "OPERATIONS_DECK", "HAND", "DISCARD",
          "CAMPAIGN", "REMOVED_FROM_GAME"}

\* The shape of the state that the commands of setup-dispatcher.ts share.
TypeOK ==
  /\ table \in Tables
  /\ phase \in {"SETUP", "STRATEGY_STAGE", "INITIATIVE_STAGE", "ACTION_STAGE_PLAN",
               "RESOLUTION_STAGE"}
  /\ paused \in BOOLEAN /\ variant \in {"BASELINE", "SHORT"}
  /\ joined \in SUBSET Players
  /\ seat \in [Players -> {NoSeat} \cup [country : Countries, index : Places]]
  /\ \A c \in Cards : card[c] \in [by : Players \cup {Nobody}, zone : Zones]
  /\ strategy \in [Players -> [submitted : SUBSET Cards, deck : SUBSET Cards, hand : SUBSET Cards,
                               discard : SUBSET Cards, locked : BOOLEAN]]
  /\ initiative.status \in {"PENDING_ROLL", "MAINTENANCE", "COMPLETE"}
  /\ Range(initiative.order) \subseteq Players
  /\ maintenance \in [Players -> [discards : SUBSET Cards, submitted : BOOLEAN, locked : BOOLEAN]]
  /\ planning \in [Players -> [cards : SUBSET Cards, locked : BOOLEAN, done : BOOLEAN]]
  /\ money \in [Countries -> Nat]
  /\ mat \in [Players -> [row : {"NONE", "I", "II"}, cards : SUBSET Cards]]
  /\ board \in Boards
  /\ cleanup.step \in {"NONE", "VIRAL_SNAPSHOT", "VIRAL_RESOLUTION"}
  /\ cleanup.choices \in [PDs -> Types \cup {"NONE"}] /\ cleanup.left \in SUBSET PDs
  /\ viralChoice.kind \in {"NONE", "INFLUENCE_TYPE", "DESTINATION_PD"}
  /\ endGame.vp \in [Players -> Int] /\ endGame.winners \in SUBSET Players
  /\ cleanups \in 0 .. table.cleanups /\ deals \in 0 .. table.deals
  /\ pauses \in 0 .. table.pauses /\ endGame.calls \in 0 .. table.endings

\* The card that can come home to p from a discarded campaign.
HomeCard(p) == <<seat[p].country, "falseIdentities">>

\* Where a card is, as its record says, is where the piles and the mat of its
\* controller have it, and nowhere else.  A hand is within the limit until the
\* first cleanup, and afterwards but for the one card that a discarded campaign
\* gives back to its owner, whose hand may be full.  Only the order of a deck
\* outlives the first cleanup, which writes the cards of decks and pools back
\* as discarded ones (applyM2StateToCanonical).
CardsAccounted ==
  \A p \in Players :
    LET in(z) == {c \in Cards : card[c] = [by |-> p, zone |-> z]}
    IN  /\ strategy[p].hand = in("HAND")
        /\ strategy[p].discard = in("DISCARD")
        /\ mat[p].cards = in("CAMPAIGN")
        /\ cleanups = 0 => /\ strategy[p].deck = in("OPERATIONS_DECK")
                           /\ Cardinality(strategy[p].hand) <= table.limit
        /\ Cardinality(strategy[p].hand \ {HomeCard(p)}) <= table.limit

\* The resources of all countries are what the scenario gave them and one
\* income for each maintenance locked (resourceLedger: SCENARIO_SETUP,
\* TURN_INCOME, and DEAL_TRANSFER twice).
MoneyConserved ==
  LET paid == {p \in Players : maintenance[p].locked}
  IN  SumFunction(money) = SumFunction(StartMoney)
        + SumFunctionOnSet([p \in Players |-> IF seat[p] = NoSeat THEN 0
                                             ELSE Income[seat[p].country]], paid)

\* A question that its player can answer is about the board as it is: the tie
\* stands, or the origin is the first that is left, and the holder is asked.
QuestionStands ==
  viralChoice.fresh =>
    /\ viralChoice.of = board.holder[viralChoice.pd]
    /\ viralChoice.options # {}
    /\ IF viralChoice.kind = "INFLUENCE_TYPE"
       THEN viralChoice.pd \in Unresolved(board, cleanup.choices)
       ELSE /\ cleanup.step = "VIRAL_RESOLUTION"
            /\ viralChoice.pd = First(board, cleanup.left)

\* Once the game has started, the turn comes to its end: no hand, deal, pause
\* or viral question stops it for ever.
TurnEnds ==
  phase = "STRATEGY_STAGE" ~> (phase = "INITIATIVE_STAGE" /\ cleanups > 0)

\* GE-CORE-007 of the acceptance specification: a turn that is not the last
\* leads back to the initiative stage.  The roll of that stage can be asked for.
NextTurnCanStart ==
  phase = "INITIATIVE_STAGE" /\ cleanups > 0 => initiative.status = "PENDING_ROLL"
================================================================================
