# Formal models of the MALIGN-AI server

MALIGN-AI is a turn-based influence game played by several participants and a
facilitator through a server that keeps every game in PostgreSQL. The server may
run on several nodes; commands arrive over HTTP, results reach browsers over
WebSockets. This directory holds TLA+ models of the parts whose correctness
depends on interleavings, failures and long histories, the TLC instances that
check them, and the proofs that hold for every instance.

Paths below are relative to the repository root.

## 1. The system: inventory

| Component | State it keeps | Operations | Talks to |
|---|---|---|---|
| **Command coordinator** `apps/server/src/game-session-application.ts` | per node and game: a promise chain (`writerTailByGame`), a transactional random provider, a clock | `withGameWriter`, `coordinateDurableOperation`, the M1/M2 schedulers | unit of work, recovery, engine |
| **Durable unit of work** `packages/persistence/src/unit-of-work.ts` | the rows of a game: version, heads, cached state, events, ledgers, snapshots, idempotency, outbox | `loadCommittedEngineResult`, `persistAcceptedTransition` | PostgreSQL |
| **Recovery** `packages/persistence/src/recovery.ts` | `recovery_blocked` | `reconcileDurableGame`, `recoverDurableGame` (replay), `recordFacilitatorOverride` | PostgreSQL |
| **Random provider** `apps/server/src/runtime-random.ts` | values generated so far, a cursor | `integer`, `checkpoint`, `restore`, `commit` | engine |
| **Outbox publisher and pump** `packages/persistence/src/outbox.ts`, `apps/server/src/realtime-postgres.ts` | delivery state and attempt journal of each message; the active call of each node | `claimOne`, `deliver`, `acknowledge`, `recoverExpiredLeases`, `publishOne`, `drainAndStop` | PostgreSQL, `NOTIFY` |
| **Wake-up listener** `realtime-postgres.ts` | a LISTEN connection, the last outbox sequence seen per game | notification, periodic catch-up, reconnect | realtime server |
| **Realtime server** `apps/server/src/realtime-server.ts`, `m1-realtime.ts` | connections, sessions, subscriptions with issued and acknowledged cursors, a promise chain per connection and per subscription | AUTHENTICATE, SUBSCRIBE, ACK, RESYNC_REQUEST, UNSUBSCRIBE, wake, heartbeat, shutdown | browsers, event feed |
| **Sessions** `packages/authz/src/productive-authn.ts` | sessions by id, invalidation observers | create, resolve, invalidate, cross-node invalidation | realtime server, HTTP |
| **Server process and HTTP** `apps/server/src/index.ts`, `http-server.ts` | pools, timers, `stopping` | start, logout and command requests, shutdown in order | all of the above |
| **Atomic dispatch** `packages/game-engine/src/atomic-dispatch.ts`, `dispatcher.ts` | in-process store and ledger | `dispatchAtomicCommand` | engine |
| **Engine: setup, initiative, planning** `packages/game-engine/src/setup-dispatcher.ts`, `packages/domain/src/m1-setup.ts` | participants, seats, decks, hands, maintenance, plans, resources, overlay | one function per command | rules |
| **Engine: cards, reactions, veto** `setup-dispatcher.ts`, `packages/game-engine/src/m2b.ts`, `m2b-reaction.ts`, `m2-integrated-state.ts` | `m2EffectChoice`, `reactionContinuation`, `m2Veto`, `m2CoreScheduler`, zones of cards | effects, answers, windows, votes, core operations | rules |
| **Engine: cleanup and end of the game** `setup-dispatcher.ts`, `m2b-lifecycle.ts`, `m2b-endgame.ts` | `cleanupContinuation`, `viralChoice`, rows of campaigns, victory points | cleanup, viral questions, final scoring | rules |
| **Engine: adjudication** `packages/game-engine/src/m1-adjudication.ts` | the cursor of the scheduler, pending resolution, campaigns, ledger | scheduler steps, choice resolution | rules |
| **Rules** `packages/rules/src` | none | influence cancellation, campaign value, ERT | |
| **Migrations** `packages/persistence/src/migrations.ts` | schema ledger | apply, verify | PostgreSQL |
| **Projections, contracts, web BFF, authz adapters, plumbing** | none that matters here | pure functions and I/O | |

What is hard in it: commands of several nodes race for one game and meet only at
the row lock; a state is read without the lock and used under it; random values
are drawn before the outcome of the write is known; a connection can break
between COMMIT and its answer; leases expire while their holders are alive; a
process may die anywhere; wake-ups are lost, repeated and late; subscriptions
deliver, acknowledge and resynchronise at once. Inside the engine a command is one
step, and what is hard is the long sequence of them: a question is asked by one
command and answered by another, everything may have moved in between, and a card,
a resource or a turn is recorded in several places that every command must move
together.

What makes each part correct: one linear history per game in which every event
was computed from its predecessor; every key executed at most once; the durable
families of a transition standing or falling together; a random value deciding
one event; outbox messages first delivered in order, settled by one authority,
and always settled in the end; subscribers reaching the head of the feed without
a gap; every slot of the plans decided once, in order and paid for once; cards and
money where their records say; answers that act on the game as it is; turns,
windows and votes that end; connections that have a session, and none left when the
identity is logged out, the token expires or the node stops.

## 2. Modules

| Module | Models | Extends / uses |
|---|---|---|
| `OutboxDelivery` | the abstract promise of the outbox | |
| `Outbox` | publisher, pumps, leases, crashes | refines `OutboxDelivery` |
| `MCOutbox` | its TLC instances | `Outbox` |
| `OutboxProofs` | its theorems | `Outbox`, TLAPS |
| `DataProofs` | lemmas about sums, subsets and draws that the proofs share | `CardPiles`, TLAPS |
| `CommandLog` | the abstract promise of command execution | |
| `DurableCommand` | coordinator, unit of work, recovery, random provider | refines `CommandLog` |
| `MCDurableCommand` | its TLC instances | `DurableCommand` |
| `DurableCommandProofs` | its theorems | `DurableCommand`, TLAPS |
| `ViewerFeed` | the abstract promise to a viewer | |
| `Realtime` | listener, subscription, deliveries, client | refines `ViewerFeed` |
| `MCRealtime` | its TLC instances | `Realtime` |
| `RealtimeProofs` | its theorems | `Realtime`, TLAPS |
| `Sessions` | connections, the session registry of each node, logout and its NOTIFY, shutdown | |
| `MCSessions` | its TLC instances | `Sessions` |
| `SessionsProofs` | its theorems | `Sessions`, TLAPS |
| `CampaignRules` | tiers, prices, the ERT, two-to-one cancellation | |
| `Adjudication` | the resolution stage of a turn: scheduler, slots, answers, interruptions | `CampaignRules` |
| `MCAdjudication` | its TLC instances | `Adjudication` |
| `AdjudicationProofs` | its theorems | `Adjudication`, TLAPS |
| `CardPiles` | drawing a card, the passage of all cards through the M2 state | |
| `TurnPreparation` | the commands from the creation of a game to the resolution stage | `CampaignRules`, `CardPiles` |
| `GameTurn` | a whole turn: preparation, resolution stage, cleanup, viral questions, final scoring | `TurnPreparation` |
| `MCGameTurn` | its TLC instances | `GameTurn` |
| `GameTurnProofs` | its theorems | `GameTurn`, TLAPS |
| `CardPlay` | effects of cards and their answers, reaction windows, the veto, core operations and their plans | `CardPiles` |
| `MCCardPlay` | its TLC instances | `CardPlay` |
| `CardPlayProofs` | its theorems | `CardPlay`, TLAPS |

Definitions whose comment starts with "Mutated form" are deliberate errors. They
stand beside the definition they alter and are never reached by a specification;
each documents a fault the property named in `PROJECT.json` detects.

### 2.1 Outbox

Each message has a delivery `row` (`outbox_delivery_states`) and a `journal` of
attempts (`outbox_delivery_attempts`, whose UNIQUE constraint on message, attempt
and stage is kept, because two actors can want the same stage). Each node has one
`pump` whose control state is the point the code has reached between two
transactions. One action is one transaction: `ClaimOne`, `SendStarted`,
`SendReturned`, `RecordFailure`, `Acknowledge`, `RecoverExpiredLeases`; `Send` and
`SendFails` are the transport call. `LeaseRunsOut` is time passing, `Abandon` the
death of a node or a database error, `DrainAndStop` and `Restart` the life of a
process, and `CommitMessage` the write of a game transition.

`claimOne`'s `NOT EXISTS` over earlier messages and `acknowledge`'s token check are
the two guards everything rests on. `recoverExpiredLeases` keeps the claim token of
the row: the old holder may still reschedule but no longer acknowledge.

### 2.2 Durable commands

A call walks through the stages listed in the module's head. The actions cut the
code at its `await`s, so that any other node can run in between: `FastLookup`
(unlocked idempotency lookup), `Reconcile` (locked), `ReadGameRow` and the read of
the tail (two unlocked statements), `EngineAccepts`/`EngineRejects`/`DrawThrows`
(synchronous), then `PersistRefuses`/`PersistFindsCommitted`/`PersistStale`/
`BeginWrite` under the row lock, `Commit` or `WriteFails`, and `Finalize` or
`CommitUnheard`. `FacilitatorOverride` is the second writer of a game. `Crash`
loses a node's calls and its random provider; `Corrupt` stands for any divergence
that only reconciliation compares.

Abstractions: a command's effect is the triple of its key, fingerprint and draw, a
state the sequence of effects since the snapshot (so two states are equal exactly
when they have the same history, as their hashes are), and the engine accepts or
rejects freely. All keys belong to one actor: idempotency records are per actor, so
actors never share a key. Transport of the answer to the client is not modelled; a
lost answer is a client that calls again with the same key.

### 2.3 Realtime

One node, one game, one viewer with one subscription at a time. `log` and `version`
are the events and the version inside the state of the game; a cursor is a pair of
both. `Commit` and `FacilitatorOverride` move them, `Notify` and `NotifyAgain` are the
outbox pump (at least once, and only to a listener that is up).

`tail` is the promise chain of the subscription. An operation of it is `queued`,
`reading` (the session was checked, the membership and the state are awaited) or
`read` (it holds the head it will send). The actions are the turns of the event loop
between two awaits: `DeliveryStarts`, `ReadFeed`, `SendFeed`, with their failures
`DeliverySkipped`, `DeliveryRefused`, `ReadFails`, `CursorRefused`; the failure of a
wake is swallowed, that of a client's frame closes the socket (`OpFails`). SUBSCRIBE is
`SubscribeFrame`, `SubscribeReads`, `Subscribed`; `Acknowledge` is a whole operation;
`UnsubscribeFrame` sets `closed` and `UnsubscribeDone` has awaited the tail. A frame
of the client is handled when the previous one is done, as on `connection.tail`.
`Send` is the whole loop of sends of one handler, with the closing of a socket whose
pending frames are at their limit. `wire` holds the frames sent and not received;
`pendingMessages` is its length.

The client keeps the events it was sent (`heard`), the cursors of its batches and of
the SYNC it started from (`points`), with any of which it may come back on another
connection, and the cursors of its present subscription (`got`), which it
acknowledges and resyncs from.

Abstractions: a wake is not queued behind one that has not started (the earlier one
will read the database later than the wake); a wake of a closed subscription, which
returns at once, is not queued either; deliveries of a connection that is gone send
nothing and are dropped when the client connects again. The opening of a connection
and AUTHENTICATE are one step (`Sessions` takes them apart). Outbox message n is that of
game version n.

`Sessions` is the other half: nodes, connections and identities, and no game. A
connection's `auth` says how far its AUTHENTICATE frame has come; `Verified` and
`CreateSession` are the two sides of the one `await` of `authenticate`, between which the
authentication timer, the peer, the token's expiry, a logout or the shutdown may come.
`CreateSession` counts the identity's connections and creates the session in one turn, for
a connection that may be gone. `Invalidate` is the registry's `invalidate` with its
observer, which closes the sockets in the same turn. `LogoutRequest` ends the sessions of
its own node and `LogoutNotified` is the commit of the NOTIFY, which reaches the nodes that
LISTEN at that moment. The listener connects in three steps, because `stop()` may come
between them. `stage` is the shutdown of `index.ts`, one value per `await`, and
`ShutdownFails` the exit of its `finally`.

Abstractions: a session is named by its connection; sessions of HTTP requests, which end
with their request and are looked up by nobody, are left out, but for the logout; the
authentication timer is armed exactly while an open connection has no session, so that it
is not a variable; an identity has one token.

### 2.4 Adjudication

`slots` are the locked plans (`actionPlanning[...].lockedSlots`), `cursor` and
`current` the scheduler's cursor and `currentRevealedAction`, `pending` and `choice`
the two continuations a command may leave open (`adjudication.pendingResolution` and
`m2EffectChoice`). `dispatchAtomicCommand` works on a copy and commits it or nothing,
so that one command is one action, and a rejected command an action that is not
enabled. A slot whose checks fail is therefore not decided: it stays under the cursor.

`RunNext` is `prepareScheduler` for one slot: `ConstructCampaign`, `PlayBoost`,
`PlayDoubleAction`, `UseRegime`, `NegateActivation` and `ActivateCampaign`;
`FlumaTrigger` is the part of `prepareScheduler` before the slots. An activation goes
on through `ResolveActivation`, `RollOrAsk`, `PayAndRoll` and `Complete`, which the
answers `SubmitNarrative`, `SubmitCoalition`, `SubmitManualDie` and `SubmitChoice`
enter where the code re-enters `continueActivationAfterNarrative` and
`completeActivation`. Regime slots end in `SubmitArdenChoice`, `SubmitDinesiaChoice`
and `SubmitFlumaChoice`, which move the cursor by themselves (`AdvanceInline`) as
`submitM2EffectChoice` does. `Interrupt` gathers the calls that arrive whatever is
open: Sanctions, a blind theft, a discarded or vetoed campaign, Establish Legitimacy,
Backlash and a pause.

Abstractions: intent, method and amplifier of a campaign move as one kit; a campaign is
named by its owner; countries and their players are the same; cubes of one
player on a demographic are a number (the order of the stacks decides nothing); cards
outside the plan are in the discard pile, but for one Sanctions card per player. A
veto is its last vote. A thief does not play the card it has stolen, so
`returnToOwnerOnDiscard` decides nothing; the kits have no False Identities
(BASE_CARD_061), which come back to their owner when a campaign is discarded
(`GameTurn` and `CardPlay` have the rule). The narrative of kind FIXTURE, which only a
test harness writes, does not exist.

### 2.5 Preparing a turn and ending it

`TurnPreparation` has one action per client command of `SetupCommandDispatcher.reduce`:
`Join`, `AssignSeat`, `ConfigureOption`, `StartGame`, `Pause`, `Resume`, `SubmitDeck`,
`LockStrategy`, `ResolveInitiative`, `SetMaintenance`, `LockMaintenance`,
`DealResources`, `DealCard`, `SetPlan`, `LockPlan`. The last lock of a stage opens the next
stage in the same action, as in the code. `card` is `state.cards` (zone and controller),
`strategy` the piles of `state.strategy`: the code keeps both and so does the model,
since their agreement is what `CardsAccounted` is about. Decks are sets, because they
are shuffled: the next card is any of them. `Filled` is the loop that fills a hand in
`lockInitiativeMaintenance`, with the interception of Leaks by Security Protocols and the
reshuffle of the discard pile.

`GameTurn` EXTENDS it with the resolution stage. `ResolvePlan` stands for all the slots
of a player; only the campaign, which later moves cards, is kept, and what the slots did to
the board is any board of the instance. `RunCleanup` ages the campaigns and calls
`Advance`, the function `advanceViralCleanup`, which `ChooseType` and `ChooseDestination`
call again with the continuation. `viralChoice.fresh` is the comparison of the question's
version with that of the game: `Stale` is the part of every other accepted command that
makes the question unanswerable. `Influenced` is `applyDirectInfluence` with the two-to-one
cancellation of `CampaignRules`. `Retired` is `discardWithLifecycle` on a card of an aged
campaign: False Identities (BASE_CARD_061) go to the hand of the player of their country,
whoever played them; other cards are discarded or, if starters, leave the game. `WriteBack` is `applyM2StateToCanonical`, which every
operation of the M2 engine ends with: cards of decks and pools return as discarded ones
while the order of the deck stays.

Abstractions: every command belongs to the player it names (authorization is outside);
a plan is the cards of at most one campaign, and any cards of the hand make one (the
table of component rules, `BASE_2025_M1_CAMPAIGN_CARD_RULES`, is data that the engine is
given; the one that ships has no row for BASE_CARD_061, so that today it is refused as a
component although the card registry lists it as one); deals move one resource; `EndGame` takes the
objective of a country as the parameter `Objective`; a promise of a deal is an event that
no rule reads and is left out; stacks of cubes are reduced in any order.

### 2.6 Cards, reactions and the veto

`PlayEffect` is `executeM2Effect`: phase, holder, and then one disjunct per kind of
effect. `PayEffect`, `Trade`, `CyberTheft`, `Corrupt`, `Expose`, `Budget` and `PolicyShift`
are done at once; `DrawThree`, `Search`, `Request` and `Honeypot` open `choice`
(`m2EffectChoice`), with the cards that are offered in groups. `Answer` is
`submitM2EffectChoice`: `AnswerSearch`, `AnswerSwap`, `AnswerSpy`, `AnswerDiscard` and
`AnswerRetrieve` check again that what was offered is still there. `OpenWindow`, `Pass` and
`React` are the reaction window; a reaction is `Negate`, `FirstRefusal`, `Intercept`,
`HackBack` or `Object`, which opens the veto. `ReviewAbuse`, `Defend` and `Vote` lead to
`Verdict`. `Core` is one operation of the server's side, `RunPlan` the next one of a plan:
`runM2CoreScheduler` sends each operation as a command of its own, so that two runs
interleave between operations. `PlansLocked` is the last lock of the planning stage,
which looks at no choice.

Abstractions: a card is its owner and its name, and names stand for effects: names
without a meaning (rally, news, poll) are cards to be moved; a die that decides is a free
choice; direct influence is its price; a player has one campaign; pauses are
`TurnPreparation`'s. Which cards exist, which operations the server may be asked for and
in which plans, is the table of the instance.

## 3. Runs

| Run | Question | Bounds | Result |
|---|---|---|---|
| `outbox_delivery` | order, authority and journal of one game's messages; liveness; refinement of `OutboxDelivery` | 3 messages, 2 nodes, 2 faults, `FairSpec` | holds |
| `durable_safety` | lost updates, durable families, random values | 3 calls, 2 nodes, 2 keys, 2 payloads, 2 faults | holds |
| `durable_live` | blocked games; every call ends; refinement of `CommandLog` | 2 calls, 1 fault, 1 override, `FairSpec` | holds |
| `realtime_sessions` | resumption from every cursor, refused clients, silence after the end, overrides and failing reads; refinement of `ViewerFeed` | 3 events, 2 connections, 2 pending frames; 2 client requests, or 1 override and 1 failed read | holds |
| `realtime_live` | a connected subscriber catches up | 3 events, 1 outage, 1 repeated notification, 1 failed read, `FairSpec` | holds |
| `sessions` | connections and their sessions, logout, expiry, shutdown | 2 nodes, 1 identity, 2 connections, limit 1; budgets of up to 2 outages, 2 logouts, 1 stop; `FairSpec` | holds |
| `adjudication_safety` | order and secrecy of the plans, ownership of what is open, money, cards and boosts, FLUMA's precedence | 3 players, 3 demographics, 2 kits, 12 combinations of plans on 3 tables, rolls 1 and 10, 1 interruption | holds |
| `adjudication_live` | every slot is decided, FLUMA settles | sound plans, FLUMA first, 2 tables, 1 pause, `FairSpec` | holds |
| `game_turn` | cards and money of a whole turn, what viral questions are about, the turn ends | 2 players, 2 demographics, 4 tables, hands of 2 or 3, up to 2 deals or 1 pause, up to 5 cleanups, 1 final scoring, `FairSpec` | holds |
| `card_play` | late answers, vetoes, plans of operations; windows and votes end | 3 players, 7 tables, up to 2 windows and 2 operations outside plans, `FairSpec` | holds |
| `stuck_feed` | documented promise | 2 events, 1 override | violated, see 6 |
| `second_turn` | documented promise | the smallest table of `game_turn` | violated, see 6 |

What the properties say:

* `outbox_delivery`: `FirstSendInOrder` (no message is handed over before an earlier one
  of its game was acknowledged), `OneAuthority` (one node can settle a message),
  `JournalTellsTheTruth` (the attempt journal has no hole, agrees with the row, and an
  acknowledgement stands for a send that happened), `EveryMessageIsAcknowledged`.
* `durable_*`: `ChainUnbroken` (every event was computed from its predecessor),
  `DurableFamiliesAgree`, `DrawsAreAccounted` (a random value decides one event, unless
  its first commit was never heard of), `CommandsRespectTheBlock`, `EveryCallEnds`. `TypeOK`
  is not among the invariants of the runs; `DurableCommandProofs` proves it.
* `realtime_*`: `PointsAreComplete` (whoever resumes from a cursor it was given misses
  nothing), `ClientNotRejected`, `QuietAfterTheEnd` (a session or a subscription that ended
  sends nothing more), `SubscriberCatchesUp`.
* `sessions`: `SocketsAreEntitled` (an open authenticated connection has its session, and
  an identity keeps to the limit), `LogoutEnds` (an invalidation that arrives ends the
  identity's sessions, and an expired token its connections, lost NOTIFYs or not),
  `ShutdownEnds`.
* `adjudication_*`: `SlotsInOrder` (the cursor lies between decided and undecided slots and
  a plan is revealed when it is reached), `SuspensionOwnsSlot`, `PaidOnce` (money is the
  opening and the ledger, and an activation pays once), `CardsFollowTheSlots` (the mat
  holds the cards of what is on it, a boost is used up once), `FlumaBeforeNextSlot`,
  `ScheduleEnds` (every slot is decided and FLUMA settles).
* `game_turn`: `CardsAccounted` (where a card's record says it is, is where piles and mat
  have it; a hand is within its limit until the first cleanup, and afterwards but for the
  card that comes home, see section 6), `MoneyConserved` (deals and pauses neither mint nor lose), `QuestionStands`
  (an answerable viral question is about the board as it is), `TurnEnds`.
* `card_play`: `AnswersAreCurrent` (an answer moves the card that was played and
  takes only what is still where it was offered; said of cards whose record agrees with
  the lists of the players, `InPlace`), `OnlyRetrievalMisplaces` (a card that is in place
  stays so in every step but one, the retrieval of section 6), `PlansDoNotInterleave` (operations of
  plans run once and whole plan by whole plan), `VetoSettled` (all vote, a strict majority
  takes the campaign), `ReactionsEnd` (windows close and vetoes are decided). Its `TypeOK`
  includes that nobody's resources become negative.

Why the bounds are enough. Order between outbox messages is a relation of three (an
acknowledged, a retried and a waiting one); two nodes are what a lease contest
needs, and two faults allow a slow holder and the failure or death of its successor;
messages of different games never meet in a guard, and the safety of more games and
faults is what section 4 proves. A lost update needs two nodes and an observer; three calls give a committed
one, a racing one and a queued one behind either, and two keys give equal and
different keys. Two faults are what the reuse of a draw needs (its commit goes
unheard, and something else fails).

A hole in a feed needs the event it started from, the skipped one and one after it:
three events, of which a commit may append two. A
batch of one event makes two events two batches, so that a connection can end between
them; two connections let a client come back once, and a limit of two pending frames
is met by a SYNC followed by a feed.

In the resolution stage two activations of different players meet on one demographic
and a third player holds cubes there, which is what an attribution choice needs; the
tables differ in dice mode, wealth (an unpayable price, a contribution that can be
made), a legitimacy holder with three markers and an aged campaign that keeps its
name. A roll of 10 gives the largest positive result and a roll of 1 a negative one;
regimes succeed with 1 and fail with 10. One interruption reaches every pair of an
open continuation and a foreign change to what it will use. The plans of
`adjudication_safety` include some the engine refuses for ever; those of
`adjudication_live` are the ones it can carry out, because the known stuck slots of
section 6 would otherwise be all that is seen.

A turn of `game_turn` has two players because its hazards are between two: a deal and a
lock, a tie and its holder. The first table has a Leaks card that is drawn against a
protocol, a deal at any point and a campaign that ages; the second a board on which a tie,
an origin and the cubes they generate all occur, with a pause that makes a question
stale; the third the short variant, decks of different sizes, two ties in one
cleanup and a final scoring at any point. On the remaining one (`HomeTable`) two deals let
False Identities and another card change hands, so that the card comes home from a
campaign to a hand that is full; a final scoring makes the question stale and thereby
allows the second cleanup this takes. Five cleanups are more than a turn with one
pause needs, so that `TurnEnds` is not cut short by the bound. `card_play` has three
players because a window has two who may react and a majority of three is not unanimity;
its tables give every kind of effect an answer that comes after a theft, two windows in a
row, two veto cards against one campaign, and two plans of three and four operations run
side by side. On `RetrievalTable` the discard effect brings a card of a deck to a hand,
a theft takes it on and a backlash and a draw meet what the deck still lists: without
`InPlace` in `AnswersAreCurrent` TLC refutes it there in seven states.

Of the connections of `sessions`, two are what a limit of one needs, on one node or on
two; the budgets pair a logout, an outage and a stop because the three meet in pairs
only: a NOTIFY with an outage, a stop with a listener that is reconnecting, a stop with a
logout under way. Nodes are alike, so that it is enough to stop one of them. `MCRealtime`
has a constraint, `Apart`: a behaviour has frames of the client or an override and a
failing read, not all of them; its run checks safety only.

Deadlock is not checked for the outbox, the commands, the engine and the connections,
because they may legitimately stop: all messages settled, all calls answered, all slots
decided, the bounds of a turn used up, the node gone.

Symmetry is used in safety runs of the durable commands only, over nodes, calls and
keys, which no definition tells apart.

Fairness. `Outbox!FairSpec` assumes that the publisher timer fires for ever
(`apps/server/src/index.ts:166`), that a live node runs its call to the end, that a
drained node is replaced, and that time passes, so leases run out. Nothing is
assumed of `recoverExpiredLeases`, which no timer calls. `DurableCommand!FairSpec`
assumes that Node's event loop and PostgreSQL keep a call moving; nothing is assumed
of clients, facilitators or faults, and crashed nodes answer with `LOST`.
`Realtime!FairSpec` assumes that the event loop runs what is queued, that the catch-up
timer fires for ever (`apps/server/src/realtime-postgres.ts:97`) and that frames on a
socket that stays up arrive; nothing is assumed of notifications, of the pump, of the
reconnection of the listener or of the client. `Sessions!FairSpec` assumes that awaits are
answered, armed timers fire, a closing socket closes (the library destroys it after its own
timeout), a notification that was received is handled and the listener's reconnect
timer fires (`realtime-postgres.ts:161`); no client has to do anything, no token has to
expire. `Adjudication!FairSpec` assumes that the
facilitator's client keeps asking for scheduler steps (each runs `runNext` once, through
`apps/server/src/game-session-application.ts:753`), that the player who is asked answers and that a
pause is ended; these are people's duties in the game and not timers of the code.
`GameTurn!FairSpec` assumes the same of a whole turn: players submit decks, lock what their
stage asks for and answer viral questions, the facilitator ends a pause, runs the
scheduler and the cleanup; a table marked `patient` is one whose facilitator does not
start a cleanup again while a player can answer. Nobody has to deal, to pause or to end
the game. `CardPlay!FairSpec` assumes that players pass when it is their turn to react,
defend and vote; nobody has to play a card, to answer a choice or to run a plan.

## 4. Proofs

A property of a run is checked on a small instance. The theorems below say the same for
every value of the constants: any number of games, messages, nodes, calls, players,
demographics, cards, plans and faults that the named assumptions admit. Each module
`XProofs` EXTENDS `X`; `DataProofs` has the lemmas about data that several of them use.

| Module | Theorem | States |
|---|---|---|
| `OutboxProofs` | `TypeCorrect`, `InOrder`, `SingleAuthority`, `JournalIsTrue` | `TypeOK`, `FirstSendInOrder`, `OneAuthority`, `JournalTellsTheTruth` |
| | `OutboxImplementsDelivery` | refinement of `OutboxDelivery` |
| `DurableCommandProofs` | `TypeCorrect`, `EventsAreAChain`, `FamiliesAgree`, `DrawsAccounted` | `TypeOK`, `ChainUnbroken`, `DurableFamiliesAgree`, `DrawsAreAccounted` |
| | `BlockIsRespected` | the action property `CommandsRespectTheBlock` |
| | `DurableImplementsCommandLog` | refinement of `CommandLog` |
| `RealtimeProofs` | `TypeCorrect`, `PointsComplete`, `NotRejected` | `TypeOK`, `PointsAreComplete`, `ClientNotRejected` |
| | `Quiet` | the action property `QuietAfterTheEnd` |
| | `RealtimeImplementsFeed` | refinement of `ViewerFeed` |
| `SessionsProofs` | `TypeCorrect`, `Entitled` | `TypeOK`, `SocketsAreEntitled` |
| `AdjudicationProofs` | `TypeCorrect`, `InitiativeOrder`, `SuspensionOwned`, `CardsFollow`, `PaidCorrect` | `TypeOK`, `SlotsInOrder`, `SuspensionOwnsSlot`, `CardsFollowTheSlots`, `PaidOnce` |
| | `FlumaPrecedes` | the action property `FlumaBeforeNextSlot` |
| `CardPlayProofs` | `TypeCorrect`, `NoInterleaving` | `TypeOK`, `PlansDoNotInterleave` |
| | `Settled` | the action property `VetoSettled` |
| | `OnlyRetrieval`, `CurrentAnswers` | the action properties `OnlyRetrievalMisplaces`, `AnswersAreCurrent` |
| | `InPlaceWithoutRetrieval` | where nobody holds the discard effect, every card is in place for ever |
| `GameTurnProofs` | `TypeCorrect`, `CardsAreAccounted`, `MoneyIsConserved`, `QuestionIsTrue` | `TypeOK`, `CardsAccounted`, `MoneyConserved`, `QuestionStands` |
| | `TwoForOne` | what cubes placed on a demographic cancel and leave |

### 4.1 The arguments

None of the invariants is inductive as it stands. What each needs besides itself:

* **Outbox.** `OrderInv` adds what the guards leave behind: a message that was claimed, is
  being worked on or was sent has only acknowledged predecessors, an acknowledged message
  was sent, and a pump past its send holds a message in `sent`. `ACKNOWLEDGED` is final
  because every action that writes a status requires another one or, in `RecordFailure`,
  rolls back. Order of first sends follows: `Send` adds a message whose predecessors are
  acknowledged, hence sent. `OneAuthority` needs that tokens of a message grow with its
  attempts and that no pump holds a token above the row's. For the journal the invariant
  says in addition what every stage of a pump has already written, and that the stage it
  is about to write is the next one of its attempt or is refused by the UNIQUE constraint.
* **Durable commands.** `QueuesServe` ties a call in flight to the promise chain of its
  node: past "queued" it is the head. `WriterHoldsTheRow` says what a call that holds the
  row lock has read, `StatesFollowEvents` that every cached state is that of an event.
  `DrawInv` follows a random value through its life (given, pending in the provider's
  checkpoint, written, unheard): a value is written once, is the last one given on its
  node while it is pending, and is not pending and written at the same time unless its
  commit was never heard of.
* **Realtime.** `FeedInv` says of every frame on the wire, every operation in the queue and
  every cursor issued what it will have told the client when it is received: `PointsAt(i)`
  are the positions the client will hold after frame i, and `Covered` puts all of them at
  or before what the subscription continues from. The splitting of events into batches is
  the one place where a lemma about finite sets is needed (`Ranks`). `AckInv` says that
  acknowledgements in the queue move forward; it needs `~AnyAckOrder`.
* **Sessions.** `UnopenedIsNew` and `OpenedHasNode`: nothing is known of a connection before
  it opens, and it has a node ever after. A step either adds no settled connection
  (`NoneAdded`) or is the one `CreateSession`, which counts before it adds.
* **Adjudication.** Every action is first reduced to what it does to the schedule
  (`StepOfSchedule`: nothing, a slot is decided, revealed and suspended, reopened, or the
  cursor passes players). `ScheduleInv` is proved of those steps once; `DataInv`, the types
  of money, mat, board and cards, is proved of the actions. `OnTable` and `DieBelongs` say
  that what is asked about is a slot of a plan and that a regime's die is rolled once.
  `BoostInv` keeps a planned boost unspent exactly until its activation is rolled, and
  `MoneyInv` is the sum of the ledger per player together with the number of activation
  entries against the slots that have rolled.
* **Card play.** `PlanInv` says that the cursor `plan` is behind the last operation in `ran`.
  `TypeInv` adds to the types what an open choice, window or vote is about: cards of the
  deal and players of the game.

  `OnlyRetrieval` and `CurrentAnswers` are proved card by card, because one misplaced card
  must not take away what is known of the others. `InPlace(c)` says that the record of a
  card and the hands, decks and campaigns of all players agree. `Calm` adds the little that
  holds of every card whatever has happened: while plans are made nothing has been taken
  from anybody (`Planned`), and a choice about a player's own cards is the player's
  (`Asked`). Every action then leaves a card in place for one of a few reasons: it moves
  only cards of hands and rewrites the hands by the records (`HandsInPlace`), takes a whole
  campaign as well (`CampaignInPlace`), or hands out cards of the player's own deck
  (`HandedOut`); writing back the M2 state changes no agreement (`WrittenInPlace`). What is
  left is `AnswerRetrieve` on a card the deck still lists, which is `Retrieved`. `Right`
  says which records an answer may change, and `MovedRecord` that a card whose place in a
  hand has changed has another record.
* **A turn.** `Inv` joins the types of what the commands share (`SetupTypes`, `StageTypes`,
  `TurnTypes`), what each stage has finished (`Stages`: seats are canonical after the setup,
  the order of the initiative names everybody once it is rolled), the cards (`CardInv`), what
  an answerable question is about (`Asked`), and the two properties `QuestionStands` and
  `MoneyConserved`. For the question: only `Advance` asks one, about the first tied
  demographic or origin of the board as it is, which exists because ranks are distinct
  (`FirstIsThere`), and every other accepted command makes the one that is open stale. For
  money: a deal moves what one has to another and a lock adds one income, so that the sum
  changes by the amount of one summand or of two that cancel. For cards: `Piles` says what
  each pile holds in each stage, whose it is, and how long a hand may get (a cleanup adds
  nothing to a hand but the owner's own False Identities, `RetiredCards`); the loops that
  fill a hand are summed up by lemmas about what any number of draws leaves (`Dealt`,
  `Filled`, `Drawn`), and the passage through the M2 state by one about the piles it rewrites
  (`PassedThrough`).

Sums (`Total`, `SumFunction`) and drawn hands are folds, and the proof system has no
induction over data. `DataProofs` derives what is needed from the least-number principle
(`LeastNumber`, from the well-foundedness of `<`): a sum over a finite set exists, is
unique, and changes by the amount by which one summand changes (`SumChange`).

### 4.2 The assumptions

They are the named ASSUMEs of the modules, which TLC evaluates in every run: bounds are
natural numbers; `MaxMessages`, `MaxEvents`, `BatchSize`, `MaxPending` and `MaxPerSession`
are at least one; `Sockets` is finite, for a limit is a count; the override's key is no
client's key. In the resolution stage `Order` lists every player once, no two players have
one regime, the two regimes that look for a demographic of their country find one
(they do in `initial-scenario`), `KitOf` describes kits, every plan passed `ValidPlan`, the
guard of the command that saves it, and openings are typed. In a turn no two players
share a country or a place at the table, the starters and the opening draw fit into a hand,
and the tables give boards of the demographics there are. For cards, tables have finite
deals and typed operations, the veto and the policy shift are starter cards, as they are
printed, and a table that begins while plans are made has no starter in a deck
(`lockStrategy` takes none, `setup-dispatcher.ts:2708`).

Some theorems hold under a stated condition:

* `NotRejected` assumes `~AnyAckOrder` (section 6 tells what happens to a client that
  acknowledges backwards) and, as the property itself says, no override and no failing read.
* `TypeCorrect` of `GameTurnProofs` assumes `ObjectivesAreNumbers`: the parameter `Objective`
  gives an integer for every country and board, as `evaluateObjectives` does.
* `InPlaceWithoutRetrieval` assumes `NoRetrieval`: no card of the table is the discard effect.
  It is a corollary that tells when the exception of `OnlyRetrieval` is empty; `OnlyRetrieval`
  and `CurrentAnswers` have no condition.

### 4.3 Only model-checked

* Liveness (`EveryMessageIsAcknowledged`, `EveryCallEnds`, `SubscriberCatchesUp`,
  `LogoutEnds`, `ShutdownEnds`, `ScheduleEnds`, `TurnEnds`, `ReactionsEnd`): fairness and
  ENABLED are outside the proof system's reach.
* What a recursive definition computes for every input; no module that is proved about
  has one.

## 5. State of the work

Every module is written, every safety invariant and every action property of the runs is
stated by a theorem, and so are the three refinements. What could be added:

1. That every card is in place on every table, once `applyM2StateToCanonical` keeps the zone
   of cards in decks: `Flattened` is then the identity, `OnlyRetrievalMisplaces` loses its
   exception and `AnswersAreCurrent` its `InPlace`.
2. A second turn, once the first leaves the initiative in a state that can be rolled for
   (`second_turn`, section 6).
3. The effects of cards listed in section 7, one disjunct of `PlayEffect` each.

## 6. Disagreements between documents and code

Two are runs whose property states the document and which TLC refutes; the quoted
lines are in `PROJECT.json`. Documents named below lie in `docs/`: `ACC` is
`normative/MALIGN_AI_GAME_ENGINE_TEST_ACCEPTANCE_SPEC_v0.1.md`, `ADD` is
`normative/MALIGN_AI_GAME_ENGINE_TEST_ACCEPTANCE_M2_ADDENDUM_v0.1.md`, `DB` is
`implementation/MALIGN_AI_M2_PHYSICAL_DATABASE_SPEC_v0.1.md`; `SD` is
`packages/game-engine/src/setup-dispatcher.ts`.

* `stuck_feed`: after a facilitator override the head cursor of the game has a version
  that no event carries, and `validateM1RealtimeCursor` refuses it. A subscriber that
  was issued it is never delivered anything more, silently; a new subscription is
  closed. `recordFacilitatorOverride` is exported by the persistence package and
  called by its tests only, so the server does not reach this state by itself yet.
* `second_turn`: the cleanup returns to the initiative stage with `initiative.status`
  COMPLETE and every maintenance locked; only `createGame` writes PENDING_ROLL, so the roll
  of the second turn is refused.

Met while modelling and not kept as runs, first the server:

* Of two calls with one key on two nodes, the second answers with its own execution's
  result and keeps its random draw, where `DB`:270 promises the stored result: the stored
  record says `replayed:false`, so that the branch at `game-session-application.ts:963` is
  never taken for a replay. `DrawsAreAccounted` counts these values.
* A retry overtaken by its first attempt between the fast lookup and the replay is
  answered STALE although its key is committed (`game-session-application.ts:922`).
* A commit between the two reads of the unlocked replay makes the loser fail as if the
  history were damaged, not with the version conflict (`recovery.ts:791`).
* A client that acknowledges the last batch of a feed and then an earlier one is
  disconnected, where the document accepts any issued checkpoint
  (`realtime-server.ts:476`).

* `stop()` of the listener looks at the client it has. While it is reconnecting the client
  is still on its way from the pool: it arrives, is kept and listens on, and
  `listenerPool.end()` waits for it for ever (`realtime-postgres.ts:117`), so that the
  process does not exit, where the runbook
  (`implementation/MALIGN_AI_M2_2_RUNBOOK_v0.1.md:76`) ends with the pools closed.
  `ShutdownEnds` excepts it (`ClientKept`).
* The same line says that draining and the refusal of upgrades come first. `#draining` is
  set by `realtime.shutdown`, after the claim in flight and UNLISTEN; and when either
  fails, the process exits at once without DRAINING or 1012 (`ShutdownFails`).
* A connection that closes leaves its session in the registry (`realtime-server.ts:674`);
  only one that is created after its connection has gone keeps the timer that ends it.
* A token that was verified before a logout opens its session after it, also when the
  NOTIFY has already arrived; it ends when the token expires. The documents accept this
  (`...M2_2_RUNBOOK_v0.1.md:58`).

The resolution stage:

* Every activation asks for a narrative and a campaign keeps the one it has, so that the
  second activation of a turn, which only Double Action reaches, is refused by every run of
  the scheduler (`m1-adjudication.ts:1829`; `ACC`:306). The test of the repository starts
  from a campaign whose narrative is a fixture, which may be replaced.
* The choice opened for FLUMA's regime does not count core modifiers, its answer must
  (`m1-adjudication.ts:779`; `ACC`:404): the scheduler stays suspended.
* A slot whose check fails has no outcome and blocks the schedule: an activation of a
  campaign that was vetoed without a boost, discarded or already activated, a
  construction whose row or name is taken. DEC-036 and DEC-040 ask for an outcome.
* An activation that cannot be paid leaves its planned boost in hand, where DEC-040
  discards every revealed action card.
* A pending resolution whose campaign was vetoed or discarded can be neither answered
  nor closed.
* After a regime slot whose later players have empty plans the cursor stays READY and
  no run of the scheduler completes it.

The turn:

* A cleanup that is run again, which is the only way out of a stale viral question, ages the
  campaigns again; `ADD`:68 asks for exactly one ageing. Any accepted command, a pause
  included, makes an open question stale.
* `EndGame` may be repeated and adds the objectives each time (`ADD`:69).
* A card that is planned may still be dealt away (`ACC`:265).
* The passage through the M2 state writes cards of decks and pools back as discarded ones
  (`m2-integrated-state.ts:65`) while the order of the deck stays, so that a card is in two
  zones (`ACC`:164, `ACC`:651). `CardsAccounted` speaks of the deck up to the first
  cleanup only; a policy shift after that is refused, because the pile overlaps the deck.
  The discard effect (E013) offers and retrieves by zone alone (`SD`:947, `SD`:1923): it takes
  such a card into the hand while `operationsDeckOrder` goes on listing it. When that card
  is then stolen, a later exchange with the deck (E035) or the draw of three takes it out of
  the old deck again, and two players hold one instance. `RetrievalTable` of `card_play`
  reaches all of it. The retrieval is the one exception of `OnlyRetrievalMisplaces`, and
  `AnswersAreCurrent` is said of cards in place only; `OnlyRetrieval` proves that nothing
  else misplaces a card.
* A campaign that a cleanup discards gives False Identities back to the hand of their
  owner (`packages/game-engine/src/m2b.ts:63`), and the cleanup (`SD`:548) asks nobody to
  discard when that hand was full: it then has a card more than the limit (`ACC`:163
  "HAND estable nunca supera 10", `ACC`:652; DEC-043 in
  `decisions/MALIGN_AI_DECISIONS_v0.3.md:515` asks for a discard down to 10). `HomeTable` of
  `game_turn` reaches it, and `CardsAccounted` allows a hand this one card after a cleanup.
  It takes a table of component rules that admits BASE_CARD_061, which the shipped one does
  not yet do, and a second cleanup in a turn.

Cards, choices and reactions:

* A choice of the planning stage that is open when the last plan is locked is refused in the
  next stage, and `m1-adjudication.ts:770` refuses the scheduler while it is open; a choice
  of the resolution stage that a cleanup overtakes has the same fate.
* A choice whose offered cards are gone can be neither answered nor cancelled, and
  the draw of three (E045, `DrawThree`) replaces a choice that is open, without the check of the others.
* A veto whose card or campaign is gone before the last vote is refused that vote for ever
  (`SD`:1726); `ReactionsEnd` excepts it.
* The window opened by a hack back never resumes the one it replaced, and the window after a
  failed veto replaces whatever window is open.
* A card that is stolen and then goes through its thief's deck is no longer found by the
  rule that returns it to its owner.
* Prices of E006 and E035 and the gain of a starter have no ledger entry.
* Honey pot accepts any card that is no starter as an action card.

## 7. What is not modelled

* Projections, contracts, canonical JSON and the web BFF: pure functions or stateless I/O.
* The checks of a token, TLS and proxies (`Sessions` has their outcome only), authorization
  and database roles: the models start from an authorized call of the player it names.
* The normalized tables (`normalized-state.ts`) and the registry seed: one flag in
  `DurableCommand` says that reconciliation found a difference.
* The dispatch inside one process (`atomic-dispatch.ts`): it is synchronous, on a copy that
  is committed or dropped, so that one command is one action in every model of the engine.
* The migration runner: an operator runs it alone, before the servers start.
* In the resolution stage the regimes of PRESQUE and URSARIA and the replay of the stage
  from its events (`replayM1Events`, `m1-adjudication.ts:332`).
* Of the effects of cards: the temporary reveal (E028), the target demographics and stacked
  effects (E034, E055 to E059), the pair bonus and the cubes of direct influence, which are
  arithmetic on one state and are tested as such by the repository.
* The whole of two turns: `second_turn` shows why there is no second one to model.
