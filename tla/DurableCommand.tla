---------------------------- MODULE DurableCommand ----------------------------
(***************************************************************************)
(* How a command on one game becomes durable.  On every server node,       *)
(* coordinateDurableOperation (apps/server/src/game-session-application)   *)
(* takes a call through                                                    *)
(*   queued   the per-game promise chain of the node (withGameWriter)      *)
(*   recover  the fast idempotency lookup found nothing                    *)
(*   readRow  reconcileDurableGame passed; its row lock is released        *)
(*   readTail replayWithClient read the game row, not yet the event tail   *)
(*   persist  the engine accepted the command on that recovered state      *)
(*   writing  persistAcceptedTransition holds the row lock of the game     *)
(*   committed PostgreSQL committed, the node does not know yet            *)
(*   done     answered                                                     *)
(* Everything between two awaits is one action, so nodes interleave where  *)
(* the code yields.  The database is read committed: a transaction's       *)
(* writes appear at its COMMIT, and the row lock of the game is held by    *)
(* the call that is "writing".                                             *)
(*                                                                         *)
(* The game starts just after CREATE_GAME, the only command that captures  *)
(* a snapshot: version 1, events and outbox heads 1, an empty event tail.  *)
(* What a command does to the state is its effect [key, print, draw]; the  *)
(* state is the sequence of effects applied since the snapshot.            *)
(***************************************************************************)
EXTENDS Integers, Sequences, FiniteSets

CONSTANTS Nodes,        \* server nodes
          Calls,        \* client calls (a retry is another call)
          Keys,         \* idempotency keys of one actor
          Prints,       \* command fingerprints
          Override,     \* the key of a facilitator override
          Faces,        \* [Prints -> set of faces the command's die may show]
          MaxFaults,    \* bound on crashes, failed writes and corruption
          MaxOverrides  \* bound on facilitator overrides

ASSUME OverrideAssumption == Override \notin Keys /\ Override \notin Prints
ASSUME FacesAssumption == Faces \in [Prints -> SUBSET Nat]
ASSUME BoundsAssumption == MaxFaults \in Nat /\ MaxOverrides \in Nat

VARIABLES
  game,      \* the row of malign.games
  events,    \* malign.game_events after the snapshot: effect and state after
  outbox,    \* malign.outbox_messages: the event each one announces
  ledger,    \* malign.idempotency_records, all COMMITTED
  mismatch,  \* some family that only reconcileDurableGame compares diverged
  writers,   \* [Nodes -> calls in the promise chain of the game, in order]
  rng,       \* [Nodes -> BufferedTransactionalRandomProvider]
  call,      \* [Calls -> the call's progress]
  drawn,     \* random values generated so far (their identities)
  unheard,   \* history: draws committed by a write whose node saw an error
  faults

database == <<game, events, outbox, ledger, mismatch>>
vars == <<game, events, outbox, ledger, mismatch, writers, rng, call, drawn,
          unheard, faults>>

-------------------------------------------------------------------------------
(* Values.                                                                 *)

NoDraw == [id |-> 0, face |-> 0]

Draws == [id : Nat, face : Nat]

Effect(k, p, d) == [key |-> k, print |-> p, draw |-> d]

Effects == [key : Keys, print : Prints, draw : Draws]
           \cup {Effect(Override, Override, NoDraw)}

States == Seq(Effects)

VersionOf(s) == Len(s) + 1

Refusals == {"STALE", "REJECTED", "KEY_REUSED", "ERROR", "LOST"}

Results == [version : Nat, draw : Draws]

Replies == [status : {"RESOLVED"}, result : Results] \cup [status : Refusals]

Stages == {"queued", "recover", "readRow", "readTail", "persist", "writing",
           "committed"}

IdleCall == [pc |-> "idle"]

CallStates ==
  {IdleCall}
  \cup [pc : Stages, node : Nodes, key : Keys, print : Prints, expected : Nat,
        row : Nat, before : States, draw : Draws, checkpoint : Nat]
  \cup [pc : {"done"}, key : Keys, print : Prints, reply : Replies]

TypeOK ==
  /\ game \in [version : Nat, eventHead : Nat, outboxHead : Nat,
               state : States, blocked : BOOLEAN]
  /\ events \in Seq([effect : Effects, after : States])
  /\ outbox \in Seq(Nat)
  /\ ledger \subseteq [key : Keys, print : Prints, result : Results]
  /\ mismatch \in BOOLEAN
  /\ writers \in [Nodes -> Seq(Calls)]
  /\ rng \in [Nodes -> [values : Seq(Draws), cursor : Nat]]
  /\ call \in [Calls -> CallStates]
  /\ drawn \in Nat
  /\ unheard \subseteq Nat
  /\ faults \in 0 .. MaxFaults

Init ==
  /\ game = [version |-> 1, eventHead |-> 1, outboxHead |-> 1, state |-> <<>>,
             blocked |-> FALSE]
  /\ events = <<>>
  /\ outbox = <<>>
  /\ ledger = {}
  /\ mismatch = FALSE
  /\ writers = [n \in Nodes |-> <<>>]
  /\ rng = [n \in Nodes |-> [values |-> <<>>, cursor |-> 0]]
  /\ call = [c \in Calls |-> IdleCall]
  /\ drawn = 0
  /\ unheard = {}
  /\ faults = 0

-------------------------------------------------------------------------------
(* Vocabulary of the operations.                                           *)

At(c, pc) == call[c].pc = pc

InFlight(c) == call[c].pc \notin {"idle", "done"}

NodeOf(c) == call[c].node

\* withGameWriter: the call's turn has come on its node.
IsWriter(c) == InFlight(c) /\ Head(writers[NodeOf(c)]) = c

\* SELECT ... FOR UPDATE returns at once.
LockFree == \A c \in Calls : ~At(c, "writing")

\* Mutated form: the lookup takes the fingerprint for a part of the key.
KeyRowsOfPrint(c) ==
  {r \in ledger : r.key = call[c].key /\ r.print = call[c].print}

\* Rows of idempotency_records for the call's key, and those whose
\* command_fingerprint is the call's.
KeyRows(c) == {r \in ledger : r.key = call[c].key}
Matches(c) == {r \in KeyRows(c) : r.print = call[c].print}

Goto(c, pc) == call' = [call EXCEPT ![c].pc = pc]

\* The call returns (or throws) to its client and releases the promise chain.
Answer(c, reply) ==
  /\ call' = [call EXCEPT ![c] = [pc |-> "done", key |-> call[c].key,
                                  print |-> call[c].print, reply |-> reply]]
  /\ writers' = [writers EXCEPT ![NodeOf(c)] = Tail(@)]

Resolve(c, result) == Answer(c, [status |-> "RESOLVED", result |-> result])

\* Mutated form: the error path does not wake the next writer.
RefuseHoldingTheChain(c, status) ==
  /\ call' = [call EXCEPT ![c] = [pc |-> "done", key |-> call[c].key,
                                  print |-> call[c].print, reply |-> [status |-> status]]]
  /\ UNCHANGED writers

Refuse(c, status) == Answer(c, [status |-> status])

\* The result the engine computed for this call on its own snapshot.
OwnResult(c) ==
  [version |-> VersionOf(call[c].before) + 1, draw |-> call[c].draw]

OwnEffect(c) == Effect(call[c].key, call[c].print, call[c].draw)

\* coordinateDurableOperation's restore().
RestoreRandom(c) ==
  rng' = [rng EXCEPT ![NodeOf(c)].cursor = call[c].checkpoint]

\* BufferedTransactionalRandomProvider.integer: a value left over from a
\* transaction that was rolled back is used again, else a new one is made.
LeftOver(r) == r.cursor < Len(r.values)
Next1(r) == r.values[r.cursor + 1]
ReplayMismatch(r, range) ==
  range # {} /\ LeftOver(r) /\ Next1(r).face \notin range

Drawings(r, range) ==
  IF range = {} THEN {[draw |-> NoDraw, provider |-> r, made |-> 0]}
  ELSE IF LeftOver(r)
  THEN {[draw |-> Next1(r), provider |-> [r EXCEPT !.cursor = @ + 1], made |-> 0]}
  ELSE {[draw |-> [id |-> drawn + 1, face |-> f],
         provider |-> [values |-> Append(r.values, [id |-> drawn + 1, face |-> f]),
                       cursor |-> r.cursor + 1],
         made |-> 1] : f \in range}

\* What one accepted transition writes: the state the engine computed from
\* `before`, its version, the next event and the next outbox message.
Apply(before, effect) ==
  LET after == Append(before, effect) IN
  /\ game' = [game EXCEPT !.version = VersionOf(after), !.state = after,
                          !.eventHead = @ + 1, !.outboxHead = @ + 1]
  /\ events' = Append(events, [effect |-> effect, after |-> after])
  /\ outbox' = Append(outbox, game.eventHead + 1)

Fault == faults < MaxFaults /\ faults' = faults + 1

-------------------------------------------------------------------------------
(* The client and the fast path.                                           *)

\* A client sends a command for a game version it has seen.
Submit(c, n, k, p, v) ==
  /\ At(c, "idle")
  /\ call' = [call EXCEPT ![c] =
       [pc |-> "queued", node |-> n, key |-> k, print |-> p, expected |-> v,
        row |-> 0, before |-> <<>>, draw |-> NoDraw, checkpoint |-> 0]]
  /\ writers' = [writers EXCEPT ![n] = Append(@, c)]
  /\ UNCHANGED <<database, rng, drawn, unheard, faults>>

\* loadCommittedEngineResult, read without the row lock.
FastLookup(c) ==
  /\ IsWriter(c) /\ At(c, "queued")
  /\ \/ KeyRows(c) = {} /\ Goto(c, "recover") /\ UNCHANGED writers
     \/ \E r \in Matches(c) : Resolve(c, r.result)
     \/ KeyRows(c) # Matches(c) /\ Refuse(c, "KEY_REUSED")
  /\ UNCHANGED <<database, rng, drawn, unheard, faults>>

-------------------------------------------------------------------------------
(* recoverDurableGame: a locked reconciliation, then an unlocked replay.   *)

Reconcile(c) ==
  /\ IsWriter(c) /\ At(c, "recover") /\ LockFree
  /\ IF mismatch
     THEN Refuse(c, "ERROR") /\ game' = [game EXCEPT !.blocked = TRUE]
     ELSE Goto(c, "readRow") /\ UNCHANGED <<game, writers>>
  /\ UNCHANGED <<events, outbox, ledger, mismatch, rng, drawn, unheard, faults>>

\* The first SELECT of replayWithClient sees one version of the game row ...
ReadGameRow(c) ==
  /\ IsWriter(c) /\ At(c, "readRow")
  /\ call' = [call EXCEPT ![c].pc = "readTail", ![c].row = game.version]
  /\ UNCHANGED <<database, writers, rng, drawn, unheard, faults>>

\* ... and the event tail, read later, may reach further.
TailReachesRow(c) == VersionOf(events) = call[c].row

\* REPLAY_EVENT_SEQUENCE_INVALID, although nothing is wrong with the game.
ReplayTorn(c) ==
  /\ IsWriter(c) /\ At(c, "readTail") /\ ~TailReachesRow(c)
  /\ Refuse(c, "ERROR")
  /\ UNCHANGED <<database, rng, drawn, unheard, faults>>

Replayed == IF events = <<>> THEN <<>> ELSE events[Len(events)].after

\* The engine refuses: the client's version is old, or a rule forbids it.
EngineRejects(c) ==
  /\ IsWriter(c) /\ At(c, "readTail") /\ TailReachesRow(c)
  /\ Refuse(c, IF call[c].expected # VersionOf(Replayed) THEN "STALE" ELSE "REJECTED")
  /\ UNCHANGED <<database, rng, drawn, unheard, faults>>

\* The engine accepts the command on the recovered state and draws for it.
EngineAccepts(c) ==
  LET n == NodeOf(c) IN
  /\ IsWriter(c) /\ At(c, "readTail") /\ TailReachesRow(c)
  /\ call[c].expected = VersionOf(Replayed)
  /\ ~ReplayMismatch(rng[n], Faces[call[c].print])
  /\ \E d \in Drawings(rng[n], Faces[call[c].print]) :
       /\ rng' = [rng EXCEPT ![n] = d.provider]
       /\ drawn' = drawn + d.made
       /\ call' = [call EXCEPT ![c] = [@ EXCEPT !.pc = "persist", !.before = Replayed,
                                                !.draw = d.draw,
                                                !.checkpoint = rng[n].cursor]]
  /\ UNCHANGED <<database, writers, unheard, faults>>

\* 'Random replay range mismatch': a left-over value does not fit this command.
DrawThrows(c) ==
  /\ IsWriter(c) /\ At(c, "readTail") /\ TailReachesRow(c)
  /\ call[c].expected = VersionOf(Replayed)
  /\ ReplayMismatch(rng[NodeOf(c)], Faces[call[c].print])
  /\ Refuse(c, "ERROR")
  /\ UNCHANGED <<database, rng, drawn, unheard, faults>>

-------------------------------------------------------------------------------
(* persistAcceptedTransition: everything from here to COMMIT is one        *)
(* transaction that starts with the row lock.                              *)

\* Mutated form: the before-state is trusted.
AnyAuthority(c) == Len(call[c].before) >= 0

\* Locked version and gameplay hash against the engine's before-state.
SameAuthority(c) ==
  /\ game.version = VersionOf(call[c].before)
  /\ game.state = call[c].before

HasLock(c) == IsWriter(c) /\ At(c, "persist") /\ LockFree

\* GAME_RECOVERY_BLOCKED, or another fingerprint committed under the key.
PersistRefuses(c) ==
  /\ HasLock(c)
  /\ game.blocked \/ KeyRows(c) # Matches(c)
  /\ Refuse(c, "ERROR") /\ RestoreRandom(c)
  /\ UNCHANGED <<database, drawn, unheard, faults>>

\* readCommittedResult finds the key committed by another node.  The stored
\* record says replayed:false, so the coordinator takes it for its own commit:
\* it keeps the draw and returns the result of its own execution.
PersistFindsCommitted(c) ==
  /\ HasLock(c) /\ ~game.blocked
  /\ KeyRows(c) = Matches(c) /\ Matches(c) # {}
  /\ Resolve(c, OwnResult(c))
  /\ UNCHANGED <<database, rng, drawn, unheard, faults>>

\* Mutated form: the refused call keeps its draw.
PersistStaleKeepsDraw(c) ==
  /\ HasLock(c) /\ ~game.blocked /\ KeyRows(c) = {} /\ ~SameAuthority(c)
  /\ Refuse(c, "STALE")
  /\ UNCHANGED <<database, rng, drawn, unheard, faults>>

\* GAME_VERSION_CONFLICT
PersistStale(c) ==
  /\ HasLock(c) /\ ~game.blocked /\ KeyRows(c) = {} /\ ~SameAuthority(c)
  /\ Refuse(c, "STALE") /\ RestoreRandom(c)
  /\ UNCHANGED <<database, drawn, unheard, faults>>

\* Mutated form: recovery_blocked is not looked at under the lock.
BeginWriteUnblocked(c) ==
  /\ HasLock(c) /\ KeyRows(c) = {} /\ SameAuthority(c)
  /\ Goto(c, "writing")
  /\ UNCHANGED <<database, writers, rng, drawn, unheard, faults>>

BeginWrite(c) ==
  /\ HasLock(c) /\ ~game.blocked /\ KeyRows(c) = {} /\ SameAuthority(c)
  /\ Goto(c, "writing")
  /\ UNCHANGED <<database, writers, rng, drawn, unheard, faults>>

\* COMMIT: the transition, its idempotency record and the lock's release.
\* The CAS on game_version cannot fail here: the row has been locked since
\* the version was compared.
Commit(c) ==
  /\ At(c, "writing")
  /\ Apply(call[c].before, OwnEffect(c))
  /\ ledger' = ledger \cup {[key |-> call[c].key, print |-> call[c].print,
                             result |-> OwnResult(c)]}
  /\ Goto(c, "committed")
  /\ UNCHANGED <<mismatch, writers, rng, drawn, unheard, faults>>

\* Mutated form: the key is reserved outside the transaction.
WriteFailsKeepingTheKey(c) ==
  /\ At(c, "writing") /\ Fault
  /\ ledger' = ledger \cup {[key |-> call[c].key, print |-> call[c].print,
                             result |-> OwnResult(c)]}
  /\ Refuse(c, "ERROR") /\ RestoreRandom(c)
  /\ UNCHANGED <<game, events, outbox, mismatch, drawn, unheard>>

\* A statement fails: ROLLBACK, and the coordinator restores the cursor.
WriteFails(c) ==
  /\ At(c, "writing") /\ Fault
  /\ Refuse(c, "ERROR") /\ RestoreRandom(c)
  /\ UNCHANGED <<database, drawn, unheard>>

\* COMMIT is acknowledged: the draw is kept, the client gets the result.
Finalize(c) ==
  /\ At(c, "committed")
  /\ Resolve(c, OwnResult(c))
  /\ UNCHANGED <<database, rng, drawn, unheard, faults>>

\* The connection breaks before the acknowledgement: the node takes the
\* committed write for a failed one and restores the cursor.
CommitUnheard(c) ==
  /\ At(c, "committed") /\ Fault
  /\ Refuse(c, "ERROR") /\ RestoreRandom(c)
  /\ unheard' = unheard \cup {call[c].draw.id}
  /\ UNCHANGED <<database, drawn>>

-------------------------------------------------------------------------------
(* The rest of the system.                                                 *)

\* recordFacilitatorOverride: its own transaction under the same row lock.
FacilitatorOverride ==
  /\ LockFree
  /\ Cardinality({i \in DOMAIN events : events[i].effect.key = Override}) < MaxOverrides
  /\ Apply(game.state, Effect(Override, Override, NoDraw))
  /\ UNCHANGED <<ledger, mismatch, writers, rng, call, drawn, unheard, faults>>

\* A node dies: its calls are lost, PostgreSQL rolls its transaction back,
\* and the next process starts with an empty random provider.
Crash(n) ==
  /\ Fault
  /\ call' = [c \in Calls |->
       IF InFlight(c) /\ NodeOf(c) = n
       THEN [pc |-> "done", key |-> call[c].key, print |-> call[c].print,
             reply |-> [status |-> "LOST"]]
       ELSE call[c]]
  /\ writers' = [writers EXCEPT ![n] = <<>>]
  /\ rng' = [rng EXCEPT ![n] = [values |-> <<>>, cursor |-> 0]]
  /\ UNCHANGED <<database, drawn, unheard>>

\* A normalized row stops agreeing with the authoritative state.
Corrupt ==
  /\ ~mismatch /\ Fault
  /\ mismatch' = TRUE
  /\ UNCHANGED <<game, events, outbox, ledger, writers, rng, call, drawn, unheard>>

Step(c) ==
  \/ FastLookup(c) \/ Reconcile(c) \/ ReadGameRow(c) \/ ReplayTorn(c)
  \/ EngineRejects(c) \/ EngineAccepts(c) \/ DrawThrows(c)
  \/ PersistRefuses(c) \/ PersistFindsCommitted(c) \/ PersistStale(c)
  \/ BeginWrite(c) \/ Commit(c) \/ Finalize(c)

Next ==
  \/ \E c \in Calls, n \in Nodes, k \in Keys, p \in Prints, v \in 1 .. game.version :
       Submit(c, n, k, p, v)
  \/ \E c \in Calls : Step(c) \/ WriteFails(c) \/ CommitUnheard(c)
  \/ FacilitatorOverride
  \/ \E n \in Nodes : Crash(n)
  \/ Corrupt

Spec == Init /\ [][Next]_vars

\* The event loop and PostgreSQL keep every call moving; clients, facilitators
\* and faults owe nothing.
Fairness == \A c \in Calls : WF_vars(Step(c))

FairSpec == Spec /\ Fairness

-------------------------------------------------------------------------------
(* Safety.                                                                 *)

Answered(c) == At(c, "done")

Resolved(c) == Answered(c) /\ call[c].reply.status = "RESOLVED"

\* No interleaving of nodes, retries, overrides and crashes loses an update:
\* every durable event was computed from the state its predecessor left, and
\* the cached state is what the tail replays to (persistAcceptedTransition's
\* version and hash checks, recovery's final hash comparison).
ChainUnbroken ==
  /\ \A i \in DOMAIN events :
       events[i].after =
         Append(IF i = 1 THEN <<>> ELSE events[i - 1].after, events[i].effect)
  /\ game.state = Replayed

\* The families one transition writes stand or fall together: version, heads,
\* event tail, outbox and idempotency records all tell the same history, and a
\* record names the version, the draw and the payload of the one event of its
\* key.
DurableFamiliesAgree ==
  /\ game.version = VersionOf(events)
  /\ game.eventHead = game.version /\ game.outboxHead = game.version
  /\ outbox = [i \in DOMAIN events |-> i + 1]
  /\ \A i \in DOMAIN events :
       events[i].effect.key # Override =>
         [key |-> events[i].effect.key, print |-> events[i].effect.print,
          result |-> [version |-> i + 1, draw |-> events[i].effect.draw]] \in ledger
  /\ \A r \in ledger :
       \E i \in DOMAIN events :
         /\ events[i].effect = Effect(r.key, r.print, r.result.draw)
         /\ r.result.version = i + 1
  /\ \A r, q \in ledger : r.key = q.key => r = q

\* The random cursor follows the game: a value behind it belongs to a durable
\* event, to the node's call in flight, or to an answer given for a key that
\* another node had committed; a refused or failed call gives its value back.
\* And a value decides one event at most, unless the node never heard that the
\* first one was committed (restore after a failed acknowledgement of COMMIT).
DrawsAreAccounted ==
  /\ \A n \in Nodes : \A i \in 1 .. rng[n].cursor :
       LET d == rng[n].values[i] IN
         \/ \E e \in DOMAIN events : events[e].effect.draw = d
         \/ \E c \in Calls :
              \/ Resolved(c) /\ call[c].reply.result.draw = d
              \/ /\ InFlight(c) /\ NodeOf(c) = n
                 /\ call[c].draw = d /\ call[c].checkpoint = i - 1
  /\ \A i, j \in DOMAIN events :
       /\ i # j
       /\ events[i].effect.draw = events[j].effect.draw
       /\ events[i].effect.draw # NoDraw
       => events[i].effect.draw.id \in unheard

\* Once reconciliation has blocked the game no client command advances it, not
\* even one that recovered its state before the block.
CommandsRespectTheBlock ==
  [][game.blocked /\ events' # events => events'[Len(events')].effect.key = Override]_vars

\* The log of commands the system promises: DurableCommand implements it.
Log == INSTANCE CommandLog WITH
  log <- [i \in DOMAIN events |->
            [key |-> events[i].effect.key, print |-> events[i].effect.print]],
  told <- {<<call[c].key, call[c].print>> : c \in {x \in Calls : Resolved(x)}}

ImplementsCommandLog == Log!Spec

-------------------------------------------------------------------------------
(* Liveness: the promise chain of a game never jams.  Whatever is refused, *)
(* thrown, rolled back or lost with a node, every call that was queued     *)
(* comes to an end.                                                        *)

EveryCallEnds == \A c \in Calls : At(c, "queued") ~> Answered(c)
===============================================================================
