------------------------------ MODULE Realtime ------------------------------
(***************************************************************************)
(* One node of the server delivering one game to one viewer: the durable   *)
(* log, the LISTEN connection that wakes the node, the WebSocket of the    *)
(* viewer, its subscription with the queue of operations that serialises   *)
(* the deliveries, and the client that acknowledges, asks for a resync,    *)
(* unsubscribes, and comes back from any position it was given.            *)
(*                                                                         *)
(* A cursor is a position [seq, ver]: the last event a projection includes *)
(* and the game version of that projection.                                *)
(***************************************************************************)
EXTENDS Integers, Sequences, FiniteSets

CONSTANTS
  CommitShapes,    \* the visibilities of the events one commit may append
  BatchSize,       \* config.feedBatchSize
  MaxPending,      \* config.maximumPendingMessages
  AnyAckOrder,     \* does the client acknowledge in any order?
  MaxEvents,       \* bound: events of the log
  MaxOverrides,    \* bound: facilitator overrides
  MaxNotices,      \* bound: outbox messages handed over
  MaxResends,      \* bound: notifications sent a second time
  MaxOutages,      \* bound: losses of the LISTEN connection
  MaxConnections,  \* bound: connections the client opens
  MaxRequests,     \* bound: ACK, RESYNC and UNSUBSCRIBE frames of the client
  MaxReadFaults    \* bound: reads of the database that fail

ASSUME SizesAssumption ==
  /\ BatchSize \in Nat \ {0}
  /\ MaxPending \in Nat \ {0}
  /\ AnyAckOrder \in BOOLEAN
  /\ CommitShapes \subseteq Seq(BOOLEAN) \ {<<>>}
  /\ MaxEvents \in Nat \ {0}
  /\ {MaxOverrides, MaxNotices, MaxResends, MaxOutages, MaxConnections, MaxRequests,
      MaxReadFaults} \subseteq Nat

VARIABLES
  log,        \* the events of the game: [ver, vis]
  version,    \* games.game_version
  sent,       \* the notifications the outbox pump has sent so far
  listener,   \* [up, last]: LISTEN connection, #lastOutboxByGame
  notes,      \* notifications on their way to the listener
  socket,     \* readyState, with the reason of a close
  session,    \* is the session of the connection in the registry?
  frame,      \* the SUBSCRIBE frame being handled
  sub,        \* the viewer's ProductiveSubscription
  tail,       \* its operations: subscription.tail
  wire,       \* frames sent and not yet received: pendingMessages of them
  client,     \* what the client holds
  spent       \* how much of each bound is used up

vars == <<log, version, sent, listener, notes, socket, session, frame, sub,
          tail, wire, client, spent>>

game == <<log, version, sent>>
fanout == <<listener, notes>>
connection == <<socket, session, frame, sub, tail>>

Cursors == [seq : 0 .. MaxEvents, ver : 0 .. (MaxEvents + MaxOverrides)]

NoCursor == [seq |-> -1, ver |-> -1]

\* buildM1RealtimeCursor over the game as it is now.
HeadCursor == [seq |-> Len(log), ver |-> version]

\* The events after one position and up to another that the viewer may see.
Visible(from, to) == {i \in (from.seq + 1) .. to.seq : log[i].vis}

\* cursorAtOrBefore
AtOrBefore(a, b) == a.seq <= b.seq /\ a.ver <= b.ver

\* validateM1RealtimeCursor of c against the game read as `head`: the version
\* of a cursor must be the version of its last event.
Validates(c, head) ==
  /\ c.seq <= head.seq
  /\ c.ver <= head.ver
  /\ IF c.seq = 0 THEN c.ver = 0 ELSE log[c.seq].ver = c.ver

-----------------------------------------------------------------------------
(* The subscription and its queue.                                         *)

OpKinds == {"wake", "first", "resync", "ack"}

Stages == {"queued", "reading", "read"}

Op(kind, cursor) ==
  [kind |-> kind, from |-> cursor, stage |-> "queued", head |-> NoCursor]

NoSubscription ==
  [state |-> "none", issuedLast |-> NoCursor, ackedLast |-> NoCursor,
   initial |-> NoCursor, issued |-> {}, acked |-> {}]

\* Wakes of a tail whose last operation is a wake still to start add nothing:
\* that one reads the database later than this wake.
PendingWake ==
  tail # <<>> /\ tail[Len(tail)].kind = "wake" /\ tail[Len(tail)].stage = "queued"

\* wakeGame: an operation for every active subscription of the game.  One that
\* is closed would return at its first check.
Woken ==
  IF sub.state = "live" /\ ~PendingWake THEN Append(tail, Op("wake", NoCursor)) ELSE tail

\* A client frame is handled when the previous one is done: connection.tail.
FrameInProgress ==
  \/ frame.stage # "idle"
  \/ sub.state = "closing"
  \/ \E i \in DOMAIN tail : tail[i].kind # "wake"

Idle == [stage |-> "idle", after |-> NoCursor, head |-> NoCursor]

-----------------------------------------------------------------------------
(* Frames to the client.                                                   *)

Sync(cursor) == [type |-> "sync", cursor |-> cursor, events |-> {}]
Gap == [type |-> "gap", cursor |-> NoCursor, events |-> {}]
Batch(cursor, events) == [type |-> "batch", cursor |-> cursor, events |-> events]

\* Mutated form: the limit is compared with this call's frames alone.
RoomForTheseFrames == MaxPending

\* The frames that may be added before the pending ones reach their limit.
Room == MaxPending - Len(wire)

\* send, frame after frame: nothing leaves a socket that is not open, and the
\* frame that finds the pending ones at their limit closes it.
Send(frames) ==
  /\ wire' = IF socket # "open" THEN wire
             ELSE wire \o SubSeq(frames, 1, IF Room < Len(frames) THEN Room ELSE Len(frames))
  /\ socket' = IF socket = "open" /\ Room < Len(frames) THEN "overloaded" ELSE socket

\* rejectPolicy: the socket closes and later sends do nothing.
Reject == socket' = IF socket = "open" THEN "rejected" ELSE socket

\* Mutated form: every batch carries the cursor of the whole feed.
BatchesClaimingHead(from, head) ==
  LET events == Visible(from, head)
      Rank(i) == Cardinality({j \in events : j <= i})
      Group(k) == {i \in events : (Rank(i) + BatchSize - 1) \div BatchSize = k}
  IN  IF events = {} THEN <<Batch(head, {})>>
      ELSE [k \in 1 .. ((Cardinality(events) + BatchSize - 1) \div BatchSize) |->
              Batch(head, Group(k))]

\* The batches of sendFeed: the visible events in groups of BatchSize, each
\* with the cursor of its last event and the last one with that of the feed.
Batches(from, head) ==
  LET events == Visible(from, head)
      count == (Cardinality(events) + BatchSize - 1) \div BatchSize
      Rank(i) == Cardinality({j \in events : j <= i})
      Group(k) == {i \in events : (Rank(i) + BatchSize - 1) \div BatchSize = k}
      Last(k) == CHOOSE i \in Group(k) : \A j \in Group(k) : j <= i
      CursorOf(k) == [seq |-> Last(k), ver |-> log[Last(k)].ver]
  IN  IF events = {} THEN <<Batch(head, {})>>
      ELSE [k \in 1 .. count |-> Batch(IF k = count THEN head ELSE CursorOf(k), Group(k))]

CursorsOf(frames) == {frames[i].cursor : i \in DOMAIN frames}

-----------------------------------------------------------------------------
Init ==
  /\ log \in {<<[ver |-> 1, vis |-> b]>> : b \in BOOLEAN}
  /\ version = 1
  /\ sent = 0
  /\ listener = [up |-> TRUE, last |-> 0]
  /\ notes = <<>>
  /\ socket = "closed"
  /\ session = FALSE
  /\ frame = Idle
  /\ sub = NoSubscription
  /\ tail = <<>>
  /\ wire = <<>>
  /\ client = [base |-> NoCursor, heard |-> {}, points |-> {}, got |-> {},
               acked |-> NoCursor, anew |-> TRUE]
  /\ spent = [overrides |-> 0, resends |-> 0, outages |-> 0, connections |-> 0,
              requests |-> 0, faults |-> 0]

Spend(what, bound) ==
  /\ spent[what] < bound
  /\ spent' = [spent EXCEPT ![what] = @ + 1]

-----------------------------------------------------------------------------
(* The game and the outbox, elsewhere in the system.                       *)

\* A committed transition: its events, and one outbox message.
Commit ==
  /\ \E shape \in CommitShapes :
       /\ Len(log) + Len(shape) <= MaxEvents
       /\ log' = log \o [k \in DOMAIN shape |-> [ver |-> version + 1, vis |-> shape[k]]]
  /\ version' = version + 1
  /\ UNCHANGED <<sent, fanout, connection, wire, client, spent>>

\* recordFacilitatorOverride: the state gets a version (and the outbox its
\* message), the list of events inside the state gets nothing.
FacilitatorOverride ==
  /\ Spend("overrides", MaxOverrides)
  /\ version' = version + 1
  /\ UNCHANGED <<log, sent, fanout, connection, wire, client>>

\* The pump hands over the next message of the outbox (message n is that of
\* version n); pg_notify reaches the sessions that LISTEN at that moment.
Notify ==
  /\ sent < version /\ sent < MaxNotices
  /\ sent' = sent + 1
  /\ notes' = IF listener.up THEN Append(notes, sent + 1) ELSE notes
  /\ UNCHANGED <<log, version, listener, connection, wire, client, spent>>

\* A publisher that lost its lease hands a message over again.
NotifyAgain ==
  /\ Spend("resends", MaxResends)
  /\ listener.up
  /\ \E n \in 1 .. sent : notes' = Append(notes, n)
  /\ UNCHANGED <<game, listener, connection, wire, client>>

-----------------------------------------------------------------------------
(* The listener.                                                           *)

\* notification: an outbox sequence already seen is ignored, a later one is
\* recorded before the wake it causes has run.
Notification ==
  /\ notes # <<>>
  /\ notes' = Tail(notes)
  /\ IF Head(notes) <= listener.last THEN UNCHANGED <<listener, tail>>
     ELSE /\ listener' = [listener EXCEPT !.last = Head(notes)]
          /\ tail' = Woken
  /\ UNCHANGED <<game, socket, session, frame, sub, wire, client, spent>>

\* Mutated form: the timer wakes only while the LISTEN connection is up.
CatchUpWhileListening ==
  /\ listener.up
  /\ tail' = Woken
  /\ UNCHANGED <<game, fanout, socket, session, frame, sub, wire, client, spent>>

\* The catch-up timer: it runs whether or not the connection is up.
CatchUp ==
  /\ tail' = Woken
  /\ UNCHANGED <<game, fanout, socket, session, frame, sub, wire, client, spent>>

Disconnected ==
  /\ listener.up
  /\ Spend("outages", MaxOutages)
  /\ listener' = [listener EXCEPT !.up = FALSE]
  /\ notes' = <<>>
  /\ UNCHANGED <<game, connection, wire, client>>

\* connectAndCatchup: LISTEN, and then a wake of every subscription.
Reconnect ==
  /\ ~listener.up
  /\ listener' = [listener EXCEPT !.up = TRUE]
  /\ tail' = Woken
  /\ UNCHANGED <<game, notes, socket, session, frame, sub, wire, client, spent>>

-----------------------------------------------------------------------------
(* SUBSCRIBE.                                                              *)

\* The client opens a connection and authenticates: its frames of an earlier
\* connection are lost with that connection.
Connect ==
  /\ socket # "open"
  /\ Spend("connections", MaxConnections)
  /\ socket' = "open"
  /\ session' = TRUE
  /\ frame' = Idle
  /\ sub' = NoSubscription
  /\ tail' = <<>>
  /\ wire' = <<>>
  /\ client' = [client EXCEPT !.got = {}, !.acked = NoCursor]
  /\ UNCHANGED <<game, fanout>>

\* The client subscribes anew, or from a position it was given earlier.  The
\* handler checks the session and awaits the membership.
SubscribeFrame ==
  /\ socket = "open"
  /\ ~FrameInProgress
  /\ sub.state \in {"none", "gone"}
  /\ session
  /\ \E after \in client.points \cup {NoCursor} :
       /\ frame' = [stage |-> "member", after |-> after, head |-> NoCursor]
       /\ client' = [client EXCEPT !.anew = (after = NoCursor)]
  /\ UNCHANGED <<game, fanout, socket, session, sub, tail, wire, spent>>

\* getM1InitialSyncForActor: the state the SYNC frame will carry.
SubscribeReads ==
  /\ frame.stage = "member"
  /\ frame' = [frame EXCEPT !.stage = "synced", !.head = HeadCursor]
  /\ UNCHANGED <<game, fanout, socket, session, sub, tail, wire, client, spent>>

SubscribeFails ==
  /\ frame.stage = "member"
  /\ Spend("faults", MaxReadFaults)
  /\ frame' = Idle
  /\ Reject
  /\ UNCHANGED <<game, fanout, session, sub, tail, wire, client>>

\* Mutated form: a subscriber that comes back is continued from the SYNC.
SubscribedAtHead ==
  /\ frame.stage = "synced"
  /\ frame' = Idle
  /\ sub' = [state |-> "live", issuedLast |-> frame.head, ackedLast |-> frame.head,
             initial |-> frame.head, issued |-> {frame.head}, acked |-> {frame.head}]
  /\ tail' = Append(tail, Op("first", frame.head))
  /\ Send(<<Sync(frame.head)>>)
  /\ UNCHANGED <<game, fanout, session, client, spent>>

\* The subscription is registered, the SYNC frame sent and the first delivery
\* queued in one turn of the event loop.
Subscribed ==
  LET start == IF frame.after = NoCursor THEN frame.head ELSE frame.after IN
  /\ frame.stage = "synced"
  /\ frame' = Idle
  /\ IF AtOrBefore(start, frame.head)
     THEN /\ sub' = [state |-> "live", issuedLast |-> start, ackedLast |-> start,
                     initial |-> start, issued |-> {frame.head}, acked |-> {start}]
          /\ tail' = Append(tail, Op("first", start))
          /\ Send(<<Sync(frame.head)>>)
     ELSE Reject /\ UNCHANGED <<sub, tail, wire>>
  /\ UNCHANGED <<game, fanout, session, client, spent>>

-----------------------------------------------------------------------------
(* Deliveries: the operation at the head of the subscription's tail.       *)

\* An operation that ends lets the next one of the tail start.
OpDone == tail' = Tail(tail)

\* The failure of a wake is swallowed, that of a client's frame closes the
\* connection.
OpFails ==
  /\ OpDone
  /\ IF tail[1].kind = "wake" THEN UNCHANGED socket ELSE Reject

AtStage(stage) == tail # <<>> /\ tail[1].stage = stage

\* A delivery on a closed subscription returns at once.
DeliverySkipped ==
  /\ AtStage("queued")
  /\ tail[1].kind # "ack"
  /\ sub.state # "live"
  /\ OpDone
  /\ UNCHANGED <<game, fanout, socket, session, frame, sub, wire, client, spent>>

DeliveryRefused ==
  /\ AtStage("queued")
  /\ tail[1].kind # "ack"
  /\ sub.state = "live"
  /\ ~session
  /\ OpFails
  /\ UNCHANGED <<game, fanout, session, frame, sub, wire, client, spent>>

\* The session holds: the membership is awaited.  A wake delivers from the
\* cursor that was issued last when it starts; a resync first says that there
\* is a gap.
DeliveryStarts ==
  /\ AtStage("queued")
  /\ tail[1].kind # "ack"
  /\ sub.state = "live"
  /\ session
  /\ tail' = [tail EXCEPT ![1].stage = "reading",
                          ![1].from = IF tail[1].kind = "wake" THEN sub.issuedLast ELSE @]
  /\ Send(IF tail[1].kind = "resync" THEN <<Gap>> ELSE <<>>)
  /\ UNCHANGED <<game, fanout, session, frame, sub, client, spent>>

\* recoverState: what the game is when the database answers.
ReadFeed ==
  /\ AtStage("reading")
  /\ tail' = [tail EXCEPT ![1].stage = "read", ![1].head = HeadCursor]
  /\ UNCHANGED <<game, fanout, socket, session, frame, sub, wire, client, spent>>

ReadFails ==
  /\ AtStage("reading")
  /\ Spend("faults", MaxReadFaults)
  /\ OpFails
  /\ UNCHANGED <<game, fanout, session, frame, sub, wire, client>>

\* The cursor the delivery starts from is not one of the game that was read.
CursorRefused ==
  /\ AtStage("read")
  /\ ~Validates(tail[1].from, tail[1].head)
  /\ OpFails
  /\ UNCHANGED <<game, fanout, session, frame, sub, wire, client, spent>>

\* sendFeed: nothing to say, or a read that is behind what was issued.
NothingToSend(op) ==
  \/ Visible(op.from, op.head) = {} /\ AtOrBefore(op.head, sub.issuedLast)
  \/ ~AtOrBefore(sub.issuedLast, op.head)

SendFeed ==
  LET op == tail[1]
      batches == Batches(op.from, op.head)
  IN
  /\ AtStage("read")
  /\ Validates(op.from, op.head)
  /\ OpDone
  /\ IF NothingToSend(op) THEN UNCHANGED <<sub, socket, wire>>
     ELSE /\ Send(batches)
          /\ sub' = [sub EXCEPT !.issued = @ \cup CursorsOf(batches), !.issuedLast = op.head]
  /\ UNCHANGED <<game, fanout, session, frame, client, spent>>

\* Mutated form: an acknowledgement drops the issued cursors behind it.
AcknowledgePruning ==
  LET cursor == tail[1].from IN
  /\ AtStage("queued")
  /\ tail[1].kind = "ack"
  /\ CASE cursor \in sub.acked -> OpDone /\ UNCHANGED <<sub, socket>>
       [] cursor \notin sub.acked /\ cursor \in sub.issued /\ AtOrBefore(sub.ackedLast, cursor) ->
            /\ OpDone
            /\ sub' = [sub EXCEPT !.ackedLast = cursor, !.acked = @ \cup {cursor},
                                 !.issued = {c \in @ : ~AtOrBefore(c, cursor)}]
            /\ UNCHANGED socket
       [] OTHER -> OpFails /\ UNCHANGED sub
  /\ UNCHANGED <<game, fanout, session, frame, wire, client, spent>>

\* acknowledge: a cursor acknowledged before is accepted again, another one
\* must have been issued and not lie behind the last acknowledgement.
Acknowledge ==
  LET cursor == tail[1].from IN
  /\ AtStage("queued")
  /\ tail[1].kind = "ack"
  /\ CASE cursor \in sub.acked -> OpDone /\ UNCHANGED <<sub, socket>>
       [] cursor \notin sub.acked /\ cursor \in sub.issued /\ AtOrBefore(sub.ackedLast, cursor) ->
            /\ OpDone
            /\ sub' = [sub EXCEPT !.ackedLast = cursor, !.acked = @ \cup {cursor}]
            /\ UNCHANGED socket
       [] OTHER -> OpFails /\ UNCHANGED sub
  /\ UNCHANGED <<game, fanout, session, frame, wire, client, spent>>

-----------------------------------------------------------------------------
(* The client and its connection.                                          *)

MaySend ==
  /\ socket = "open"
  /\ ~FrameInProgress
  /\ sub.state = "live"
  /\ client.got # {}
  /\ Spend("requests", MaxRequests)

AckFrame ==
  /\ MaySend
  /\ \E c \in client.got :
       /\ AnyAckOrder \/ AtOrBefore(client.acked, c)
       /\ client' = [client EXCEPT !.acked = c]
       /\ tail' = Append(tail, Op("ack", c))
  /\ UNCHANGED <<game, fanout, socket, session, frame, sub, wire>>

\* resync: from the cursor the subscription began with, or from one that it
\* issued or acknowledged.
ResyncFrame ==
  /\ MaySend
  /\ \E c \in client.got \cup {sub.initial} :
       IF c \in {sub.initial} \cup sub.issued \cup sub.acked
       THEN tail' = Append(tail, Op("resync", c)) /\ UNCHANGED socket
       ELSE Reject /\ UNCHANGED tail
  /\ UNCHANGED <<game, fanout, session, frame, sub, wire, client>>

UnsubscribeFrame ==
  /\ MaySend
  /\ sub' = [sub EXCEPT !.state = "closing"]
  /\ client' = [client EXCEPT !.got = {}, !.acked = NoCursor]
  /\ UNCHANGED <<game, fanout, socket, session, frame, tail, wire>>

\* Mutated form: the subscription goes without awaiting its tail.
UnsubscribeAtOnce ==
  /\ sub.state = "closing"
  /\ sub' = [sub EXCEPT !.state = "gone"]
  /\ UNCHANGED <<game, fanout, socket, session, frame, tail, wire, client, spent>>

\* The operations that were under way have ended: the subscription goes.
UnsubscribeDone ==
  /\ sub.state = "closing"
  /\ tail = <<>>
  /\ sub' = [sub EXCEPT !.state = "gone"]
  /\ UNCHANGED <<game, fanout, socket, session, frame, tail, wire, client, spent>>

\* The client takes the next frame.  A SYNC without afterCursor is where it
\* starts from; after one it came back with, it goes on from that cursor.
Receive ==
  /\ wire # <<>>
  /\ socket # "closed"
  /\ wire' = Tail(wire)
  /\ LET f == Head(wire) IN
     client' =
       CASE f.type = "sync" /\ client.anew ->
              [client EXCEPT !.base = f.cursor, !.heard = {}, !.points = {f.cursor},
                             !.got = {f.cursor}]
         [] f.type = "sync" /\ ~client.anew -> [client EXCEPT !.got = {f.cursor}]
         [] f.type = "batch" ->
              [client EXCEPT !.heard = @ \cup f.events, !.points = @ \cup {f.cursor},
                             !.got = IF @ = {} THEN {} ELSE @ \cup {f.cursor}]
         [] OTHER -> client
  /\ UNCHANGED <<game, fanout, connection, spent>>

\* The transport fails, or two heartbeats went unanswered.
ConnectionLost ==
  /\ socket = "open"
  /\ spent.connections < MaxConnections
  /\ socket' = "closed"
  /\ UNCHANGED <<game, fanout, session, frame, sub, tail, wire, client, spent>>

\* The token expires or the identity is invalidated: the observer of the
\* session registry closes the sockets of that session in the same turn.
SessionInvalidated ==
  /\ session
  /\ spent.connections < MaxConnections
  /\ session' = FALSE
  /\ socket' = IF socket = "open" THEN "expired" ELSE socket
  /\ UNCHANGED <<game, fanout, frame, sub, tail, wire, client, spent>>

-----------------------------------------------------------------------------
Deliver ==
  \/ DeliverySkipped \/ DeliveryRefused \/ DeliveryStarts
  \/ ReadFeed \/ CursorRefused \/ SendFeed \/ Acknowledge

Handle == SubscribeReads \/ Subscribed \/ UnsubscribeDone

Environment ==
  \/ Commit \/ FacilitatorOverride \/ Notify \/ NotifyAgain \/ Disconnected
  \/ SubscribeFails \/ ReadFails \/ ConnectionLost \/ SessionInvalidated

ClientSends == Connect \/ SubscribeFrame \/ AckFrame \/ ResyncFrame \/ UnsubscribeFrame

Next ==
  \/ Deliver \/ Handle \/ Environment \/ ClientSends
  \/ Notification \/ CatchUp \/ Reconnect \/ Receive

Spec == Init /\ [][Next]_vars

\* The event loop runs what is queued, the catch-up timer fires, and frames
\* in flight on a socket that is not lost arrive.  Nothing is asked of the
\* notifications.
Fairness ==
  /\ WF_vars(Deliver)
  /\ WF_vars(Handle)
  /\ WF_vars(CatchUp)
  /\ WF_vars(Receive)

FairSpec == Spec /\ Fairness

-----------------------------------------------------------------------------
(* Properties.                                                             *)

Frames == [type : {"sync", "gap", "batch"}, cursor : Cursors \cup {NoCursor},
           events : SUBSET (1 .. MaxEvents)]

\* Every variable stays in its type.
TypeOK ==
  /\ log \in Seq([ver : Nat, vis : BOOLEAN]) /\ Len(log) <= MaxEvents
  /\ version \in Nat /\ sent \in 0 .. version
  /\ listener \in [up : BOOLEAN, last : Nat]
  /\ notes \in Seq(Nat)
  /\ socket \in {"open", "closed", "rejected", "overloaded", "expired"}
  /\ session \in BOOLEAN
  /\ frame \in [stage : {"idle", "member", "synced"}, after : Cursors \cup {NoCursor},
                head : Cursors \cup {NoCursor}]
  /\ sub.state \in {"none", "live", "closing", "gone"}
  /\ {sub.issuedLast, sub.ackedLast, sub.initial} \subseteq Cursors \cup {NoCursor}
  /\ sub.issued \subseteq Cursors /\ sub.acked \subseteq Cursors
  /\ tail \in Seq([kind : OpKinds, from : Cursors \cup {NoCursor}, stage : Stages,
                   head : Cursors \cup {NoCursor}])
  /\ wire \in Seq(Frames) /\ Len(wire) <= MaxPending
  /\ client.heard \subseteq 1 .. MaxEvents
  /\ client.points \subseteq Cursors /\ client.got \subseteq Cursors

\* The position a client was given with a batch, and with which it may come
\* back on another connection, is never ahead of what it has heard: resuming
\* from any of them loses no event, wherever the connection was cut
\* (sendFeed, subscribe).
PointsAreComplete ==
  \A c \in client.points : Visible(client.base, c) \subseteq client.heard

\* A client that acknowledges forwards and asks for a resync from cursors it
\* was given is never answered with a policy close while no read fails and no
\* override has moved the version (acknowledge, resync, validateM1RealtimeCursor).
ClientNotRejected == socket = "rejected" => spent.faults + spent.overrides > 0

\* Neither a session that is gone nor a subscription that has ended sends
\* anything more, whatever deliveries were awaiting the database when it ended
\* (requireSession before two awaits, unsubscribe).
QuietAfterTheEnd ==
  [][\/ ~session /\ ~session'
     \/ sub.state = "gone" /\ sub'.state = "gone"
     => Len(wire') <= Len(wire)]_vars

Following == socket = "open" /\ sub.state = "live" /\ client.got # {}

\* A subscriber that stays connected hears every event it may see, with every
\* notification lost, ignored or swallowed: the periodic catch-up repairs it.
SubscriberCatchesUp ==
  \A i \in 1 .. MaxEvents :
    (Following /\ i <= Len(log) /\ log[i].vis /\ i > client.base.seq)
      ~> (i \in client.heard \/ ~Following)

\* What the viewer hears, across batches, wakes, resyncs, lost frames and new
\* connections, is the abstract feed: always the visible events up to some
\* point, none skipped.
Feed == INSTANCE ViewerFeed WITH
  log <- [i \in DOMAIN log |-> log[i].vis],
  start <- IF client.base = NoCursor THEN 0 ELSE client.base.seq,
  heard <- client.heard
ImplementsFeed == Feed!Spec
=============================================================================
