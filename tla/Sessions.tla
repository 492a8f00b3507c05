------------------------------- MODULE Sessions -------------------------------
(***************************************************************************)
(* Who may stay connected: the WebSocket connections of the nodes, the     *)
(* registry each node keeps of authenticated sessions, the logout that     *)
(* ends an identity's sessions on its own node and, by a NOTIFY without a  *)
(* durable record, on the others, the dedicated LISTEN connection that     *)
(* carries it, and the shutdown that closes all of it in order.            *)
(*                                                                         *)
(* A session of the registry is named by the connection it was created     *)
(* for.  The session of an HTTP request lives as long as its request, and  *)
(* nothing else looks at it: only the request that logs an identity out    *)
(* is here, which ends its own session with the others.                    *)
(***************************************************************************)
EXTENDS Naturals, FiniteSets

CONSTANTS
  Nodes,          \* processes of the server
  Users,          \* external identities: issuer and subject
  Sockets,        \* connections, in every behaviour
  MaxPerSession,  \* config.maximumConnectionsPerSession
  Budgets         \* bound: how many connections, outages of LISTEN connections
                  \* (attempts that fail included) and logouts one behaviour may
                  \* have, and which nodes may be told to stop

ASSUME SessionsAssumption ==
  /\ IsFiniteSet(Sockets)
  /\ MaxPerSession \in Nat \ {0}
  /\ Budgets \subseteq [opens : Nat, outages : Nat, logouts : Nat, stops : SUBSET Nodes]

VARIABLES
  socket,    \* readyState of the WebSocket of a connection: ConnectionState.socket
  at,        \* its node and the identity its client holds a token of
  auth,      \* how far its AUTHENTICATE frame has come
  expiring,  \* the connections whose expirationTimer is armed
  registry,  \* by node, ProductiveSessionRegistry.#sessions
  valid,     \* the identities whose token has not expired
  logout,    \* the logout request of an identity: [stage, node]
  listener,  \* by node, the LISTEN connection: #client, #reconnectTimer
  notes,     \* by node, identities whose invalidation is on its way
  stage,     \* by node, how far shutdown has come
  awaited,   \* by node, the connections whose tail shutdown waits for
  left       \* what is left of the behaviour's budget

vars == <<socket, at, auth, expiring, registry, valid, logout, listener, notes,
          stage, awaited, left>>

connections == <<socket, at, auth, expiring>>
fanout == <<listener, notes>>
shutdown == <<stage, awaited>>

Nowhere == [node |-> "none", user |-> "none"]

\* Until realtime.shutdown sets #draining.
AcceptingStages == {"serving", "pump", "unlisten"}

\* #stopping of the listener: stop() has begun.
Stopping(n) == stage[n] \notin {"serving", "pump"}

\* #connections of a node: a connection leaves it when its socket is closed.
Connected(n) == {s \in Sockets : socket[s] \in {"open", "closing"} /\ at[s].node = n}

SessionsOf(n, u) == {s \in registry[n] : at[s].user = u}

\* The connections of the node that hold a session of the identity.
ActiveForSubject(n, u) ==
  {s \in Connected(n) : auth[s] = "done" /\ at[s].user = u}

\* Sockets after close() of those in S: the closing handshake starts.
Closing(S) == [s \in Sockets |-> IF s \in S /\ socket[s] = "open" THEN "closing" ELSE socket[s]]

\* cleanup: the connection leaves #connections, with its timer and without
\* its session, which stays in the registry.
Gone(S) ==
  /\ socket' = [s \in Sockets |-> IF s \in S THEN "gone" ELSE socket[s]]
  /\ expiring' = expiring \ S

\* invalidate: sessions leave the registry, and its observer closes their
\* connections in the same turn.
Invalidate(n, S) ==
  /\ registry' = [registry EXCEPT ![n] = @ \ S]
  /\ socket' = Closing(S \cap registry[n])

Spend(what) ==
  /\ left[what] > 0
  /\ left' = [left EXCEPT ![what] = @ - 1]

Init ==
  /\ socket = [s \in Sockets |-> "none"]
  /\ at = [s \in Sockets |-> Nowhere]
  /\ auth = [s \in Sockets |-> "no"]
  /\ expiring = {}
  /\ registry = [n \in Nodes |-> {}]
  /\ valid = Users
  /\ logout = [u \in Users |-> [stage |-> "idle", node |-> "none"]]
  /\ listener = [n \in Nodes |-> "listening"]
  /\ notes = [n \in Nodes |-> {}]
  /\ stage = [n \in Nodes |-> "serving"]
  /\ awaited = [n \in Nodes |-> {}]
  /\ left \in Budgets

-----------------------------------------------------------------------------
(* Connections and their authentication.                                   *)

\* handleUpgrade refuses once the server is draining.
Open(s) ==
  /\ socket[s] = "none"
  /\ Spend("opens")
  /\ \E n \in Nodes, u \in Users :
       /\ stage[n] \in AcceptingStages
       /\ at' = [at EXCEPT ![s] = [node |-> n, user |-> u]]
  /\ socket' = [socket EXCEPT ![s] = "open"]
  /\ UNCHANGED <<auth, expiring, registry, valid, logout, fanout, shutdown>>

\* authenticationTimer, armed by open, fires whatever the frame being handled
\* is waiting for; on a connection that is closing it does nothing.
AuthenticationTimeout(s) ==
  /\ socket[s] = "open"
  /\ auth[s] # "done"
  /\ socket' = Closing({s})
  /\ UNCHANGED <<at, auth, expiring, registry, valid, logout, fanout, shutdown, left>>

\* The AUTHENTICATE frame: its token is being verified.
Authenticate(s) ==
  /\ socket[s] = "open"
  /\ auth[s] = "no"
  /\ auth' = [auth EXCEPT ![s] = "verifying"]
  /\ UNCHANGED <<socket, at, expiring, registry, valid, logout, fanout, shutdown, left>>

\* Another frame before it, a second one, or one that breaks a rule.
PolicyRejected(s) ==
  /\ socket[s] = "open"
  /\ auth[s] \in {"no", "done"}
  /\ socket' = Closing({s})
  /\ UNCHANGED <<at, auth, expiring, registry, valid, logout, fanout, shutdown, left>>

\* Mutated form: the expiration is scheduled with the token's verification.
VerifiedArmingTimer(s) ==
  /\ auth[s] = "verifying"
  /\ \/ /\ at[s].user \in valid
        /\ auth' = [auth EXCEPT ![s] = "verified"]
        /\ expiring' = expiring \cup {s}
        /\ UNCHANGED socket
     \/ /\ auth' = [auth EXCEPT ![s] = "refused"]
        /\ socket' = Closing({s})
        /\ UNCHANGED expiring
  /\ UNCHANGED <<at, registry, valid, logout, fanout, shutdown, left>>

\* Mutated form: what is answered to a connection that ended is never settled.
VerifiedWhileOpen(s) ==
  /\ auth[s] = "verifying"
  /\ socket[s] = "open"
  /\ \/ /\ at[s].user \in valid
        /\ auth' = [auth EXCEPT ![s] = "verified"]
        /\ UNCHANGED socket
     \/ /\ auth' = [auth EXCEPT ![s] = "refused"]
        /\ socket' = Closing({s})
  /\ UNCHANGED <<at, expiring, registry, valid, logout, fanout, shutdown, left>>

\* verifyAccessToken answers: the connection may have ended meanwhile.  A token
\* that has expired is refused, and so is any while the keys are unavailable.
\* One inside the clock's tolerance passes, like one that expires a moment later.
Verified(s) ==
  /\ auth[s] = "verifying"
  /\ \/ /\ at[s].user \in valid
        /\ auth' = [auth EXCEPT ![s] = "verified"]
        /\ UNCHANGED socket
     \/ /\ auth' = [auth EXCEPT ![s] = "refused"]
        /\ socket' = Closing({s})
  /\ UNCHANGED <<at, expiring, registry, valid, logout, fanout, shutdown, left>>

\* Mutated form: one connection more than the limit.
AtLimitOffByOne(n, u) == Cardinality(ActiveForSubject(n, u)) > MaxPerSession

AtLimit(n, u) == Cardinality(ActiveForSubject(n, u)) >= MaxPerSession

\* Mutated form: a token that expired since it was verified arms no timer.
CreateSessionUntimed(s) ==
  LET n == at[s].node IN
  /\ auth[s] = "verified"
  /\ ~AtLimit(n, at[s].user)
  /\ auth' = [auth EXCEPT ![s] = "done"]
  /\ registry' = [registry EXCEPT ![n] = @ \cup {s}]
  /\ expiring' = IF at[s].user \in valid THEN expiring \cup {s} ELSE expiring
  /\ UNCHANGED <<socket, at, valid, logout, fanout, shutdown, left>>

\* After the await: the limit is counted and the session created in one turn,
\* for a connection that may be closing or gone.  scheduleExpiration arms the
\* timer, or ends the session at once if the token has expired since.
CreateSession(s) ==
  LET n == at[s].node
      u == at[s].user
  IN
  /\ auth[s] = "verified"
  /\ ~AtLimit(n, u)
  /\ auth' = [auth EXCEPT ![s] = "done"]
  /\ IF u \in valid
     THEN /\ registry' = [registry EXCEPT ![n] = @ \cup {s}]
          /\ expiring' = expiring \cup {s}
          /\ UNCHANGED socket
     ELSE /\ socket' = Closing({s})
          /\ UNCHANGED <<registry, expiring>>
  /\ UNCHANGED <<at, valid, logout, fanout, shutdown, left>>

\* The identity has its connections on this node already.
TooManyConnections(s) ==
  /\ auth[s] = "verified"
  /\ AtLimit(at[s].node, at[s].user)
  /\ auth' = [auth EXCEPT ![s] = "refused"]
  /\ socket' = Closing({s})
  /\ UNCHANGED <<at, expiring, registry, valid, logout, fanout, shutdown, left>>

\* Time passes: the tokens of an identity expire.
TokenExpires(u) ==
  /\ u \in valid
  /\ valid' = valid \ {u}
  /\ UNCHANGED <<connections, registry, logout, fanout, shutdown, left>>

\* scheduleExpiration when its timer fires and nothing remains.
ExpirationTimeout(s) ==
  /\ s \in expiring
  /\ at[s].user \notin valid
  /\ expiring' = expiring \ {s}
  /\ Invalidate(at[s].node, {s})
  /\ UNCHANGED <<at, auth, valid, logout, fanout, shutdown, left>>

\* resolve, by any frame or delivery: an expired session ends before its timer.
ResolveExpired(s) ==
  /\ socket[s] = "open"
  /\ auth[s] = "done"
  /\ s \in registry[at[s].node]
  /\ at[s].user \notin valid
  /\ Invalidate(at[s].node, {s})
  /\ UNCHANGED <<at, auth, expiring, valid, logout, fanout, shutdown, left>>

\* The closing handshake ends, or its own timeout destroys the socket.
Closed(s) ==
  /\ socket[s] = "closing"
  /\ Gone({s})
  /\ UNCHANGED <<at, auth, registry, valid, logout, fanout, shutdown, left>>

\* The peer leaves, the transport fails, or the heartbeats went unanswered.
Dropped(s) ==
  /\ socket[s] = "open"
  /\ Gone({s})
  /\ UNCHANGED <<at, auth, registry, valid, logout, fanout, shutdown, left>>

-----------------------------------------------------------------------------
(* Logout and its fan-out.                                                 *)

\* POST /v1/session/invalidate, when its token has been verified: the sessions
\* of this node end, and then the other nodes are to be told.
LogoutRequest(u) ==
  /\ logout[u].stage \in {"idle", "refused"}
  /\ u \in valid
  /\ Spend("logouts")
  /\ \E n \in Nodes :
       /\ stage[n] \in AcceptingStages \cup {"tails", "closing"}
       /\ logout' = [logout EXCEPT ![u] = [stage |-> "notifying", node |-> n]]
       /\ Invalidate(n, SessionsOf(n, u))
  /\ UNCHANGED <<at, auth, expiring, valid, fanout, shutdown>>

\* The NOTIFY fails after the local sessions ended: the browser's back end keeps
\* its own session and may ask again.
LogoutRefused(u) ==
  /\ logout[u].stage = "notifying"
  /\ logout' = [logout EXCEPT ![u].stage = "refused"]
  /\ UNCHANGED <<connections, registry, valid, fanout, shutdown, left>>

\* PostgresSessionInvalidationFanout: pg_notify commits and reaches the
\* connections that LISTEN at that moment, this node's own among them.
LogoutNotified(u) ==
  /\ logout[u].stage = "notifying"
  /\ logout' = [logout EXCEPT ![u].stage = "done"]
  /\ notes' = [n \in Nodes |-> IF listener[n] = "listening" THEN notes[n] \cup {u} ELSE notes[n]]
  /\ UNCHANGED <<connections, registry, valid, listener, shutdown, left>>

\* notification on malign_session_invalidation: by digest, whoever created the
\* sessions and whenever they were created.
InvalidationArrives(n, u) ==
  /\ listener[n] = "listening"
  /\ u \in notes[n]
  /\ notes' = [notes EXCEPT ![n] = @ \ {u}]
  /\ Invalidate(n, SessionsOf(n, u))
  /\ UNCHANGED <<at, auth, expiring, valid, logout, listener, shutdown, left>>

-----------------------------------------------------------------------------
(* The dedicated LISTEN connection.                                        *)

\* disconnected: the client is released and a timer set, except after stop().
ListenerLost(n) ==
  /\ listener[n] \in {"preparing", "listening"}
  /\ ~Stopping(n)
  /\ Spend("outages")
  /\ listener' = [listener EXCEPT ![n] = "down"]
  /\ notes' = [notes EXCEPT ![n] = {}]
  /\ UNCHANGED <<connections, registry, valid, logout, shutdown>>

\* The reconnect timer: connectAndCatchup asks the pool for a client.
ListenerReconnects(n) ==
  /\ listener[n] = "down"
  /\ listener' = [listener EXCEPT ![n] = "connecting"]
  /\ UNCHANGED <<connections, registry, valid, logout, notes, shutdown, left>>

\* The pool's client arrives: it is kept, whether or not stop() ran meanwhile.
ListenerConnected(n) ==
  /\ listener[n] = "connecting"
  /\ listener' = [listener EXCEPT ![n] = "preparing"]
  /\ UNCHANGED <<connections, registry, valid, logout, notes, shutdown, left>>

\* The pool has no connection to give; after stop() no timer is set.
ListenerConnectFails(n) ==
  /\ listener[n] = "connecting"
  /\ Spend("outages")
  /\ listener' = [listener EXCEPT ![n] = IF Stopping(n) THEN "stopped" ELSE "down"]
  /\ UNCHANGED <<connections, registry, valid, logout, notes, shutdown>>

\* SET ROLE, the check of the identity, and the two LISTENs.
ListenerReady(n) ==
  /\ listener[n] = "preparing"
  /\ listener' = [listener EXCEPT ![n] = "listening"]
  /\ UNCHANGED <<connections, registry, valid, logout, notes, shutdown, left>>

-----------------------------------------------------------------------------
(* Shutdown, in the order of index.ts.                                     *)

\* The end of the process: what it held is gone with it.
Exit(n) ==
  LET own == {s \in Sockets : at[s].node = n} IN
  /\ stage' = [stage EXCEPT ![n] = "exited"]
  /\ Gone(own)
  /\ auth' = [s \in Sockets |->
                IF s \in own /\ auth[s] \in {"verifying", "verified"} THEN "refused" ELSE auth[s]]
  /\ registry' = [registry EXCEPT ![n] = {}]
  /\ listener' = [listener EXCEPT ![n] = "stopped"]
  /\ notes' = [notes EXCEPT ![n] = {}]
  /\ awaited' = [awaited EXCEPT ![n] = {}]
  /\ logout' = [u \in Users |->
                  IF logout[u].node = n /\ logout[u].stage = "notifying"
                  THEN [logout[u] EXCEPT !.stage = "refused"] ELSE logout[u]]
  /\ UNCHANGED <<at, valid, left>>

\* SIGTERM: no new claims; the publisher's claim in flight is awaited.
StopNode(n) ==
  /\ stage[n] = "serving"
  /\ n \in left.stops
  /\ left' = [left EXCEPT !.stops = @ \ {n}]
  /\ stage' = [stage EXCEPT ![n] = "pump"]
  /\ UNCHANGED <<connections, registry, valid, logout, fanout, awaited>>

\* The connections whose message is being handled when the server drains.
Handling(n) == {s \in Connected(n) : auth[s] \in {"verifying", "verified"}}

\* stop() begins: the client it sees has UNLISTEN to run.  Without one there is
\* nothing to await: a client on its way from the pool is not looked for, and
\* realtime.shutdown follows, which refuses upgrades, says DRAINING and waits.
PumpDrained(n) ==
  /\ stage[n] = "pump"
  /\ IF listener[n] \in {"preparing", "listening"}
     THEN /\ stage' = [stage EXCEPT ![n] = "unlisten"]
          /\ UNCHANGED <<listener, awaited>>
     ELSE /\ stage' = [stage EXCEPT ![n] = "tails"]
          /\ awaited' = [awaited EXCEPT ![n] = Handling(n)]
          /\ listener' = [listener EXCEPT ![n] = IF @ = "connecting" THEN @ ELSE "stopped"]
  /\ UNCHANGED <<connections, registry, valid, logout, notes, left>>

\* UNLISTEN is answered: the client is released, and the server drains.
Unlistened(n) ==
  /\ stage[n] = "unlisten"
  /\ stage' = [stage EXCEPT ![n] = "tails"]
  /\ awaited' = [awaited EXCEPT ![n] = Handling(n)]
  /\ listener' = [listener EXCEPT ![n] = "stopped"]
  /\ notes' = [notes EXCEPT ![n] = {}]
  /\ UNCHANGED <<connections, registry, valid, logout, left>>

\* The claim in flight or UNLISTEN fails: shutdown rejects and its finally
\* exits the process, with nothing said to the connections.
ShutdownFails(n) ==
  /\ stage[n] \in {"pump", "unlisten"}
  /\ Exit(n)

\* The tails of the connections there were have ended: 1012 to all of them.
TailsEnded(n) ==
  /\ stage[n] = "tails"
  /\ \A s \in awaited[n] : auth[s] \notin {"verifying", "verified"}
  /\ stage' = [stage EXCEPT ![n] = "closing"]
  /\ awaited' = [awaited EXCEPT ![n] = {}]
  /\ socket' = Closing(Connected(n))
  /\ UNCHANGED <<at, auth, expiring, registry, valid, logout, fanout, left>>

\* All are closed, or the grace period is over and the rest is terminated.
SocketsEnded(n) ==
  /\ stage[n] = "closing"
  /\ stage' = [stage EXCEPT ![n] = "http"]
  /\ Gone(Connected(n))
  /\ UNCHANGED <<at, auth, registry, valid, logout, fanout, awaited, left>>

\* server.close: the requests in flight have been answered.
HttpClosed(n) ==
  /\ stage[n] = "http"
  /\ \A u \in Users :
       ~(logout[u].node = n /\ logout[u].stage = "notifying")
  /\ stage' = [stage EXCEPT ![n] = "pools"]
  /\ UNCHANGED <<connections, registry, valid, logout, fanout, awaited, left>>

\* The pools end when every client has been given back, and the process exits.
PoolsEnded(n) ==
  /\ stage[n] = "pools"
  /\ listener[n] = "stopped"
  /\ Exit(n)

-----------------------------------------------------------------------------
SocketNext(s) ==
  \/ Open(s) \/ AuthenticationTimeout(s) \/ Authenticate(s) \/ PolicyRejected(s)
  \/ Verified(s) \/ CreateSession(s) \/ TooManyConnections(s)
  \/ ExpirationTimeout(s) \/ ResolveExpired(s) \/ Closed(s) \/ Dropped(s)

UserNext(u) ==
  \/ TokenExpires(u)
  \/ LogoutRequest(u) \/ LogoutRefused(u) \/ LogoutNotified(u)
  \/ \E n \in Nodes : InvalidationArrives(n, u)

NodeNext(n) ==
  \/ ListenerLost(n) \/ ListenerReconnects(n) \/ ListenerConnected(n)
  \/ ListenerConnectFails(n) \/ ListenerReady(n)
  \/ StopNode(n) \/ PumpDrained(n) \/ Unlistened(n) \/ ShutdownFails(n)
  \/ TailsEnded(n) \/ SocketsEnded(n) \/ HttpClosed(n) \/ PoolsEnded(n)

Next ==
  \/ \E s \in Sockets : SocketNext(s)
  \/ \E u \in Users : UserNext(u)
  \/ \E n \in Nodes : NodeNext(n)

Spec == Init /\ [][Next]_vars

\* Awaits are answered, timers fire, closing sockets close and notifications
\* arrive.  Nothing makes a client do anything, a token expire, the network
\* fail or an operator stop a node.
Fairness ==
  /\ \A s \in Sockets :
       /\ WF_vars(Verified(s) \/ CreateSession(s) \/ TooManyConnections(s))
       /\ WF_vars(ExpirationTimeout(s))
       /\ WF_vars(Closed(s))
  /\ \A u \in Users :
       /\ WF_vars(LogoutRefused(u) \/ LogoutNotified(u))
       /\ \A n \in Nodes : WF_vars(InvalidationArrives(n, u))
  /\ \A n \in Nodes :
       /\ WF_vars(ListenerReconnects(n) \/ ListenerConnected(n) \/ ListenerReady(n))
       /\ WF_vars(PumpDrained(n) \/ Unlistened(n) \/ ShutdownFails(n) \/ TailsEnded(n)
                  \/ SocketsEnded(n) \/ HttpClosed(n) \/ PoolsEnded(n))

FairSpec == Spec /\ Fairness

-----------------------------------------------------------------------------
SocketStates == {"none", "open", "closing", "gone"}
AuthStates == {"no", "verifying", "verified", "refused", "done"}
LogoutStages == {"idle", "notifying", "refused", "done"}
ListenerStates == {"listening", "down", "connecting", "preparing", "stopped"}

Places == [node : Nodes \cup {"none"}, user : Users \cup {"none"}]

\* The shapes of the state; a registry holds sessions that were created on its
\* own node, an expiration timer runs only for a session, a waiting shutdown
\* waits for its own connections, and a node that does not LISTEN has nothing
\* on its way (productive-authn.ts and realtime-server.ts).
TypeOK ==
  /\ socket \in [Sockets -> SocketStates]
  /\ at \in [Sockets -> Places]
  /\ auth \in [Sockets -> AuthStates]
  /\ expiring \subseteq Sockets
  /\ registry \in [Nodes -> SUBSET Sockets]
  /\ valid \subseteq Users
  /\ logout \in [Users -> [stage : LogoutStages, node : Nodes \cup {"none"}]]
  /\ listener \in [Nodes -> ListenerStates]
  /\ notes \in [Nodes -> SUBSET Users]
  /\ stage \in [Nodes -> {"serving", "pump", "unlisten", "tails", "closing", "http", "pools", "exited"}]
  /\ awaited \in [Nodes -> SUBSET Sockets]
  /\ left \in [opens : Nat, outages : Nat, logouts : Nat, stops : SUBSET Nodes]
  /\ \A s \in Sockets : s \in expiring => auth[s] = "done"
  /\ \A n \in Nodes :
       /\ \A s \in registry[n] : auth[s] = "done" /\ at[s].node = n
       /\ \A s \in awaited[n] : at[s].node = n
       /\ notes[n] # {} => listener[n] = "listening"

\* An open connection that was authenticated has its session in the registry of
\* its node, whatever came while its token was verified, and an identity has on
\* a node no more connections than the limit (realtime-server.ts:406).
SocketsAreEntitled ==
  /\ \A s \in Sockets :
       socket[s] = "open" /\ auth[s] = "done" => s \in registry[at[s].node]
  /\ \A n \in Nodes, u \in Users : Cardinality(ActiveForSubject(n, u)) <= MaxPerSession

\* The invalidation that reaches a node ends the identity's sessions there,
\* unless the node loses the LISTEN connection or stops first; and when the token
\* expires no connection stays open as that identity, on any node, lost NOTIFYs
\* and authentications under way included (realtime-postgres.ts:229).
LogoutEnds ==
  /\ \A n \in Nodes, u \in Users, s \in Sockets :
       (u \in notes[n] /\ s \in SessionsOf(n, u))
         ~> (s \notin registry[n] \/ listener[n] # "listening")
  /\ \A u \in Users :
       u \notin valid
         ~> \A s \in Sockets : ~(socket[s] = "open" /\ auth[s] = "done" /\ at[s].user = u)

\* The client that the listener was waiting for when it was stopped.
ClientKept(n) == stage[n] = "pools" /\ listener[n] \in {"preparing", "listening"}

\* A node that is told to stop exits, with requests, authentications and
\* handshakes under way, unless the LISTEN connection was being re-established
\* when the listener was stopped (index.ts:172, realtime-postgres.ts:117).
ShutdownEnds ==
  \A n \in Nodes : stage[n] = "pump" ~> (stage[n] = "exited" \/ ClientKept(n))

===============================================================================
