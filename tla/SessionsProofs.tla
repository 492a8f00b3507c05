---------------------------- MODULE SessionsProofs ----------------------------
(***************************************************************************)
(* Theorems about Sessions, for every set of nodes, identities and         *)
(* connections and every limit: the types, and that an authenticated       *)
(* connection which is still open is entitled to be.                       *)
(***************************************************************************)
EXTENDS Sessions, FiniteSetTheorems, TLAPS

USE SessionsAssumption DEF SessionsAssumption

\* A connection that was never opened has not authenticated, and no shutdown
\* waits for it.
UnopenedIsNew ==
  \A s \in Sockets : socket[s] = "none" =>
    /\ auth[s] = "no"
    /\ \A n \in Nodes : s \notin awaited[n]

\* A connection that was opened has a node.
OpenedHasNode == \A s \in Sockets : socket[s] # "none" => at[s].node \in Nodes

TypeInv == TypeOK /\ UnopenedIsNew /\ OpenedHasNode

\* The two parts of SocketsAreEntitled.
OpenHasSession ==
  \A s \in Sockets :
    socket[s] = "open" /\ auth[s] = "done" => s \in registry[at[s].node]

WithinLimit ==
  \A n \in Nodes, u \in Users : Cardinality(ActiveForSubject(n, u)) <= MaxPerSession

EntitledInv == TypeInv /\ OpenHasSession /\ WithinLimit

-------------------------------------------------------------------------------
(* Types.                                                                  *)

\* Closing moves open connections to closing and nothing else.
LEMMA ClosingType ==
  ASSUME TypeOK, NEW S, socket' = Closing(S)
  PROVE  /\ socket' \in [Sockets -> SocketStates]
         /\ \A s \in Sockets : socket[s] = "none" <=> socket'[s] = "none"
         /\ \A s \in Sockets : socket'[s] = "open" <=> socket[s] = "open" /\ s \notin S
         /\ \A s \in Sockets :
              socket'[s] \in {"open", "closing"} <=> socket[s] \in {"open", "closing"}
BY DEF TypeOK, Closing, SocketStates

\* Gone ends the connections given and nothing else.
LEMMA GoneType ==
  ASSUME TypeOK, NEW S, Gone(S)
  PROVE  /\ socket' \in [Sockets -> SocketStates]
         /\ \A s \in Sockets : s \in S => socket'[s] = "gone"
         /\ \A s \in Sockets : s \notin S => socket'[s] = socket[s]
         /\ expiring' \subseteq expiring
BY DEF TypeOK, Gone, SocketStates

\* Invalidate ends sessions of one node and closes their connections.
LEMMA InvalidateType ==
  ASSUME TypeOK, NEW n \in Nodes, NEW S, Invalidate(n, S)
  PROVE  /\ socket' = Closing(S \cap registry[n])
         /\ registry' \in [Nodes -> SUBSET Sockets]
         /\ registry'[n] = registry[n] \ S
         /\ \A k \in Nodes : k # n => registry'[k] = registry[k]
BY DEF TypeOK, Invalidate

\* Spending keeps the budget a budget.
LEMMA SpendType ==
  ASSUME TypeOK, NEW what \in {"opens", "outages", "logouts"}, Spend(what)
  PROVE  left' \in [opens : Nat, outages : Nat, logouts : Nat, stops : SUBSET Nodes]
<1>1. left \in [opens : Nat, outages : Nat, logouts : Nat, stops : SUBSET Nodes]
  BY DEF TypeOK
<1>2. left[what] \in Nat /\ left[what] > 0
  BY <1>1 DEF Spend
<1>3. left[what] - 1 \in Nat
  BY <1>2
<1>4. left' = [left EXCEPT ![what] = left[what] - 1]
  BY DEF Spend
<1> QED BY <1>1, <1>3, <1>4

\* The initial state is typed.
LEMMA TypeInit == Init => TypeInv
<1> SUFFICES ASSUME Init PROVE TypeInv
  OBVIOUS
<1>1. left \in [opens : Nat, outages : Nat, logouts : Nat, stops : SUBSET Nodes]
  BY DEF Init
<1>2. UnopenedIsNew /\ OpenedHasNode
  BY DEF Init, UnopenedIsNew, OpenedHasNode
<1> QED BY <1>1, <1>2
      DEF TypeInv, Init, TypeOK, SocketStates, AuthStates, LogoutStages, ListenerStates, Places, Nowhere

\* What most steps do: connections end, sessions, timers and awaited
\* connections only go, and no connection changes its node.
LEMMA ShrinkType ==
  ASSUME TypeInv, UNCHANGED at,
         socket' \in [Sockets -> SocketStates],
         \A s \in Sockets : socket'[s] = "none" => socket[s] = "none",
         \A s \in Sockets : socket'[s] # "none" => socket[s] # "none" \/ at[s].node \in Nodes,
         auth' \in [Sockets -> AuthStates],
         \A s \in Sockets : auth[s] = "done" => auth'[s] = "done",
         \A s \in Sockets : socket[s] = "none" => auth'[s] = "no",
         expiring' \subseteq expiring,
         registry' \in [Nodes -> SUBSET Sockets],
         \A n \in Nodes : registry'[n] \subseteq registry[n],
         awaited' \in [Nodes -> SUBSET Sockets],
         \A n \in Nodes : awaited'[n] \subseteq awaited[n],
         valid' \subseteq Users,
         logout' \in [Users -> [stage : LogoutStages, node : Nodes \cup {"none"}]],
         listener' \in [Nodes -> ListenerStates],
         notes' \in [Nodes -> SUBSET Users],
         \A n \in Nodes : notes'[n] # {} => listener'[n] = "listening",
         stage' \in [Nodes -> {"serving", "pump", "unlisten", "tails", "closing", "http", "pools", "exited"}],
         left' \in [opens : Nat, outages : Nat, logouts : Nat, stops : SUBSET Nodes]
  PROVE  TypeInv'
<1>1. /\ at' \in [Sockets -> Places]
      /\ expiring' \subseteq Sockets
  BY DEF TypeInv, TypeOK
<1>2. \A s \in Sockets : s \in expiring' => auth'[s] = "done"
  BY DEF TypeInv, TypeOK
<1>3. \A n \in Nodes : \A s \in registry'[n] : auth'[s] = "done" /\ at'[s].node = n
  BY DEF TypeInv, TypeOK
<1>4. \A n \in Nodes : \A s \in awaited'[n] : at'[s].node = n
  BY DEF TypeInv, TypeOK
<1>5. UnopenedIsNew'
  BY DEF TypeInv, UnopenedIsNew
<1>6. OpenedHasNode'
  BY DEF TypeInv, OpenedHasNode
<1>7. TypeOK'
  BY <1>1, <1>2, <1>3, <1>4 DEF TypeOK
<1> QED BY <1>5, <1>6, <1>7 DEF TypeInv

\* The types that a step which leaves these variables alone keeps.
LEMMA Kept ==
  ASSUME TypeInv
  PROVE  /\ UNCHANGED <<logout, listener, notes, stage, awaited>> =>
              /\ logout' \in [Users -> [stage : LogoutStages, node : Nodes \cup {"none"}]]
              /\ listener' \in [Nodes -> ListenerStates]
              /\ notes' \in [Nodes -> SUBSET Users]
              /\ \A n \in Nodes : notes'[n] # {} => listener'[n] = "listening"
              /\ stage' \in [Nodes -> {"serving", "pump", "unlisten", "tails", "closing", "http", "pools", "exited"}]
              /\ awaited' \in [Nodes -> SUBSET Sockets]
              /\ \A n \in Nodes : awaited'[n] \subseteq awaited[n]
         /\ UNCHANGED registry =>
              /\ registry' \in [Nodes -> SUBSET Sockets]
              /\ \A n \in Nodes : registry'[n] \subseteq registry[n]
         /\ UNCHANGED auth =>
              /\ auth' \in [Sockets -> AuthStates]
              /\ \A s \in Sockets : auth[s] = "done" => auth'[s] = "done"
              /\ \A s \in Sockets : socket[s] = "none" => auth'[s] = "no"
         /\ UNCHANGED valid => valid' \subseteq Users
         /\ UNCHANGED left =>
              left' \in [opens : Nat, outages : Nat, logouts : Nat, stops : SUBSET Nodes]
BY DEF TypeInv, TypeOK, UnopenedIsNew

\* The answer about one connection that waits for one.
LEMMA AnswerAuth ==
  ASSUME TypeInv, NEW s \in Sockets, auth[s] \in {"verifying", "verified"},
         NEW a \in AuthStates, auth' = [auth EXCEPT ![s] = a]
  PROVE  /\ auth' \in [Sockets -> AuthStates]
         /\ \A t \in Sockets : auth[t] = "done" => auth'[t] = "done"
         /\ \A t \in Sockets : socket[t] = "none" => auth'[t] = "no"
BY DEF TypeInv, TypeOK, UnopenedIsNew, AuthStates

\* The steps of a connection keep the types.
LEMMA SocketTypeStep ==
  ASSUME TypeInv, NEW s \in Sockets, SocketNext(s)
  PROVE  TypeInv'
<1>0. TypeOK
  BY DEF TypeInv
<1>1. CASE Open(s)
  <2>1. left' \in [opens : Nat, outages : Nat, logouts : Nat, stops : SUBSET Nodes]
    BY <1>0, <1>1, SpendType DEF Open
  <2>2. PICK n \in Nodes, u \in Users : at' = [at EXCEPT ![s] = [node |-> n, user |-> u]]
    BY <1>1 DEF Open
  <2>3. [node |-> n, user |-> u] \in Places
    BY DEF Places
  <2>4. at' \in [Sockets -> Places] /\ at'[s].node \in Nodes /\ \A t \in Sockets \ {s} : at'[t] = at[t]
    BY <1>0, <2>2, <2>3 DEF TypeOK
  <2> QED BY <1>1, <2>1, <2>4
        DEF TypeInv, TypeOK, UnopenedIsNew, OpenedHasNode, Open, SocketStates, fanout, shutdown
<1>2. CASE AuthenticationTimeout(s)
  BY <1>0, <1>2, ClosingType, ShrinkType, Kept DEF AuthenticationTimeout, fanout, shutdown
<1>3. CASE Authenticate(s)
  BY <1>0, <1>3
     DEF TypeInv, TypeOK, UnopenedIsNew, OpenedHasNode, Authenticate, AuthStates, fanout, shutdown
<1>4. CASE PolicyRejected(s)
  BY <1>0, <1>4, ClosingType, ShrinkType, Kept DEF PolicyRejected, fanout, shutdown
<1>5. CASE Verified(s)
  BY <1>0, <1>5, ClosingType
     DEF TypeInv, TypeOK, UnopenedIsNew, OpenedHasNode, Verified, AuthStates, fanout, shutdown
<1>6. CASE CreateSession(s)
  <2>1. auth' = [auth EXCEPT ![s] = "done"] /\ auth[s] = "verified"
    BY <1>6 DEF CreateSession
  <2>2. /\ auth' \in [Sockets -> AuthStates] /\ auth'[s] = "done"
        /\ \A t \in Sockets : auth[t] = "done" => auth'[t] = "done"
        /\ \A t \in Sockets : socket[t] = "none" => auth'[t] = "no"
    <3>1. auth \in [Sockets -> AuthStates]
      BY <1>0 DEF TypeOK
    <3>2. auth'[s] = "done"
      BY <2>1, <3>1
    <3> QED BY <2>1, <3>2, AnswerAuth DEF AuthStates
  <2>3. CASE at[s].user \in valid
    <3>1. /\ registry' = [registry EXCEPT ![at[s].node] = registry[at[s].node] \cup {s}]
          /\ expiring' = expiring \cup {s}
          /\ UNCHANGED <<socket, at, valid, logout, listener, notes, stage, awaited, left>>
      BY <1>6, <2>3 DEF CreateSession, fanout, shutdown
    <3>2. /\ registry' \in [Nodes -> SUBSET Sockets]
          /\ \A n \in Nodes : \A t \in registry'[n] :
               t \in registry[n] \/ (t = s /\ n = at[s].node)
      <4>1. at[s].node \in Nodes
        BY <2>1 DEF TypeInv, UnopenedIsNew, OpenedHasNode
      <4>2. registry \in [Nodes -> SUBSET Sockets]
        BY <1>0 DEF TypeOK
      <4> QED BY <3>1, <4>1, <4>2
    <3>3. \A n \in Nodes : \A t \in registry'[n] : auth'[t] = "done" /\ at'[t].node = n
      BY <1>0, <2>2, <3>1, <3>2 DEF TypeOK
    <3>4. UnopenedIsNew' /\ OpenedHasNode'
      BY <2>2, <3>1 DEF TypeInv, UnopenedIsNew, OpenedHasNode
    <3>5. TypeOK'
      BY <1>0, <2>2, <3>1, <3>2, <3>3 DEF TypeOK
    <3> QED BY <3>4, <3>5 DEF TypeInv
  <2>4. CASE at[s].user \notin valid
    <3>1. /\ socket' = Closing({s})
          /\ UNCHANGED <<registry, expiring, at, valid, logout, listener, notes, stage, awaited, left>>
      BY <1>6, <2>4 DEF CreateSession, fanout, shutdown
    <3> QED BY <1>0, <2>2, <3>1, ClosingType, ShrinkType, Kept
  <2> QED BY <2>3, <2>4
<1>7. CASE TooManyConnections(s)
  <2>1. auth[s] = "verified" /\ auth' = [auth EXCEPT ![s] = "refused"]
    BY <1>7 DEF TooManyConnections
  <2>2. /\ auth' \in [Sockets -> AuthStates]
        /\ \A t \in Sockets : auth[t] = "done" => auth'[t] = "done"
        /\ \A t \in Sockets : socket[t] = "none" => auth'[t] = "no"
    BY <2>1, AnswerAuth DEF AuthStates
  <2> QED BY <1>0, <1>7, <2>2, ClosingType, ShrinkType, Kept
         DEF TooManyConnections, fanout, shutdown
<1>8. CASE ExpirationTimeout(s)
  <2>1. at[s].node \in Nodes
    BY <1>0, <1>8 DEF ExpirationTimeout, TypeInv, TypeOK, UnopenedIsNew, OpenedHasNode
  <2>2. socket' = Closing({s} \cap registry[at[s].node])
        /\ registry' \in [Nodes -> SUBSET Sockets]
        /\ \A n \in Nodes : registry'[n] \subseteq registry[n]
    BY <1>0, <1>8, <2>1, InvalidateType DEF ExpirationTimeout
  <2> QED BY <1>0, <1>8, <2>2, ClosingType, ShrinkType, Kept
         DEF ExpirationTimeout, fanout, shutdown
<1>9. CASE ResolveExpired(s)
  <2>1. at[s].node \in Nodes
    BY <1>0, <1>9 DEF ResolveExpired, TypeInv, OpenedHasNode
  <2>2. socket' = Closing({s} \cap registry[at[s].node])
        /\ registry' \in [Nodes -> SUBSET Sockets]
        /\ \A n \in Nodes : registry'[n] \subseteq registry[n]
    BY <1>0, <1>9, <2>1, InvalidateType DEF ResolveExpired
  <2> QED BY <1>0, <1>9, <2>2, ClosingType, ShrinkType, Kept
         DEF ResolveExpired, fanout, shutdown
<1>10. CASE Closed(s)
  BY <1>0, <1>10, GoneType
     DEF TypeInv, TypeOK, UnopenedIsNew, OpenedHasNode, Closed, fanout, shutdown
<1>11. CASE Dropped(s)
  BY <1>0, <1>11, GoneType
     DEF TypeInv, TypeOK, UnopenedIsNew, OpenedHasNode, Dropped, fanout, shutdown
<1> QED BY <1>1, <1>2, <1>3, <1>4, <1>5, <1>6, <1>7, <1>8, <1>9, <1>10, <1>11 DEF SocketNext

\* The steps of an identity keep the types.
LEMMA UserTypeStep ==
  ASSUME TypeInv, NEW u \in Users, UserNext(u)
  PROVE  TypeInv'
<1>0. TypeOK
  BY DEF TypeInv
<1>L. logout \in [Users -> [stage : LogoutStages, node : Nodes \cup {"none"}]]
  BY <1>0 DEF TypeOK
<1>1. CASE TokenExpires(u)
  BY <1>0, <1>1 DEF TypeInv, TypeOK, UnopenedIsNew, OpenedHasNode, TokenExpires, connections, fanout, shutdown
<1>2. CASE LogoutRequest(u)
  <2>1. PICK n \in Nodes :
          /\ logout' = [logout EXCEPT ![u] = [stage |-> "notifying", node |-> n]]
          /\ Invalidate(n, SessionsOf(n, u))
    BY <1>2 DEF LogoutRequest
  <2>2. logout' \in [Users -> [stage : LogoutStages, node : Nodes \cup {"none"}]]
    BY <1>L, <2>1 DEF LogoutStages
  <2>3. left' \in [opens : Nat, outages : Nat, logouts : Nat, stops : SUBSET Nodes]
    BY <1>0, <1>2, SpendType DEF LogoutRequest
  <2>4. /\ socket' = Closing(SessionsOf(n, u) \cap registry[n])
        /\ registry' \in [Nodes -> SUBSET Sockets]
        /\ \A k \in Nodes : registry'[k] \subseteq registry[k]
    BY <1>0, <2>1, InvalidateType
  <2>5. UNCHANGED <<at, auth, expiring, valid, listener, notes, stage, awaited>>
    BY <1>2 DEF LogoutRequest, fanout, shutdown
  <2>6. /\ listener' \in [Nodes -> ListenerStates]
        /\ notes' \in [Nodes -> SUBSET Users]
        /\ \A k \in Nodes : notes'[k] # {} => listener'[k] = "listening"
        /\ stage' \in [Nodes -> {"serving", "pump", "unlisten", "tails", "closing", "http", "pools", "exited"}]
        /\ awaited' \in [Nodes -> SUBSET Sockets]
        /\ \A k \in Nodes : awaited'[k] \subseteq awaited[k]
    BY <1>0, <2>5 DEF TypeOK
  <2> QED BY <1>0, <2>2, <2>3, <2>4, <2>5, <2>6, ClosingType, ShrinkType, Kept
<1>3. CASE LogoutRefused(u)
  <2>1. [logout[u] EXCEPT !.stage = "refused"] \in [stage : LogoutStages, node : Nodes \cup {"none"}]
    BY <1>L DEF LogoutStages
  <2>2. logout' \in [Users -> [stage : LogoutStages, node : Nodes \cup {"none"}]]
    BY <1>3, <1>L, <2>1 DEF LogoutRefused
  <2> QED BY <1>0, <1>3, <2>2
         DEF TypeInv, TypeOK, UnopenedIsNew, OpenedHasNode, LogoutRefused, connections, fanout, shutdown
<1>4. CASE LogoutNotified(u)
  <2>1. [logout[u] EXCEPT !.stage = "done"] \in [stage : LogoutStages, node : Nodes \cup {"none"}]
    BY <1>L DEF LogoutStages
  <2>2. logout' \in [Users -> [stage : LogoutStages, node : Nodes \cup {"none"}]]
    BY <1>4, <1>L, <2>1 DEF LogoutNotified
  <2>3. /\ notes' \in [Nodes -> SUBSET Users]
        /\ \A n \in Nodes : notes'[n] # {} => listener'[n] = "listening"
    BY <1>0, <1>4 DEF TypeOK, LogoutNotified
  <2> QED BY <1>0, <1>4, <2>2, <2>3
         DEF TypeInv, TypeOK, UnopenedIsNew, OpenedHasNode, LogoutNotified, connections, shutdown
<1>5. ASSUME NEW n \in Nodes, InvalidationArrives(n, u) PROVE TypeInv'
  <2>1. /\ socket' = Closing(SessionsOf(n, u) \cap registry[n])
        /\ registry' \in [Nodes -> SUBSET Sockets]
        /\ \A k \in Nodes : registry'[k] \subseteq registry[k]
    BY <1>0, <1>5, InvalidateType DEF InvalidationArrives
  <2>2. /\ notes' = [notes EXCEPT ![n] = notes[n] \ {u}]
        /\ UNCHANGED <<at, auth, expiring, valid, logout, listener, stage, awaited, left>>
    BY <1>5 DEF InvalidationArrives, shutdown
  <2>3. /\ notes' \in [Nodes -> SUBSET Users]
        /\ \A k \in Nodes : notes'[k] # {} => listener'[k] = "listening"
        /\ listener' \in [Nodes -> ListenerStates]
        /\ logout' \in [Users -> [stage : LogoutStages, node : Nodes \cup {"none"}]]
        /\ stage' \in [Nodes -> {"serving", "pump", "unlisten", "tails", "closing", "http", "pools", "exited"}]
        /\ awaited' \in [Nodes -> SUBSET Sockets]
        /\ \A k \in Nodes : awaited'[k] \subseteq awaited[k]
    BY <1>0, <2>2 DEF TypeOK
  <2> QED BY <1>0, <2>1, <2>2, <2>3, ClosingType, ShrinkType, Kept
<1> QED BY <1>1, <1>2, <1>3, <1>4, <1>5 DEF UserNext

\* The end of a process keeps the types.
LEMMA ExitType ==
  ASSUME TypeInv, NEW n \in Nodes, Exit(n)
  PROVE  TypeInv'
<1> DEFINE own == {s \in Sockets : at[s].node = n}
<1>0. TypeOK
  BY DEF TypeInv
<1>1. /\ Gone(own) /\ UNCHANGED <<at, valid, left>>
      /\ auth' = [s \in Sockets |->
           IF s \in own /\ auth[s] \in {"verifying", "verified"} THEN "refused" ELSE auth[s]]
      /\ registry' = [registry EXCEPT ![n] = {}]
      /\ awaited' = [awaited EXCEPT ![n] = {}]
      /\ notes' = [notes EXCEPT ![n] = {}]
      /\ listener' = [listener EXCEPT ![n] = "stopped"]
      /\ stage' = [stage EXCEPT ![n] = "exited"]
      /\ logout' = [u \in Users |->
           IF logout[u].node = n /\ logout[u].stage = "notifying"
           THEN [logout[u] EXCEPT !.stage = "refused"] ELSE logout[u]]
  BY DEF Exit
<1>2. /\ socket' \in [Sockets -> SocketStates]
      /\ \A s \in Sockets : socket'[s] = "none" => socket[s] = "none"
      /\ \A s \in Sockets : socket'[s] # "none" => socket[s] # "none" \/ at[s].node \in Nodes
      /\ expiring' \subseteq expiring
  BY <1>0, <1>1, GoneType
<1>3. /\ auth' \in [Sockets -> AuthStates]
      /\ \A s \in Sockets : auth[s] = "done" => auth'[s] = "done"
      /\ \A s \in Sockets : socket[s] = "none" => auth'[s] = "no"
  BY <1>0, <1>1 DEF TypeInv, TypeOK, UnopenedIsNew, AuthStates
<1>4. /\ registry' \in [Nodes -> SUBSET Sockets]
      /\ \A k \in Nodes : registry'[k] \subseteq registry[k]
      /\ awaited' \in [Nodes -> SUBSET Sockets]
      /\ \A k \in Nodes : awaited'[k] \subseteq awaited[k]
      /\ notes' \in [Nodes -> SUBSET Users]
      /\ listener' \in [Nodes -> ListenerStates]
      /\ \A k \in Nodes : notes'[k] # {} => listener'[k] = "listening"
      /\ stage' \in [Nodes -> {"serving", "pump", "unlisten", "tails", "closing", "http", "pools", "exited"}]
  BY <1>0, <1>1 DEF TypeOK, ListenerStates
<1>5. logout' \in [Users -> [stage : LogoutStages, node : Nodes \cup {"none"}]]
  <2>1. \A u \in Users : /\ logout[u] \in [stage : LogoutStages, node : Nodes \cup {"none"}]
                         /\ [logout[u] EXCEPT !.stage = "refused"]
                              \in [stage : LogoutStages, node : Nodes \cup {"none"}]
    BY <1>0 DEF TypeOK, LogoutStages
  <2> QED BY <1>1, <2>1
<1>6. /\ valid' \subseteq Users
      /\ left' \in [opens : Nat, outages : Nat, logouts : Nat, stops : SUBSET Nodes]
  BY <1>0, <1>1 DEF TypeOK
<1> QED BY <1>1, <1>2, <1>3, <1>4, <1>5, <1>6, ShrinkType

\* The steps of the LISTEN connection and of shutdown keep the types.
LEMMA NodeTypeStep ==
  ASSUME TypeInv, NEW n \in Nodes, NodeNext(n)
  PROVE  TypeInv'
<1>0. TypeOK
  BY DEF TypeInv
<1>1. CASE ListenerLost(n)
  <2>1. left' \in [opens : Nat, outages : Nat, logouts : Nat, stops : SUBSET Nodes]
    BY <1>0, <1>1, SpendType DEF ListenerLost
  <2> QED BY <1>0, <1>1, <2>1
         DEF TypeInv, TypeOK, UnopenedIsNew, OpenedHasNode, ListenerLost, connections, shutdown, ListenerStates
<1>2. CASE ListenerReconnects(n)
  BY <1>2 DEF TypeInv, TypeOK, UnopenedIsNew, OpenedHasNode, ListenerReconnects, connections, shutdown, ListenerStates
<1>3. CASE ListenerConnected(n)
  BY <1>3 DEF TypeInv, TypeOK, UnopenedIsNew, OpenedHasNode, ListenerConnected, connections, shutdown, ListenerStates
<1>4. CASE ListenerConnectFails(n)
  <2>1. left' \in [opens : Nat, outages : Nat, logouts : Nat, stops : SUBSET Nodes]
    BY <1>0, <1>4, SpendType DEF ListenerConnectFails
  <2> QED BY <1>0, <1>4, <2>1
         DEF TypeInv, TypeOK, UnopenedIsNew, OpenedHasNode, ListenerConnectFails, connections, shutdown, ListenerStates
<1>5. CASE ListenerReady(n)
  BY <1>5 DEF TypeInv, TypeOK, UnopenedIsNew, OpenedHasNode, ListenerReady, connections, shutdown, ListenerStates
<1>6. CASE StopNode(n)
  <2>1. /\ left' = [left EXCEPT !.stops = left.stops \ {n}]
        /\ left \in [opens : Nat, outages : Nat, logouts : Nat, stops : SUBSET Nodes]
    BY <1>0, <1>6 DEF StopNode, TypeOK
  <2>2. left' \in [opens : Nat, outages : Nat, logouts : Nat, stops : SUBSET Nodes]
    BY <2>1
  <2> QED BY <1>0, <1>6, <2>2
         DEF TypeInv, TypeOK, UnopenedIsNew, OpenedHasNode, StopNode, connections, fanout
<1>7. \A s \in Handling(n) : s \in Sockets /\ at[s].node = n /\ socket[s] # "none"
  BY DEF Handling, Connected
<1>8. CASE PumpDrained(n)
  <2>1. CASE listener[n] \in {"preparing", "listening"}
    BY <1>0, <1>8, <2>1
       DEF TypeInv, TypeOK, UnopenedIsNew, OpenedHasNode, PumpDrained, connections
  <2>2. CASE listener[n] \notin {"preparing", "listening"}
    <3>1. /\ stage' = [stage EXCEPT ![n] = "tails"]
          /\ awaited' = [awaited EXCEPT ![n] = Handling(n)]
          /\ listener' = [listener EXCEPT ![n] = IF listener[n] = "connecting" THEN listener[n] ELSE "stopped"]
          /\ UNCHANGED <<socket, at, auth, expiring, registry, valid, logout, notes, left>>
      BY <1>8, <2>2 DEF PumpDrained, connections
    <3>2. /\ listener' \in [Nodes -> ListenerStates]
          /\ \A k \in Nodes : notes'[k] # {} => listener'[k] = "listening"
      BY <1>0, <2>2, <3>1 DEF TypeOK, ListenerStates
    <3> QED BY <1>0, <1>7, <3>1, <3>2 DEF TypeInv, TypeOK, UnopenedIsNew, OpenedHasNode
  <2> QED BY <2>1, <2>2
<1>9. CASE Unlistened(n)
  BY <1>0, <1>7, <1>9
     DEF TypeInv, TypeOK, UnopenedIsNew, OpenedHasNode, Unlistened, connections, ListenerStates
<1>10. CASE ShutdownFails(n)
  BY <1>10, ExitType DEF ShutdownFails
<1>11. CASE TailsEnded(n)
  <2>1. /\ awaited' = [awaited EXCEPT ![n] = {}] /\ stage' = [stage EXCEPT ![n] = "closing"]
        /\ UNCHANGED <<at, auth, expiring, registry, valid, logout, listener, notes, left>>
        /\ socket' = Closing(Connected(n))
    BY <1>11 DEF TailsEnded, fanout
  <2>2. /\ awaited' \in [Nodes -> SUBSET Sockets]
        /\ \A k \in Nodes : awaited'[k] \subseteq awaited[k]
        /\ stage' \in [Nodes -> {"serving", "pump", "unlisten", "tails", "closing", "http", "pools", "exited"}]
        /\ logout' \in [Users -> [stage : LogoutStages, node : Nodes \cup {"none"}]]
        /\ listener' \in [Nodes -> ListenerStates]
        /\ notes' \in [Nodes -> SUBSET Users]
        /\ \A k \in Nodes : notes'[k] # {} => listener'[k] = "listening"
    BY <1>0, <2>1 DEF TypeOK
  <2> QED BY <1>0, <2>1, <2>2, ClosingType, ShrinkType, Kept
<1>12. CASE SocketsEnded(n)
  <2>1. stage' \in [Nodes -> {"serving", "pump", "unlisten", "tails", "closing", "http", "pools", "exited"}]
    BY <1>0, <1>12 DEF SocketsEnded, TypeOK
  <2>2. /\ Gone(Connected(n))
        /\ UNCHANGED <<at, auth, registry, valid, logout, listener, notes, awaited, left>>
    BY <1>12 DEF SocketsEnded, fanout
  <2>3. \A s \in Connected(n) : at[s].node \in Nodes
    BY DEF Connected
  <2>4. /\ awaited' \in [Nodes -> SUBSET Sockets]
        /\ \A k \in Nodes : awaited'[k] \subseteq awaited[k]
        /\ logout' \in [Users -> [stage : LogoutStages, node : Nodes \cup {"none"}]]
        /\ listener' \in [Nodes -> ListenerStates]
        /\ notes' \in [Nodes -> SUBSET Users]
        /\ \A k \in Nodes : notes'[k] # {} => listener'[k] = "listening"
    BY <1>0, <2>2 DEF TypeOK
  <2>5. /\ socket' \in [Sockets -> SocketStates]
        /\ \A s \in Sockets : socket'[s] = "none" => socket[s] = "none"
        /\ \A s \in Sockets : socket'[s] # "none" => socket[s] # "none" \/ at[s].node \in Nodes
        /\ expiring' \subseteq expiring
    BY <1>0, <2>2, <2>3, GoneType
  <2> QED BY <2>1, <2>2, <2>4, <2>5, ShrinkType, Kept
<1>13. CASE HttpClosed(n)
  BY <1>0, <1>13 DEF TypeInv, TypeOK, UnopenedIsNew, OpenedHasNode, HttpClosed, connections, fanout
<1>14. CASE PoolsEnded(n)
  BY <1>14, ExitType DEF PoolsEnded
<1> QED BY <1>1, <1>2, <1>3, <1>4, <1>5, <1>6, <1>8, <1>9, <1>10, <1>11, <1>12, <1>13, <1>14
      DEF NodeNext

\* Every step keeps the types.
LEMMA TypeStep == TypeInv /\ [Next]_vars => TypeInv'
<1> SUFFICES ASSUME TypeInv, [Next]_vars PROVE TypeInv'
  OBVIOUS
<1>1. CASE UNCHANGED vars
  BY <1>1 DEF TypeInv, TypeOK, UnopenedIsNew, OpenedHasNode, vars
<1>2. CASE Next
  BY <1>2, SocketTypeStep, UserTypeStep, NodeTypeStep DEF Next
<1> QED BY <1>1, <1>2

\* Every variable keeps its type: a registry holds sessions created on its own
\* node, a timer runs for a session only, a shutdown waits for its own
\* connections, and nothing is on its way to a node that does not LISTEN
\* (realtime-server.ts, productive-authn.ts, realtime-postgres.ts, index.ts).
THEOREM TypeCorrect == Spec => []TypeOK
<1>1. Spec => []TypeInv
  BY TypeInit, TypeStep, PTL DEF Spec
<1>2. TypeInv => TypeOK
  BY DEF TypeInv
<1> QED BY <1>1, <1>2, PTL

-------------------------------------------------------------------------------
(* Entitlement.                                                            *)

\* The connections that count: authenticated ones that have not ended.
Settled(s) == socket[s] \in {"open", "closing"} /\ auth[s] = "done"

\* No connection becomes authenticated: those that remain so were so before, at
\* the same place, and one that stays open keeps its session.
NoneAdded ==
  \A s \in Sockets : Settled(s)' =>
    /\ Settled(s) /\ at'[s] = at[s]
    /\ socket'[s] = "open" =>
         /\ socket[s] = "open"
         /\ s \in registry[at[s].node] => s \in registry'[at[s].node]

\* A connection is closed before or with its session's end.
LEMMA InvalidateAddsNone ==
  ASSUME TypeInv, NEW n \in Nodes, NEW S, Invalidate(n, S), UNCHANGED <<at, auth>>
  PROVE  NoneAdded
<1>1. TypeOK
  BY DEF TypeInv
<1>2. /\ \A s \in Sockets : socket'[s] = "open" <=> socket[s] = "open" /\ s \notin S \cap registry[n]
      /\ \A s \in Sockets : socket'[s] \in {"open", "closing"} <=> socket[s] \in {"open", "closing"}
  <2>1. socket' = Closing(S \cap registry[n])
    BY <1>1, InvalidateType
  <2>2. ASSUME NEW s \in Sockets
        PROVE  socket'[s] = IF s \in S \cap registry[n] /\ socket[s] = "open" THEN "closing"
                            ELSE socket[s]
    BY <2>1 DEF Closing
  <2> QED BY <2>2
<1>3. /\ registry'[n] = registry[n] \ S
      /\ \A k \in Nodes : k # n => registry'[k] = registry[k]
  BY <1>1, InvalidateType
<1>4. \A s \in Sockets : Settled(s)' => socket[s] # "none" /\ at[s].node \in Nodes
  BY <1>2 DEF Settled, TypeInv, OpenedHasNode
<1> QED BY <1>2, <1>3, <1>4 DEF NoneAdded, Settled

\* Closing connections adds none, when no connection becomes authenticated.
LEMMA ClosingAddsNone ==
  ASSUME TypeInv, NEW S, socket' = Closing(S), UNCHANGED <<at, registry>>,
         \A s \in Sockets : auth'[s] = "done" => auth[s] = "done"
  PROVE  NoneAdded
BY ClosingType DEF TypeInv, NoneAdded, Settled

\* Nor does ending them.
LEMMA GoneAddsNone ==
  ASSUME TypeInv, NEW S, Gone(S), UNCHANGED at,
         \A s \in Sockets : auth'[s] = "done" => auth[s] = "done",
         \A s \in Sockets : s \notin S /\ s \in registry[at[s].node] => s \in registry'[at[s].node]
  PROVE  NoneAdded
BY GoneType DEF TypeInv, NoneAdded, Settled

\* Nor does a step that leaves connections and registries alone.
LEMMA UnchangedAddsNone ==
  ASSUME UNCHANGED <<socket, at, auth, registry>>
  PROVE  NoneAdded
BY DEF NoneAdded, Settled

\* Every step of a connection but the creation of its session adds none.
LEMMA SocketAddsNone ==
  ASSUME TypeInv, NEW s \in Sockets, SocketNext(s), ~CreateSession(s)
  PROVE  NoneAdded
<1>0. TypeOK /\ auth \in [Sockets -> AuthStates]
  BY DEF TypeInv, TypeOK
<1>1. CASE Open(s)
  <2>1. auth[s] = "no" /\ auth' = auth /\ registry' = registry
    BY <1>1 DEF Open, TypeInv, UnopenedIsNew
  <2>2. \A t \in Sockets : t # s => socket'[t] = socket[t] /\ at'[t] = at[t]
    BY <1>0, <1>1 DEF Open, TypeOK
  <2> QED BY <2>1, <2>2 DEF NoneAdded, Settled
<1>2. CASE AuthenticationTimeout(s)
  BY <1>2, ClosingAddsNone DEF AuthenticationTimeout
<1>3. CASE Authenticate(s)
  <2>1. \A t \in Sockets : auth'[t] = "done" => auth[t] = "done"
    BY <1>0, <1>3 DEF Authenticate
  <2> QED BY <1>3, <2>1 DEF Authenticate, NoneAdded, Settled
<1>4. CASE PolicyRejected(s)
  BY <1>4, ClosingAddsNone DEF PolicyRejected
<1>5. CASE Verified(s)
  <2>1. \A t \in Sockets : auth'[t] = "done" => auth[t] = "done"
    BY <1>0, <1>5 DEF Verified
  <2>2. UNCHANGED <<at, registry>>
    BY <1>5 DEF Verified
  <2>3. socket' = Closing({s}) \/ socket' = socket
    BY <1>5 DEF Verified
  <2>4. CASE socket' = socket
    BY <2>1, <2>2, <2>4 DEF NoneAdded, Settled
  <2> QED BY <2>1, <2>2, <2>3, <2>4, ClosingAddsNone
<1>6. CASE TooManyConnections(s)
  <2>1. \A t \in Sockets : auth'[t] = "done" => auth[t] = "done"
    BY <1>0, <1>6 DEF TooManyConnections
  <2> QED BY <1>6, <2>1, ClosingAddsNone DEF TooManyConnections
<1>7. CASE ExpirationTimeout(s)
  <2>1. at[s].node \in Nodes
    BY <1>7 DEF ExpirationTimeout, TypeInv, TypeOK, UnopenedIsNew, OpenedHasNode
  <2> QED BY <1>7, <2>1, InvalidateAddsNone DEF ExpirationTimeout
<1>8. CASE ResolveExpired(s)
  <2>1. at[s].node \in Nodes
    BY <1>8 DEF ResolveExpired, TypeInv, OpenedHasNode
  <2> QED BY <1>8, <2>1, InvalidateAddsNone DEF ResolveExpired
<1>9. CASE Closed(s)
  BY <1>9, GoneAddsNone DEF Closed
<1>10. CASE Dropped(s)
  BY <1>10, GoneAddsNone DEF Dropped
<1> QED BY <1>1, <1>2, <1>3, <1>4, <1>5, <1>6, <1>7, <1>8, <1>9, <1>10 DEF SocketNext

\* No step of an identity's logout does.
LEMMA UserAddsNone ==
  ASSUME TypeInv, NEW u \in Users, UserNext(u)
  PROVE  NoneAdded
<1>1. CASE TokenExpires(u)
  BY <1>1, UnchangedAddsNone DEF TokenExpires, connections
<1>2. CASE LogoutRequest(u)
  BY <1>2, InvalidateAddsNone DEF LogoutRequest
<1>3. CASE LogoutRefused(u)
  BY <1>3, UnchangedAddsNone DEF LogoutRefused, connections
<1>4. CASE LogoutNotified(u)
  BY <1>4, UnchangedAddsNone DEF LogoutNotified, connections
<1>5. ASSUME NEW n \in Nodes, InvalidationArrives(n, u) PROVE NoneAdded
  BY <1>5, InvalidateAddsNone DEF InvalidationArrives
<1> QED BY <1>1, <1>2, <1>3, <1>4, <1>5 DEF UserNext

\* The end of a process ends its own connections with its registry.
LEMMA ExitAddsNone ==
  ASSUME TypeInv, NEW n \in Nodes, Exit(n)
  PROVE  NoneAdded
<1> DEFINE own == {s \in Sockets : at[s].node = n}
<1>1. /\ Gone(own) /\ UNCHANGED at
      /\ auth' = [s \in Sockets |->
           IF s \in own /\ auth[s] \in {"verifying", "verified"} THEN "refused" ELSE auth[s]]
      /\ registry' = [registry EXCEPT ![n] = {}]
  BY DEF Exit
<1>2. \A s \in Sockets : auth'[s] = "done" => auth[s] = "done"
  BY <1>1
<1>3. \A s \in Sockets : s \notin own /\ s \in registry[at[s].node] => s \in registry'[at[s].node]
  BY <1>1 DEF TypeInv, TypeOK
<1> QED BY <1>1, <1>2, <1>3, GoneAddsNone

\* No step of the LISTEN connection or of shutdown does.
LEMMA NodeAddsNone ==
  ASSUME TypeInv, NEW n \in Nodes, NodeNext(n)
  PROVE  NoneAdded
<1>1. CASE TailsEnded(n)
  BY <1>1, ClosingAddsNone DEF TailsEnded
<1>2. CASE SocketsEnded(n)
  BY <1>2, GoneAddsNone DEF SocketsEnded
<1>3. CASE ShutdownFails(n) \/ PoolsEnded(n)
  BY <1>3, ExitAddsNone DEF ShutdownFails, PoolsEnded
<1>4. CASE UNCHANGED <<socket, at, auth, registry>>
  BY <1>4, UnchangedAddsNone
<1> QED BY <1>1, <1>2, <1>3, <1>4
      DEF NodeNext, ListenerLost, ListenerReconnects, ListenerConnected, ListenerConnectFails,
          ListenerReady, StopNode, PumpDrained, Unlistened, HttpClosed, connections

\* A set of connections is finite, and a part of it is no larger.
LEMMA FewerConnections ==
  ASSUME NEW S \in SUBSET Sockets, NEW R, R \subseteq S,
         Cardinality(S) <= MaxPerSession
  PROVE  Cardinality(R) <= MaxPerSession
<1>1. IsFiniteSet(S)
  BY FS_Subset
<1>2. IsFiniteSet(R) /\ Cardinality(R) <= Cardinality(S)
  BY <1>1, FS_Subset
<1>3. Cardinality(S) \in Nat /\ Cardinality(R) \in Nat
  BY <1>1, <1>2, FS_CardinalityType
<1> QED BY <1>2, <1>3

\* A step that adds none keeps the entitlement.
LEMMA NoneAddedEntitled ==
  ASSUME OpenHasSession, WithinLimit, NoneAdded
  PROVE  OpenHasSession' /\ WithinLimit'
<1>1. OpenHasSession'
  BY DEF OpenHasSession, NoneAdded, Settled
<1>2. ASSUME NEW n \in Nodes, NEW u \in Users
      PROVE  Cardinality(ActiveForSubject(n, u))' <= MaxPerSession
  <2>1. /\ ActiveForSubject(n, u) \in SUBSET Sockets
        /\ ActiveForSubject(n, u)' \subseteq ActiveForSubject(n, u)
    BY DEF ActiveForSubject, Connected, NoneAdded, Settled
  <2>2. Cardinality(ActiveForSubject(n, u)) <= MaxPerSession
    BY DEF WithinLimit
  <2> QED BY <2>1, <2>2, FewerConnections
<1> QED BY <1>1, <1>2 DEF WithinLimit

\* The session that is created was within the limit, counted in the same turn.
LEMMA CreationEntitled ==
  ASSUME EntitledInv, NEW s \in Sockets, CreateSession(s)
  PROVE  OpenHasSession' /\ WithinLimit'
<1> DEFINE k == at[s].node
<1>0. TypeOK /\ auth \in [Sockets -> AuthStates] /\ registry \in [Nodes -> SUBSET Sockets]
  BY DEF EntitledInv, TypeInv, TypeOK
<1>1. k \in Nodes
  BY DEF EntitledInv, TypeInv, UnopenedIsNew, OpenedHasNode, CreateSession
<1>2. /\ at' = at /\ auth' = [auth EXCEPT ![s] = "done"] /\ auth[s] = "verified"
      /\ \/ socket' = socket /\ registry' = [registry EXCEPT ![k] = registry[k] \cup {s}]
         \/ socket' = Closing({s}) /\ registry' = registry
  BY DEF CreateSession
<1>3. \A t \in Sockets :
        /\ socket'[t] = "open" => socket[t] = "open"
        /\ socket'[t] \in {"open", "closing"} => socket[t] \in {"open", "closing"}
        /\ t # s => auth'[t] = auth[t]
  BY <1>0, <1>2, ClosingType
<1>4. OpenHasSession'
  <2>1. CASE socket' = socket /\ registry' = [registry EXCEPT ![k] = registry[k] \cup {s}]
    BY <1>0, <1>1, <1>2, <1>3, <2>1 DEF OpenHasSession, EntitledInv
  <2>2. CASE socket' = Closing({s}) /\ registry' = registry
    <3>1. socket'[s] # "open"
      BY <2>2 DEF Closing
    <3> QED BY <1>2, <1>3, <2>2, <3>1 DEF OpenHasSession, EntitledInv
  <2> QED BY <1>2, <2>1, <2>2
<1>5. ASSUME NEW n \in Nodes, NEW u \in Users
      PROVE  Cardinality(ActiveForSubject(n, u))' <= MaxPerSession
  <2> DEFINE A == ActiveForSubject(n, u)
             B == ActiveForSubject(n, u)'
  <2>1. A \in SUBSET Sockets /\ IsFiniteSet(A) /\ Cardinality(A) \in Nat
    <3>1. A \in SUBSET Sockets
      BY DEF ActiveForSubject, Connected
    <3> QED BY <3>1, FS_Subset, FS_CardinalityType
  <2>2. Cardinality(A) <= MaxPerSession
    BY DEF EntitledInv, WithinLimit
  <2>3. CASE n = k /\ u = at[s].user
    <3>1. Cardinality(A) < MaxPerSession
      BY <2>1, <2>3 DEF CreateSession, AtLimit
    <3>2. B \subseteq A \cup {s}
      BY <1>2, <1>3 DEF ActiveForSubject, Connected
    <3>3. s \notin A
      BY <1>2 DEF ActiveForSubject
    <3>4. IsFiniteSet(A \cup {s}) /\ Cardinality(A \cup {s}) = Cardinality(A) + 1
      BY <2>1, <3>3, FS_AddElement
    <3>5. Cardinality(A \cup {s}) <= MaxPerSession
      BY <2>1, <3>1, <3>4
    <3>6. A \cup {s} \in SUBSET Sockets
      BY <2>1
    <3> HIDE DEF A, B
    <3> QED BY <3>2, <3>5, <3>6, FewerConnections DEF B
  <2>4. CASE ~(n = k /\ u = at[s].user)
    <3>1. B \subseteq A
      BY <1>2, <1>3, <2>4 DEF ActiveForSubject, Connected
    <3> HIDE DEF A, B
    <3> QED BY <2>1, <2>2, <3>1, FewerConnections DEF B
  <2> QED BY <2>3, <2>4
<1> QED BY <1>4, <1>5 DEF WithinLimit

\* Every step keeps the connections entitled.
LEMMA EntitledStep == EntitledInv /\ [Next]_vars => EntitledInv'
<1> SUFFICES ASSUME EntitledInv, [Next]_vars PROVE EntitledInv'
  OBVIOUS
<1>1. TypeInv /\ OpenHasSession /\ WithinLimit
  BY DEF EntitledInv
<1>2. TypeInv'
  BY <1>1, TypeStep
<1>3. NoneAdded \/ \E s \in Sockets : CreateSession(s)
  <2>1. CASE UNCHANGED vars
    BY <2>1, UnchangedAddsNone DEF vars
  <2>2. CASE Next
    BY <1>1, <2>2, SocketAddsNone, UserAddsNone, NodeAddsNone DEF Next
  <2> QED BY <2>1, <2>2
<1>4. OpenHasSession' /\ WithinLimit'
  BY <1>1, <1>3, NoneAddedEntitled, CreationEntitled
<1> QED BY <1>2, <1>4 DEF EntitledInv

\* An open connection that was authenticated has its session in the registry of
\* its node, however logouts, expirations, outages and shutdowns fall between
\* the verification of its token and the creation of the session, and no
\* identity has more connections on a node than the limit
\* (realtime-server.ts:406).
THEOREM Entitled == Spec => []SocketsAreEntitled
<1>1. Init => EntitledInv
  <2> SUFFICES ASSUME Init PROVE EntitledInv
    OBVIOUS
  <2>1. OpenHasSession
    BY DEF Init, OpenHasSession
  <2>2. ASSUME NEW n \in Nodes, NEW u \in Users
        PROVE  Cardinality(ActiveForSubject(n, u)) <= MaxPerSession
    <3>1. ActiveForSubject(n, u) = {}
      BY DEF Init, ActiveForSubject, Connected
    <3> QED BY <3>1, FS_EmptySet
  <2> QED BY <2>1, <2>2, TypeInit DEF EntitledInv, WithinLimit
<1>2. EntitledInv => SocketsAreEntitled
  BY DEF EntitledInv, OpenHasSession, WithinLimit, SocketsAreEntitled
<1> QED BY <1>1, <1>2, EntitledStep, PTL DEF Spec

===============================================================================
