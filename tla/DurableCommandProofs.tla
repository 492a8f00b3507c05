------------------------- MODULE DurableCommandProofs -------------------------
(***************************************************************************)
(* Theorems about DurableCommand, for every set of nodes, calls, keys and  *)
(* fingerprints, every range of the die and every bound on faults and      *)
(* overrides: types, the unbroken chain of events, the agreement of the    *)
(* durable families, the account of random values, the block of a game and *)
(* the implementation of CommandLog.                                       *)
(***************************************************************************)
EXTENDS DurableCommand, SequenceTheorems, TLAPS

USE OverrideAssumption, FacesAssumption, BoundsAssumption
    DEF OverrideAssumption, FacesAssumption, BoundsAssumption

\* The record of a call between Submit and its answer.
ActiveCalls ==
  [pc : Stages, node : Nodes, key : Keys, print : Prints, expected : Nat,
   row : Nat, before : States, draw : Draws, checkpoint : Nat]

AnsweredCalls == [pc : {"done"}, key : Keys, print : Prints, reply : Replies]

\* A call in flight waits in the promise chain of its node, and one whose turn
\* has come is the chain's head until it answers.
QueuesServe ==
  \A c \in Calls : InFlight(c) =>
    /\ \E i \in DOMAIN writers[NodeOf(c)] : writers[NodeOf(c)][i] = c
    /\ ~At(c, "queued") => Head(writers[NodeOf(c)]) = c

TypeInv == TypeOK /\ QueuesServe

-------------------------------------------------------------------------------
(* Types.                                                                  *)

\* A call in flight is a full record.
LEMMA ActiveCall ==
  ASSUME TypeOK, NEW c \in Calls, InFlight(c)
  PROVE  /\ call[c] \in ActiveCalls
         /\ NodeOf(c) \in Nodes /\ call[c].key \in Keys /\ call[c].print \in Prints
         /\ call[c].expected \in Nat /\ call[c].row \in Nat
         /\ call[c].before \in States /\ call[c].draw \in Draws
         /\ call[c].checkpoint \in Nat /\ call[c].pc \in Stages
<1>1. call[c] \in CallStates
  BY DEF TypeOK
<1>2. call[c] \in ActiveCalls
  BY <1>1 DEF CallStates, IdleCall, ActiveCalls, InFlight
<1> QED BY <1>2 DEF ActiveCalls, NodeOf

\* The control states of calls in flight.
LEMMA StageInFlight ==
  ASSUME NEW c \in Calls, call[c].pc \in Stages
  PROVE  InFlight(c)
BY DEF InFlight, Stages

\* A step of a call in flight keeps it a call.
LEMMA GotoType ==
  ASSUME TypeOK, NEW c \in Calls, InFlight(c), NEW pc \in Stages, Goto(c, pc)
  PROVE  call' \in [Calls -> CallStates]
<1>1. [call[c] EXCEPT !.pc = pc] \in ActiveCalls
  BY ActiveCall DEF ActiveCalls
<1>2. call' = [call EXCEPT ![c] = [call[c] EXCEPT !.pc = pc]]
  BY DEF Goto
<1> QED BY <1>1, <1>2 DEF TypeOK, CallStates, ActiveCalls

\* An answer keeps the calls and the promise chains typed.
LEMMA AnswerType ==
  ASSUME TypeInv, NEW c \in Calls, InFlight(c), NEW r \in Replies, Answer(c, r)
  PROVE  /\ call' \in [Calls -> CallStates]
         /\ writers' \in [Nodes -> Seq(Calls)]
<1>1. /\ NodeOf(c) \in Nodes /\ call[c].key \in Keys /\ call[c].print \in Prints
      /\ TypeOK
  BY ActiveCall DEF TypeInv
<1>2. [pc |-> "done", key |-> call[c].key, print |-> call[c].print, reply |-> r]
        \in CallStates
  BY <1>1 DEF CallStates
<1>3. writers[NodeOf(c)] \in Seq(Calls) /\ writers[NodeOf(c)] # <<>>
  BY <1>1 DEF TypeOK, TypeInv, QueuesServe
<1>4. Tail(writers[NodeOf(c)]) \in Seq(Calls)
  BY <1>3
<1> QED BY <1>1, <1>2, <1>4 DEF Answer, TypeOK

\* Replies.
LEMMA RefusalReply ==
  ASSUME NEW s \in Refusals
  PROVE  [status |-> s] \in Replies
BY DEF Replies

\* What a finished call is answered with.
LEMMA ResolvedReply ==
  ASSUME NEW r \in Results
  PROVE  [status |-> "RESOLVED", result |-> r] \in Replies
BY DEF Replies

\* The state of a version and the result of a call are typed.
LEMMA OwnResultType ==
  ASSUME TypeOK, NEW c \in Calls, InFlight(c)
  PROVE  OwnResult(c) \in Results
<1>1. call[c].before \in States /\ call[c].draw \in Draws
  BY ActiveCall
<1>2. Len(call[c].before) \in Nat
  BY <1>1 DEF States
<1> QED BY <1>1, <1>2 DEF OwnResult, Results, VersionOf

\* The effect of a command of its own is an effect.
LEMMA OwnEffectType ==
  ASSUME TypeOK, NEW c \in Calls, InFlight(c)
  PROVE  OwnEffect(c) \in Effects
BY ActiveCall DEF OwnEffect, Effects, Effect

\* The replayed state is a state.
LEMMA ReplayedType ==
  ASSUME TypeOK
  PROVE  Replayed \in States
<1>1. CASE events = <<>>
  BY <1>1 DEF Replayed, States
<1>2. CASE events # <<>>
  <2>1. Len(events) \in 1 .. Len(events)
    BY <1>2 DEF TypeOK
  <2>2. events[Len(events)] \in [effect : Effects, after : States]
    BY <2>1, ElementOfSeq DEF TypeOK
  <2> QED BY <1>2, <2>2 DEF Replayed
<1> QED BY <1>1, <1>2

\* Restoring the random cursor keeps the providers typed.
LEMMA RestoreType ==
  ASSUME TypeOK, NEW c \in Calls, InFlight(c), RestoreRandom(c)
  PROVE  rng' \in [Nodes -> [values : Seq(Draws), cursor : Nat]]
<1>1. NodeOf(c) \in Nodes /\ call[c].checkpoint \in Nat
  BY ActiveCall
<1>2. rng[NodeOf(c)] \in [values : Seq(Draws), cursor : Nat]
  BY <1>1 DEF TypeOK
<1>3. [rng[NodeOf(c)] EXCEPT !.cursor = call[c].checkpoint]
        \in [values : Seq(Draws), cursor : Nat]
  BY <1>1, <1>2
<1>4. rng' = [rng EXCEPT ![NodeOf(c)] = [rng[NodeOf(c)] EXCEPT !.cursor = call[c].checkpoint]]
  BY DEF RestoreRandom
<1> QED BY <1>3, <1>4 DEF TypeOK

\* What Apply writes is typed.
LEMMA ApplyType ==
  ASSUME TypeOK, NEW s \in States, NEW e \in Effects, Apply(s, e)
  PROVE  /\ game' \in [version : Nat, eventHead : Nat, outboxHead : Nat,
                       state : States, blocked : BOOLEAN]
         /\ events' \in Seq([effect : Effects, after : States])
         /\ outbox' \in Seq(Nat)
<1> DEFINE after == Append(s, e)
<1>1. after \in States /\ VersionOf(after) \in Nat
  BY DEF States, VersionOf
<1>2. game' = [game EXCEPT !.version = VersionOf(after), !.state = after,
                           !.eventHead = @ + 1, !.outboxHead = @ + 1]
  BY DEF Apply
<1> HIDE DEF after
<1>3. game' \in [version : Nat, eventHead : Nat, outboxHead : Nat,
                 state : States, blocked : BOOLEAN]
  <2>1. game.eventHead + 1 \in Nat /\ game.outboxHead + 1 \in Nat
    BY DEF TypeOK
  <2>2. [[[[game EXCEPT !.version = VersionOf(after)] EXCEPT !.state = after]
            EXCEPT !.eventHead = game.eventHead + 1] EXCEPT !.outboxHead = game.outboxHead + 1]
          \in [version : Nat, eventHead : Nat, outboxHead : Nat,
               state : States, blocked : BOOLEAN]
    BY <1>1, <2>1 DEF TypeOK
  <2> QED BY <1>2, <2>2
<1>4. events' = Append(events, [effect |-> e, after |-> after])
  BY DEF Apply, after
<1>5. events' \in Seq([effect : Effects, after : States])
  BY <1>1, <1>4 DEF TypeOK
<1>6. outbox' \in Seq(Nat)
  BY DEF Apply, TypeOK
<1> QED BY <1>3, <1>5, <1>6

\* The head of a promise chain answers: it leaves the chain, the others stay.
LEMMA AnswerServes ==
  ASSUME TypeInv, NEW c \in Calls, InFlight(c), Head(writers[NodeOf(c)]) = c,
         NEW r, Answer(c, r)
  PROVE  QueuesServe'
<1> DEFINE n == NodeOf(c)
           q == writers[n]
<1>1. n \in Nodes /\ q \in Seq(Calls) /\ q # <<>>
  BY ActiveCall DEF TypeInv, TypeOK, QueuesServe
<1>2. writers' = [writers EXCEPT ![n] = Tail(q)]
  BY DEF Answer
<1>3. /\ Tail(q) \in Seq(Calls) /\ Len(q) \in Nat /\ Len(Tail(q)) = Len(q) - 1
      /\ DOMAIN q = 1 .. Len(q) /\ DOMAIN Tail(q) = 1 .. Len(Tail(q))
      /\ \A i \in 1 .. Len(Tail(q)) : Tail(q)[i] = q[i + 1]
      /\ Head(q) = q[1]
  BY <1>1, HeadTailProperties, LenProperties
<1> SUFFICES ASSUME NEW d \in Calls, InFlight(d)'
             PROVE  /\ \E i \in DOMAIN writers'[NodeOf(d)'] : writers'[NodeOf(d)'][i] = d
                    /\ call'[d].pc # "queued" => Head(writers'[NodeOf(d)']) = d
  BY DEF QueuesServe, At
<1>4. d # c /\ call'[d] = call[d]
  BY DEF Answer, TypeInv, TypeOK, InFlight
<1>5. InFlight(d) /\ NodeOf(d)' = NodeOf(d) /\ NodeOf(d) \in Nodes
  BY <1>4, ActiveCall DEF InFlight, NodeOf, TypeInv
<1>6. PICK i \in DOMAIN writers[NodeOf(d)] : writers[NodeOf(d)][i] = d
  BY <1>5 DEF TypeInv, QueuesServe
<1>7. CASE NodeOf(d) = n
  <2>1. i # 1
    BY <1>3, <1>4, <1>6, <1>7
  <2>2. i - 1 \in 1 .. Len(Tail(q)) /\ Tail(q)[i - 1] = d
    BY <1>3, <1>6, <1>7, <2>1
  <2>3. writers'[NodeOf(d)'] = Tail(q)
    BY <1>1, <1>2, <1>5, <1>7 DEF TypeInv, TypeOK
  <2>4. call[d].pc = "queued"
    BY <1>4, <1>5, <1>7 DEF TypeInv, QueuesServe, At
  <2> QED BY <1>3, <1>4, <2>2, <2>3, <2>4
<1>8. CASE NodeOf(d) # n
  <2>1. writers'[NodeOf(d)'] = writers[NodeOf(d)]
    BY <1>2, <1>5, <1>8 DEF TypeInv, TypeOK
  <2> QED BY <1>4, <1>5, <1>6, <2>1 DEF TypeInv, QueuesServe, At
<1> QED BY <1>7, <1>8

\* The head of a promise chain moves on: the chains stay as they are.
LEMMA MoveServes ==
  ASSUME TypeInv, NEW c \in Calls, InFlight(c), Head(writers[NodeOf(c)]) = c,
         call'[c].node = call[c].node,
         \A d \in Calls \ {c} : call'[d] = call[d],
         UNCHANGED writers
  PROVE  QueuesServe'
<1> SUFFICES ASSUME NEW d \in Calls, InFlight(d)'
             PROVE  /\ \E i \in DOMAIN writers[NodeOf(d)'] : writers[NodeOf(d)'][i] = d
                    /\ call'[d].pc # "queued" => Head(writers[NodeOf(d)']) = d
  BY DEF QueuesServe, At
<1>1. CASE d = c
  BY <1>1 DEF TypeInv, QueuesServe, NodeOf
<1>2. CASE d # c
  BY <1>2 DEF TypeInv, QueuesServe, NodeOf, At, InFlight
<1> QED BY <1>1, <1>2

\* A new call joins the end of the chain.
LEMMA SubmitServes ==
  ASSUME TypeInv, NEW c \in Calls, NEW n \in Nodes, NEW k \in Keys, NEW p \in Prints,
         NEW v \in 1 .. game.version, Submit(c, n, k, p, v)
  PROVE  QueuesServe'
<1> DEFINE q == writers[n]
<1>1. q \in Seq(Calls) /\ writers' = [writers EXCEPT ![n] = Append(q, c)]
  BY DEF TypeInv, TypeOK, Submit
<1>2. /\ DOMAIN q = 1 .. Len(q) /\ Len(q) \in Nat
      /\ DOMAIN Append(q, c) = 1 .. (Len(q) + 1)
      /\ Append(q, c)[Len(q) + 1] = c
      /\ \A i \in 1 .. Len(q) : Append(q, c)[i] = q[i]
      /\ q # <<>> => Head(Append(q, c)) = Head(q)
  BY <1>1, AppendProperties, LenProperties
<1> SUFFICES ASSUME NEW d \in Calls, InFlight(d)'
             PROVE  /\ \E i \in DOMAIN writers'[NodeOf(d)'] : writers'[NodeOf(d)'][i] = d
                    /\ call'[d].pc # "queued" => Head(writers'[NodeOf(d)']) = d
  BY DEF QueuesServe, At
<1>3. CASE d = c
  <2>1. call'[d].node = n /\ call'[d].pc = "queued"
    BY <1>3 DEF Submit, TypeInv, TypeOK
  <2>2. writers'[NodeOf(d)'] = Append(q, c)
    BY <1>1, <2>1 DEF NodeOf, TypeInv, TypeOK
  <2> QED BY <1>2, <1>3, <2>1, <2>2
<1>4. CASE d # c
  <2>1. call'[d] = call[d]
    BY <1>4 DEF Submit, TypeInv, TypeOK
  <2>2. InFlight(d) /\ NodeOf(d)' = NodeOf(d) /\ NodeOf(d) \in Nodes
    BY <2>1, ActiveCall DEF InFlight, NodeOf, TypeInv
  <2>3. PICK i \in DOMAIN writers[NodeOf(d)] : writers[NodeOf(d)][i] = d
    BY <2>2 DEF TypeInv, QueuesServe
  <2>4. CASE NodeOf(d) = n
    <3>1. writers'[NodeOf(d)'] = Append(q, c)
      BY <1>1, <2>2, <2>4 DEF TypeInv, TypeOK
    <3>2. q # <<>> /\ i \in 1 .. Len(q)
      BY <1>1, <1>2, <2>3, <2>4
    <3> QED BY <1>2, <2>1, <2>2, <2>3, <2>4, <3>1, <3>2 DEF TypeInv, QueuesServe, At
  <2>5. CASE NodeOf(d) # n
    <3>1. writers'[NodeOf(d)'] = writers[NodeOf(d)]
      BY <1>1, <2>2, <2>5 DEF TypeInv, TypeOK
    <3> QED BY <2>1, <2>2, <2>3, <3>1 DEF TypeInv, QueuesServe, At
  <2> QED BY <2>4, <2>5
<1> QED BY <1>3, <1>4

\* A node that dies loses its chain and its calls.
LEMMA CrashServes ==
  ASSUME TypeInv, NEW n \in Nodes, Crash(n)
  PROVE  QueuesServe'
<1> SUFFICES ASSUME NEW d \in Calls, InFlight(d)'
             PROVE  /\ \E i \in DOMAIN writers'[NodeOf(d)'] : writers'[NodeOf(d)'][i] = d
                    /\ call'[d].pc # "queued" => Head(writers'[NodeOf(d)']) = d
  BY DEF QueuesServe, At
<1>1. call'[d] = call[d] /\ InFlight(d) /\ NodeOf(d) # n
  BY DEF Crash, InFlight
<1>2. NodeOf(d)' = NodeOf(d) /\ NodeOf(d) \in Nodes
  BY <1>1, ActiveCall DEF NodeOf, TypeInv
<1>3. writers'[NodeOf(d)'] = writers[NodeOf(d)]
  BY <1>1, <1>2 DEF Crash, TypeInv, TypeOK
<1> QED BY <1>1, <1>2, <1>3 DEF TypeInv, QueuesServe, At

\* A value the engine draws is a draw, and the provider it leaves is typed.
LEMMA DrawingType ==
  ASSUME TypeOK, NEW n \in Nodes, NEW p \in Prints,
         NEW d \in Drawings(rng[n], Faces[p])
  PROVE  /\ d.draw \in Draws
         /\ d.provider \in [values : Seq(Draws), cursor : Nat]
         /\ d.made \in Nat
<1> DEFINE r == rng[n]
<1>1. r \in [values : Seq(Draws), cursor : Nat] /\ Faces[p] \subseteq Nat /\ drawn \in Nat
  BY DEF TypeOK
<1> HIDE DEF r
<1>2. CASE Faces[p] = {}
  BY <1>1, <1>2 DEF Drawings, Draws, NoDraw, r
<1>3. CASE Faces[p] # {} /\ LeftOver(r)
  <2>1. d = [draw |-> Next1(r), provider |-> [r EXCEPT !.cursor = @ + 1], made |-> 0]
    BY <1>3 DEF Drawings, r
  <2>2. r.cursor + 1 \in 1 .. Len(r.values)
    BY <1>1, <1>3 DEF LeftOver
  <2>3. Next1(r) \in Draws
    BY <1>1, <2>2, ElementOfSeq DEF Next1
  <2> QED BY <1>1, <2>1, <2>3
<1>4. CASE Faces[p] # {} /\ ~ LeftOver(r)
  <2>1. PICK f \in Faces[p] :
          d = [draw |-> [id |-> drawn + 1, face |-> f],
               provider |-> [values |-> Append(r.values, [id |-> drawn + 1, face |-> f]),
                             cursor |-> r.cursor + 1],
               made |-> 1]
    BY <1>4 DEF Drawings, r
  <2>2. [id |-> drawn + 1, face |-> f] \in Draws
    BY <1>1 DEF Draws
  <2>3. Append(r.values, [id |-> drawn + 1, face |-> f]) \in Seq(Draws)
    BY <1>1, <2>2
  <2> QED BY <1>1, <2>1, <2>2, <2>3
<1> QED BY <1>2, <1>3, <1>4

\* The call whose turn has come is in flight and heads its chain.
LEMMA WriterIsHead ==
  ASSUME NEW c \in Calls, IsWriter(c)
  PROVE  InFlight(c) /\ Head(writers[NodeOf(c)]) = c
BY DEF IsWriter

\* So is the call that is writing or has committed.
LEMMA PersistingIsHead ==
  ASSUME TypeInv, NEW c \in Calls, At(c, "writing") \/ At(c, "committed")
  PROVE  InFlight(c) /\ Head(writers[NodeOf(c)]) = c
BY DEF TypeInv, QueuesServe, At, InFlight

\* An answer that keeps everything but its call, its chain and the random
\* cursor keeps the types.
LEMMA AnswerStep ==
  ASSUME TypeInv, NEW c \in Calls, InFlight(c), Head(writers[NodeOf(c)]) = c,
         NEW r \in Replies, Answer(c, r),
         RestoreRandom(c) \/ UNCHANGED rng,
         game' = game \/ game' = [game EXCEPT !.blocked = TRUE],
         faults' \in 0 .. MaxFaults,
         unheard' = unheard \/ unheard' = unheard \cup {call[c].draw.id},
         UNCHANGED <<events, outbox, ledger, mismatch, drawn>>
  PROVE  TypeInv'
<1>1. TypeOK
  BY DEF TypeInv
<1>2. call' \in [Calls -> CallStates] /\ writers' \in [Nodes -> Seq(Calls)]
  BY AnswerType
<1>3. rng' \in [Nodes -> [values : Seq(Draws), cursor : Nat]]
  BY <1>1, RestoreType DEF TypeOK
<1>4. game' \in [version : Nat, eventHead : Nat, outboxHead : Nat,
                 state : States, blocked : BOOLEAN]
  <2>1. [game EXCEPT !.blocked = TRUE] \in [version : Nat, eventHead : Nat, outboxHead : Nat,
                                           state : States, blocked : BOOLEAN]
    BY <1>1 DEF TypeOK
  <2> QED BY <1>1, <2>1 DEF TypeOK
<1>5. unheard' \subseteq Nat
  <2>1. call[c].draw.id \in Nat
    BY <1>1, ActiveCall DEF Draws
  <2> QED BY <1>1, <2>1 DEF TypeOK
<1>6. QueuesServe'
  BY AnswerServes
<1> QED BY <1>1, <1>2, <1>3, <1>4, <1>5, <1>6 DEF TypeInv, TypeOK

\* Moving on keeps the types.
LEMMA GotoStep ==
  ASSUME TypeInv, NEW c \in Calls, InFlight(c), Head(writers[NodeOf(c)]) = c,
         NEW pc \in Stages, Goto(c, pc), UNCHANGED writers
  PROVE  call' \in [Calls -> CallStates] /\ QueuesServe'
<1>1. call' \in [Calls -> CallStates]
  BY GotoType DEF TypeInv
<1>2. /\ call'[c].node = call[c].node
      /\ \A d \in Calls \ {c} : call'[d] = call[d]
  BY ActiveCall DEF Goto, TypeInv, TypeOK, ActiveCalls
<1>3. QueuesServe'
  BY <1>2, MoveServes
<1> QED BY <1>1, <1>3

\* Every variable keeps its type, and the promise chains serve every call.
LEMMA TypeStep == TypeInv /\ [Next]_vars => TypeInv'
<1> SUFFICES ASSUME TypeInv, [Next]_vars PROVE TypeInv'
  OBVIOUS
<1>0. TypeOK
  BY DEF TypeInv
<1>1. ASSUME NEW c \in Calls, NEW n \in Nodes, NEW k \in Keys, NEW p \in Prints,
             NEW v \in 1 .. game.version, Submit(c, n, k, p, v)
      PROVE  TypeInv'
  <2>1. <<>> \in States /\ NoDraw \in Draws /\ v \in Nat
    BY <1>0 DEF States, NoDraw, Draws, TypeOK
  <2>2. [pc |-> "queued", node |-> n, key |-> k, print |-> p, expected |-> v,
         row |-> 0, before |-> <<>>, draw |-> NoDraw, checkpoint |-> 0] \in CallStates
    BY <2>1 DEF CallStates, Stages
  <2>3. Append(writers[n], c) \in Seq(Calls)
    BY <1>0 DEF TypeOK
  <2>4. call' \in [Calls -> CallStates] /\ writers' \in [Nodes -> Seq(Calls)]
    BY <1>0, <1>1, <2>2, <2>3 DEF Submit, TypeOK
  <2>5. QueuesServe'
    BY <1>1, SubmitServes
  <2> QED BY <1>0, <1>1, <2>4, <2>5 DEF TypeInv, TypeOK, Submit, database
<1>2. ASSUME NEW c \in Calls, FastLookup(c) PROVE TypeInv'
  <2>1. InFlight(c) /\ Head(writers[NodeOf(c)]) = c
    BY <1>2, WriterIsHead DEF FastLookup
  <2>2. CASE Goto(c, "recover") /\ UNCHANGED writers
    <3>1. call' \in [Calls -> CallStates] /\ QueuesServe'
      BY <2>1, <2>2, GotoStep DEF Stages
    <3> QED BY <1>0, <1>2, <2>2, <3>1 DEF FastLookup, TypeInv, TypeOK, database
  <2>3. CASE \E r \in Matches(c) : Resolve(c, r.result)
    <3>1. PICK r \in Matches(c) : Resolve(c, r.result)
      BY <2>3
    <3>2. r.result \in Results
      BY <1>0 DEF Matches, KeyRows, TypeOK
    <3>3. [status |-> "RESOLVED", result |-> r.result] \in Replies
      BY <3>2, ResolvedReply
    <3>4. faults' \in 0 .. MaxFaults
      BY <1>0, <1>2 DEF FastLookup, TypeOK
    <3> QED BY <1>2, <2>1, <3>1, <3>3, <3>4, AnswerStep DEF FastLookup, Resolve, database
  <2>4. CASE Refuse(c, "KEY_REUSED")
    <3>1. [status |-> "KEY_REUSED"] \in Replies
      BY RefusalReply DEF Refusals
    <3>2. faults' \in 0 .. MaxFaults
      BY <1>0, <1>2 DEF FastLookup, TypeOK
    <3> QED BY <1>2, <2>1, <2>4, <3>1, <3>2, AnswerStep DEF FastLookup, Refuse, database
  <2> QED BY <1>2, <2>2, <2>3, <2>4 DEF FastLookup
<1>3. ASSUME NEW c \in Calls, Reconcile(c) PROVE TypeInv'
  <2>1. InFlight(c) /\ Head(writers[NodeOf(c)]) = c
    BY <1>3, WriterIsHead DEF Reconcile
  <2>2. CASE mismatch
    <3>1. [status |-> "ERROR"] \in Replies
      BY RefusalReply DEF Refusals
    <3>2. faults' \in 0 .. MaxFaults
      BY <1>0, <1>3 DEF Reconcile, TypeOK
    <3> QED BY <1>3, <2>1, <2>2, <3>1, <3>2, AnswerStep DEF Reconcile, Refuse
  <2>3. CASE ~ mismatch
    <3>1. Goto(c, "readRow") /\ UNCHANGED writers
      BY <1>3, <2>3 DEF Reconcile
    <3>2. call' \in [Calls -> CallStates] /\ QueuesServe'
      BY <2>1, <3>1, GotoStep DEF Stages
    <3> QED BY <1>0, <1>3, <2>3, <3>2 DEF Reconcile, TypeInv, TypeOK
  <2> QED BY <2>2, <2>3
<1>4. ASSUME NEW c \in Calls, ReadGameRow(c) PROVE TypeInv'
  <2>1. InFlight(c) /\ Head(writers[NodeOf(c)]) = c
    BY <1>4, WriterIsHead DEF ReadGameRow
  <2>2. call[c] \in ActiveCalls /\ game.version \in Nat
    BY <1>0, <2>1, ActiveCall DEF TypeOK
  <2>3. call' = [call EXCEPT ![c] = [[call[c] EXCEPT !.pc = "readTail"] EXCEPT !.row = game.version]]
    BY <1>4 DEF ReadGameRow
  <2>4. [[call[c] EXCEPT !.pc = "readTail"] EXCEPT !.row = game.version] \in ActiveCalls
    BY <2>2 DEF ActiveCalls, Stages
  <2>5. [[call[c] EXCEPT !.pc = "readTail"] EXCEPT !.row = game.version].node = call[c].node
    BY <2>2 DEF ActiveCalls
  <2>6. call' \in [Calls -> CallStates]
    BY <1>0, <2>3, <2>4 DEF TypeOK, CallStates, ActiveCalls
  <2>7. QueuesServe'
    BY <1>0, <1>4, <2>1, <2>3, <2>5, MoveServes DEF TypeOK, ReadGameRow
  <2> QED BY <1>0, <1>4, <2>6, <2>7 DEF ReadGameRow, TypeInv, TypeOK, database
<1>5. ASSUME NEW c \in Calls, ReplayTorn(c) \/ EngineRejects(c) \/ DrawThrows(c) PROVE TypeInv'
  <2>1. InFlight(c) /\ Head(writers[NodeOf(c)]) = c
    BY <1>5, WriterIsHead DEF ReplayTorn, EngineRejects, DrawThrows
  <2>2. PICK s \in Refusals : Refuse(c, s)
    BY <1>5 DEF ReplayTorn, EngineRejects, DrawThrows, Refusals
  <2>3. [status |-> s] \in Replies
    BY RefusalReply
  <2>4. UNCHANGED <<database, rng, drawn, unheard, faults>>
    BY <1>5 DEF ReplayTorn, EngineRejects, DrawThrows
  <2>5. faults' \in 0 .. MaxFaults
    BY <1>0, <2>4 DEF TypeOK
  <2> QED BY <2>1, <2>2, <2>3, <2>4, <2>5, AnswerStep DEF Refuse, database
<1>6. ASSUME NEW c \in Calls, EngineAccepts(c) PROVE TypeInv'
  <2>1. InFlight(c) /\ Head(writers[NodeOf(c)]) = c
    BY <1>6, WriterIsHead DEF EngineAccepts
  <2> DEFINE n == NodeOf(c)
  <2>2. call[c] \in ActiveCalls /\ n \in Nodes /\ call[c].print \in Prints
    BY <1>0, <2>1, ActiveCall
  <2>3. PICK d \in Drawings(rng[n], Faces[call[c].print]) :
          /\ rng' = [rng EXCEPT ![n] = d.provider]
          /\ drawn' = drawn + d.made
          /\ call' = [call EXCEPT ![c] = [call[c] EXCEPT !.pc = "persist", !.before = Replayed,
                                                        !.draw = d.draw,
                                                        !.checkpoint = rng[n].cursor]]
    BY <1>6 DEF EngineAccepts
  <2>4. /\ d.draw \in Draws /\ d.made \in Nat
        /\ d.provider \in [values : Seq(Draws), cursor : Nat]
    BY <1>0, <2>2, DrawingType
  <2>5. Replayed \in States /\ rng[n].cursor \in Nat
    BY <1>0, <2>2, ReplayedType DEF TypeOK
  <2> DEFINE next == [call[c] EXCEPT !.pc = "persist", !.before = Replayed,
                                     !.draw = d.draw, !.checkpoint = rng[n].cursor]
  <2>6. next \in ActiveCalls /\ next.node = call[c].node
    BY <2>2, <2>4, <2>5 DEF ActiveCalls, Stages
  <2> HIDE DEF next
  <2>7. call' = [call EXCEPT ![c] = next]
    BY <1>0, <2>3 DEF next, TypeOK
  <2>8. call' \in [Calls -> CallStates]
    BY <1>0, <2>6, <2>7 DEF TypeOK, CallStates, ActiveCalls
  <2>9. QueuesServe'
    BY <1>0, <1>6, <2>1, <2>6, <2>7, MoveServes DEF TypeOK, EngineAccepts
  <2>10. rng' \in [Nodes -> [values : Seq(Draws), cursor : Nat]] /\ drawn' \in Nat
    <3>1. rng' = [rng EXCEPT ![n] = d.provider] /\ drawn' = drawn + d.made
      BY <2>3
    <3>2. rng \in [Nodes -> [values : Seq(Draws), cursor : Nat]] /\ drawn \in Nat
      BY <1>0 DEF TypeOK
    <3> DEFINE P == [values : Seq(Draws), cursor : Nat]
    <3>3. d.provider \in P
      BY <2>4
    <3> HIDE DEF P
    <3>4. rng' \in [Nodes -> P]
      BY <3>1, <3>2, <3>3 DEF P
    <3>5. drawn' \in Nat
      BY <2>4, <3>1, <3>2
    <3> QED BY <3>4, <3>5 DEF P
  <2>11. UNCHANGED <<game, events, outbox, ledger, mismatch, writers, unheard, faults>>
    BY <1>6 DEF EngineAccepts, database
  <2> QED BY <1>0, <2>8, <2>9, <2>10, <2>11 DEF TypeInv, TypeOK
<1>7. ASSUME NEW c \in Calls, PersistRefuses(c) \/ PersistStale(c) PROVE TypeInv'
  <2>1. InFlight(c) /\ Head(writers[NodeOf(c)]) = c
    BY <1>7, WriterIsHead DEF PersistRefuses, PersistStale, HasLock
  <2>2. PICK s \in Refusals : Refuse(c, s)
    BY <1>7 DEF PersistRefuses, PersistStale, Refusals
  <2>3. [status |-> s] \in Replies
    BY RefusalReply
  <2>4. RestoreRandom(c) /\ UNCHANGED <<database, drawn, unheard, faults>>
    BY <1>7 DEF PersistRefuses, PersistStale
  <2>5. faults' \in 0 .. MaxFaults
    BY <1>0, <2>4 DEF TypeOK
  <2> QED BY <2>1, <2>2, <2>3, <2>4, <2>5, AnswerStep DEF Refuse, database
<1>8. ASSUME NEW c \in Calls, PersistFindsCommitted(c) \/ Finalize(c) PROVE TypeInv'
  <2>1. InFlight(c) /\ Head(writers[NodeOf(c)]) = c
    BY <1>8, WriterIsHead, PersistingIsHead DEF PersistFindsCommitted, HasLock, Finalize
  <2>2. [status |-> "RESOLVED", result |-> OwnResult(c)] \in Replies
    BY <1>0, <2>1, OwnResultType, ResolvedReply
  <2>3. UNCHANGED <<database, rng, drawn, unheard, faults>> /\ Resolve(c, OwnResult(c))
    BY <1>8 DEF PersistFindsCommitted, Finalize
  <2>4. faults' \in 0 .. MaxFaults
    BY <1>0, <2>3 DEF TypeOK
  <2> QED BY <2>1, <2>2, <2>3, <2>4, AnswerStep DEF Resolve, database
<1>9. ASSUME NEW c \in Calls, BeginWrite(c) PROVE TypeInv'
  <2>1. InFlight(c) /\ Head(writers[NodeOf(c)]) = c
    BY <1>9, WriterIsHead DEF BeginWrite, HasLock
  <2>2. call' \in [Calls -> CallStates] /\ QueuesServe'
    BY <1>9, <2>1, GotoStep DEF BeginWrite, Stages
  <2> QED BY <1>0, <1>9, <2>2 DEF BeginWrite, TypeInv, TypeOK, database
<1>10. ASSUME NEW c \in Calls, Commit(c) PROVE TypeInv'
  <2>1. InFlight(c) /\ Head(writers[NodeOf(c)]) = c
    BY <1>10, PersistingIsHead DEF Commit
  <2>2. call' \in [Calls -> CallStates] /\ QueuesServe'
    BY <1>10, <2>1, GotoStep DEF Commit, Stages
  <2>3. call[c].before \in States /\ call[c].key \in Keys /\ call[c].print \in Prints
    BY <1>0, <2>1, ActiveCall
  <2>4. /\ game' \in [version : Nat, eventHead : Nat, outboxHead : Nat,
                      state : States, blocked : BOOLEAN]
        /\ events' \in Seq([effect : Effects, after : States])
        /\ outbox' \in Seq(Nat)
    BY <1>0, <1>10, <2>1, <2>3, OwnEffectType, ApplyType DEF Commit
  <2>5. ledger' \subseteq [key : Keys, print : Prints, result : Results]
    <3>1. OwnResult(c) \in Results
      BY <1>0, <2>1, OwnResultType
    <3> QED BY <1>0, <1>10, <2>3, <3>1 DEF Commit, TypeOK
  <2> QED BY <1>0, <1>10, <2>2, <2>4, <2>5 DEF Commit, TypeInv, TypeOK
<1>11. ASSUME NEW c \in Calls, WriteFails(c) \/ CommitUnheard(c) PROVE TypeInv'
  <2>1. InFlight(c) /\ Head(writers[NodeOf(c)]) = c
    BY <1>11, PersistingIsHead DEF WriteFails, CommitUnheard
  <2>2. [status |-> "ERROR"] \in Replies
    BY RefusalReply DEF Refusals
  <2>3. /\ Refuse(c, "ERROR") /\ RestoreRandom(c) /\ UNCHANGED <<database, drawn>> /\ Fault
        /\ unheard' = unheard \/ unheard' = unheard \cup {call[c].draw.id}
    BY <1>11 DEF WriteFails, CommitUnheard
  <2>4. faults' \in 0 .. MaxFaults
    BY <1>0, <2>3 DEF TypeOK, Fault
  <2> QED BY <2>1, <2>2, <2>3, <2>4, AnswerStep DEF Refuse, database
<1>12. CASE FacilitatorOverride
  <2>1. game.state \in States /\ Effect(Override, Override, NoDraw) \in Effects
    BY <1>0 DEF TypeOK, Effects
  <2>2. /\ game' \in [version : Nat, eventHead : Nat, outboxHead : Nat,
                      state : States, blocked : BOOLEAN]
        /\ events' \in Seq([effect : Effects, after : States])
        /\ outbox' \in Seq(Nat)
    BY <1>0, <1>12, <2>1, ApplyType DEF FacilitatorOverride
  <2>3. QueuesServe'
    BY <1>12 DEF FacilitatorOverride, TypeInv, QueuesServe, InFlight, NodeOf, At
  <2> QED BY <1>0, <1>12, <2>2, <2>3 DEF FacilitatorOverride, TypeInv, TypeOK
<1>13. ASSUME NEW n \in Nodes, Crash(n) PROVE TypeInv'
  <2>1. call' \in [Calls -> CallStates]
    <3> SUFFICES ASSUME NEW c \in Calls PROVE call'[c] \in CallStates
      BY <1>13 DEF Crash
    <3>1. CASE InFlight(c) /\ NodeOf(c) = n
      <4>1. call'[c] = [pc |-> "done", key |-> call[c].key, print |-> call[c].print,
                        reply |-> [status |-> "LOST"]]
        BY <1>13, <3>1 DEF Crash
      <4>2. [status |-> "LOST"] \in Replies
        BY RefusalReply DEF Refusals
      <4> QED BY <1>0, <3>1, <4>1, <4>2, ActiveCall DEF CallStates
    <3>2. CASE ~ (InFlight(c) /\ NodeOf(c) = n)
      BY <1>0, <1>13, <3>2 DEF Crash, TypeOK
    <3> QED BY <3>1, <3>2
  <2>2. writers' \in [Nodes -> Seq(Calls)]
    BY <1>0, <1>13 DEF Crash, TypeOK
  <2>3. rng' \in [Nodes -> [values : Seq(Draws), cursor : Nat]]
    <3>1. [values |-> <<>>, cursor |-> 0] \in [values : Seq(Draws), cursor : Nat]
      OBVIOUS
    <3> QED BY <1>0, <1>13, <3>1 DEF Crash, TypeOK
  <2>4. faults' \in 0 .. MaxFaults
    BY <1>0, <1>13 DEF Crash, Fault, TypeOK
  <2>5. QueuesServe'
    BY <1>13, CrashServes
  <2> QED BY <1>0, <1>13, <2>1, <2>2, <2>3, <2>4, <2>5 DEF Crash, TypeInv, TypeOK, database
<1>14. CASE Corrupt
  <2>1. QueuesServe'
    BY <1>14 DEF Corrupt, TypeInv, QueuesServe, InFlight, NodeOf, At
  <2> QED BY <1>0, <1>14, <2>1 DEF Corrupt, Fault, TypeInv, TypeOK
<1>15. CASE UNCHANGED vars
  <2>1. QueuesServe'
    BY <1>15 DEF vars, TypeInv, QueuesServe, InFlight, NodeOf, At
  <2> QED BY <1>0, <1>15, <2>1 DEF vars, TypeInv, TypeOK
<1> QED
  BY <1>1, <1>2, <1>3, <1>4, <1>5, <1>6, <1>7, <1>8, <1>9, <1>10, <1>11, <1>12,
     <1>13, <1>14, <1>15 DEF Next, Step

\* Types and chains are right initially.
LEMMA TypeInit == Init => TypeInv
<1> SUFFICES ASSUME Init PROVE TypeInv
  OBVIOUS
<1>1. /\ <<>> \in States /\ <<>> \in Seq([effect : Effects, after : States])
      /\ <<>> \in Seq(Nat) /\ <<>> \in Seq(Calls) /\ IdleCall \in CallStates
      /\ [values |-> <<>>, cursor |-> 0] \in [values : Seq(Draws), cursor : Nat]
  BY DEF States, CallStates
<1>2. TypeOK
  <2>1. game \in [version : Nat, eventHead : Nat, outboxHead : Nat,
                  state : States, blocked : BOOLEAN]
    BY <1>1 DEF Init
  <2>2. faults \in 0 .. MaxFaults /\ drawn \in Nat
    BY DEF Init
  <2>3. ledger \subseteq [key : Keys, print : Prints, result : Results] /\ unheard \subseteq Nat
    BY DEF Init
  <2>4. call \in [Calls -> CallStates] /\ writers \in [Nodes -> Seq(Calls)]
    BY <1>1 DEF Init
  <2>5. rng \in [Nodes -> [values : Seq(Draws), cursor : Nat]]
    BY <1>1 DEF Init
  <2> QED BY <1>1, <2>1, <2>2, <2>3, <2>4, <2>5 DEF Init, TypeOK
<1>3. QueuesServe
  BY DEF Init, QueuesServe, InFlight, IdleCall
<1> QED BY <1>2, <1>3 DEF TypeInv

\* coordinateDurableOperation and withGameWriter: every variable keeps its
\* type, and a call in flight is never dropped from the promise chain of its
\* node before it has answered.
THEOREM TypeCorrect == Spec => [](TypeOK /\ QueuesServe)
<1>1. Spec => []TypeInv
  BY TypeInit, TypeStep, PTL DEF Spec
<1> QED BY <1>1, PTL DEF TypeInv

-------------------------------------------------------------------------------
(* The durable families.                                                   *)

\* The state after the i-th event is that of version i + 1.
StatesFollowEvents == \A i \in DOMAIN events : Len(events[i].after) = i

\* The call that writes holds the row lock alone, and what it was allowed to
\* write on is still there: its before-state, the free key, the open game.
\* What a call has committed is in the ledger.
WriterHoldsTheRow ==
  /\ \A c, d \in Calls : At(c, "writing") /\ At(d, "writing") => c = d
  /\ \A c \in Calls : At(c, "writing") =>
       SameAuthority(c) /\ KeyRows(c) = {} /\ ~game.blocked
  /\ \A c \in Calls : At(c, "committed") =>
       [key |-> call[c].key, print |-> call[c].print, result |-> OwnResult(c)] \in ledger

LogInv ==
  /\ TypeInv
  /\ ChainUnbroken
  /\ StatesFollowEvents
  /\ DurableFamiliesAgree
  /\ WriterHoldsTheRow

\* What a step does to one call.
CallStep(d) ==
  \/ call'[d] = call[d]
  \/ At(d, "idle") /\ call'[d].pc = "queued"
  \/ InFlight(d) /\ call'[d].pc \in {"recover", "readRow", "readTail"}
  \/ EngineAccepts(d)
  \/ BeginWrite(d)
  \/ Commit(d)
  \/ InFlight(d) /\ call'[d].pc = "done"

\* What a step does to the durable families.
DatabaseStep ==
  \/ UNCHANGED <<game, events, outbox, ledger>>
  \/ /\ LockFree
     /\ game' = [game EXCEPT !.blocked = TRUE]
     /\ UNCHANGED <<events, outbox, ledger>>
  \/ \E c \in Calls : Commit(c)
  \/ FacilitatorOverride

\* An answer ends one call and leaves the others alone.
LEMMA AnswerEnds ==
  ASSUME TypeOK, NEW c \in Calls, InFlight(c), NEW r, Answer(c, r)
  PROVE  \A d \in Calls : CallStep(d)
BY DEF Answer, CallStep, TypeOK

\* So does a step of one call.
LEMMA GotoMoves ==
  ASSUME TypeOK, NEW c \in Calls, InFlight(c), NEW pc, Goto(c, pc)
  PROVE  /\ call'[c] = [call[c] EXCEPT !.pc = pc]
         /\ call'[c].pc = pc
         /\ \A d \in Calls \ {c} : call'[d] = call[d]
BY ActiveCall DEF Goto, TypeOK, ActiveCalls

\* Every step changes a call and the durable families in one of these ways.
LEMMA StepSummary ==
  ASSUME TypeInv, [Next]_vars
  PROVE  DatabaseStep /\ \A d \in Calls : CallStep(d)
<1> DEFINE Summary == DatabaseStep /\ \A d \in Calls : CallStep(d)
<1>0. TypeOK
  BY DEF TypeInv
<1>1. ASSUME NEW c \in Calls, NEW n \in Nodes, NEW k \in Keys, NEW p \in Prints,
             NEW v \in 1 .. game.version, Submit(c, n, k, p, v)
      PROVE  Summary
  BY <1>0, <1>1 DEF Submit, DatabaseStep, CallStep, database, TypeOK
<1>2. ASSUME NEW c \in Calls, FastLookup(c) PROVE Summary
  <2>1. InFlight(c)
    BY <1>2, WriterIsHead DEF FastLookup
  <2>2. Goto(c, "recover") \/ \E r : Answer(c, r)
    BY <1>2 DEF FastLookup, Resolve, Refuse
  <2>3. \A d \in Calls : CallStep(d)
    BY <1>0, <2>1, <2>2, AnswerEnds, GotoMoves DEF CallStep
  <2> QED BY <1>2, <2>3 DEF FastLookup, DatabaseStep, database
<1>3. ASSUME NEW c \in Calls, Reconcile(c) PROVE Summary
  <2>1. InFlight(c)
    BY <1>3, WriterIsHead DEF Reconcile
  <2>2. Goto(c, "readRow") \/ \E r : Answer(c, r)
    BY <1>3 DEF Reconcile, Refuse
  <2>3. \A d \in Calls : CallStep(d)
    BY <1>0, <2>1, <2>2, AnswerEnds, GotoMoves DEF CallStep
  <2> QED BY <1>3, <2>3 DEF Reconcile, DatabaseStep
<1>4. ASSUME NEW c \in Calls, ReadGameRow(c) PROVE Summary
  <2>1. call[c] \in ActiveCalls
    BY <1>0, <1>4, WriterIsHead, ActiveCall DEF ReadGameRow
  <2>2. call' = [call EXCEPT ![c] = [[call[c] EXCEPT !.pc = "readTail"] EXCEPT !.row = game.version]]
    BY <1>4 DEF ReadGameRow
  <2>3. call'[c].pc = "readTail" /\ \A d \in Calls \ {c} : call'[d] = call[d]
    BY <1>0, <2>1, <2>2 DEF TypeOK, ActiveCalls
  <2>4. InFlight(c)
    BY <1>4, WriterIsHead DEF ReadGameRow
  <2> QED BY <1>4, <2>3, <2>4 DEF ReadGameRow, DatabaseStep, CallStep, database
<1>5. ASSUME NEW c \in Calls,
             ReplayTorn(c) \/ EngineRejects(c) \/ DrawThrows(c) \/ PersistRefuses(c)
               \/ PersistStale(c) \/ PersistFindsCommitted(c)
      PROVE  Summary
  <2>1. InFlight(c)
    BY <1>5, WriterIsHead DEF ReplayTorn, EngineRejects, DrawThrows, PersistRefuses,
                             PersistStale, PersistFindsCommitted, HasLock
  <2>2. PICK r : Answer(c, r)
    BY <1>5 DEF ReplayTorn, EngineRejects, DrawThrows, PersistRefuses, PersistStale,
                PersistFindsCommitted, Refuse, Resolve
  <2>3. UNCHANGED database
    BY <1>5 DEF ReplayTorn, EngineRejects, DrawThrows, PersistRefuses, PersistStale,
                PersistFindsCommitted
  <2> QED BY <1>0, <2>1, <2>2, <2>3, AnswerEnds DEF DatabaseStep, database
<1>6. ASSUME NEW c \in Calls, EngineAccepts(c) PROVE Summary
  <2>1. UNCHANGED <<game, events, outbox, ledger>>
    BY <1>6 DEF EngineAccepts, database
  <2>2. \A d \in Calls \ {c} : call'[d] = call[d]
    BY <1>0, <1>6 DEF EngineAccepts, TypeOK
  <2> QED BY <1>6, <2>1, <2>2 DEF DatabaseStep, CallStep
<1>7. ASSUME NEW c \in Calls, BeginWrite(c) PROVE Summary
  <2>1. \A d \in Calls \ {c} : call'[d] = call[d]
    BY <1>0, <1>7, WriterIsHead, GotoMoves DEF BeginWrite, HasLock
  <2> QED BY <1>7, <2>1 DEF BeginWrite, DatabaseStep, CallStep, database
<1>8. ASSUME NEW c \in Calls, Commit(c) PROVE Summary
  <2>1. \A d \in Calls \ {c} : call'[d] = call[d]
    BY <1>0, <1>8, PersistingIsHead, GotoMoves DEF Commit
  <2> QED BY <1>8, <2>1 DEF DatabaseStep, CallStep
<1>9. ASSUME NEW c \in Calls, Finalize(c) \/ WriteFails(c) \/ CommitUnheard(c) PROVE Summary
  <2>1. InFlight(c)
    BY <1>9, PersistingIsHead DEF Finalize, WriteFails, CommitUnheard
  <2>2. PICK r : Answer(c, r)
    BY <1>9 DEF Finalize, WriteFails, CommitUnheard, Refuse, Resolve
  <2>3. UNCHANGED database
    BY <1>9 DEF Finalize, WriteFails, CommitUnheard
  <2> QED BY <1>0, <2>1, <2>2, <2>3, AnswerEnds DEF DatabaseStep, database
<1>10. CASE FacilitatorOverride
  BY <1>10 DEF FacilitatorOverride, DatabaseStep, CallStep
<1>11. ASSUME NEW n \in Nodes, Crash(n) PROVE Summary
  BY <1>11 DEF Crash, DatabaseStep, CallStep, database
<1>12. CASE Corrupt \/ UNCHANGED vars
  BY <1>12 DEF Corrupt, vars, DatabaseStep, CallStep
<1> QED
  BY <1>1, <1>2, <1>3, <1>4, <1>5, <1>6, <1>7, <1>8, <1>9, <1>10, <1>11, <1>12
     DEF Next, Step

\* The cached state is as long as the event tail.
LEMMA StateLength ==
  ASSUME TypeOK, ChainUnbroken, StatesFollowEvents
  PROVE  Len(game.state) = Len(events) /\ Len(events) \in Nat
<1>1. game.state = Replayed /\ Len(events) \in Nat
  BY DEF ChainUnbroken, TypeOK
<1>2. CASE events = <<>>
  BY <1>1, <1>2 DEF Replayed
<1>3. CASE events # <<>>
  <2>1. Len(events) \in DOMAIN events
    BY <1>3 DEF TypeOK
  <2> QED BY <1>1, <1>3, <2>1 DEF Replayed, StatesFollowEvents
<1> QED BY <1>1, <1>2, <1>3

\* Writing an effect on the cached state continues the chain of events, the
\* heads and the outbox.
LEMMA ApplyContinues ==
  ASSUME LogInv, NEW e \in Effects, Apply(game.state, e)
  PROVE  /\ ChainUnbroken' /\ StatesFollowEvents'
         /\ game'.version = VersionOf(events') /\ game'.eventHead = game'.version
         /\ game'.outboxHead = game'.version /\ game'.blocked = game.blocked
         /\ outbox' = [i \in DOMAIN events' |-> i + 1]
         /\ Len(events') = Len(events) + 1
         /\ DOMAIN events' = 1 .. (Len(events) + 1)
         /\ DOMAIN events = 1 .. Len(events)
         /\ \A i \in DOMAIN events : events'[i] = events[i]
         /\ events'[Len(events) + 1].effect = e
<1> DEFINE after == Append(game.state, e)
           L == Len(events)
           Ev == [effect : Effects, after : States]
<1>1. TypeOK /\ game.state \in Seq(Effects)
  BY DEF LogInv, TypeInv, TypeOK, States
<1>2. Len(game.state) = L /\ L \in Nat
  BY <1>1, StateLength DEF LogInv
<1>3. Len(after) = L + 1 /\ after \in States
  BY <1>1, <1>2, AppendProperties DEF States
<1>4. /\ game'.version = VersionOf(after) /\ game'.state = after
      /\ game'.eventHead = game.eventHead + 1 /\ game'.outboxHead = game.outboxHead + 1
      /\ game'.blocked = game.blocked
  BY <1>1 DEF Apply, TypeOK
<1>5. events' = Append(events, [effect |-> e, after |-> after])
      /\ [effect |-> e, after |-> after] \in Ev /\ events \in Seq(Ev)
  BY <1>1, <1>3 DEF Apply, TypeOK
<1> HIDE DEF after, Ev
<1>6. /\ Len(events') = L + 1 /\ DOMAIN events' = 1 .. (L + 1) /\ DOMAIN events = 1 .. L
      /\ \A i \in DOMAIN events : events'[i] = events[i]
      /\ events'[L + 1] = [effect |-> e, after |-> after]
      /\ events' # <<>>
  BY <1>5, AppendProperties, LenProperties
<1>7. game.state = IF L + 1 = 1 THEN <<>> ELSE events[L].after
  <2>1. game.state = Replayed
    BY DEF LogInv, ChainUnbroken
  <2>2. events = <<>> <=> L = 0
    BY <1>1, <1>2 DEF TypeOK
  <2> QED BY <1>2, <2>1, <2>2 DEF Replayed
<1>8. ChainUnbroken'
  <2>1. ASSUME NEW i \in 1 .. (L + 1)
        PROVE  events'[i].after =
                 Append(IF i = 1 THEN <<>> ELSE events'[i - 1].after, events'[i].effect)
    <3>1. CASE i = L + 1
      <4>1. L + 1 # 1 => L \in DOMAIN events
        BY <1>2, <1>6
      <4>2. events'[i].effect = e /\ events'[i].after = after
        BY <1>6, <3>1
      <4>3. L + 1 # 1 => events'[i - 1].after = events[L].after
        BY <1>2, <1>6, <3>1, <4>1
      <4> QED BY <1>2, <1>7, <3>1, <4>2, <4>3 DEF after
    <3>2. CASE i \in 1 .. L
      <4>1. i # 1 => i - 1 \in 1 .. L /\ events'[i - 1] = events[i - 1]
        BY <1>2, <1>6, <3>2
      <4>2. events'[i] = events[i]
        BY <1>6, <3>2
      <4>3. events[i].after =
              Append(IF i = 1 THEN <<>> ELSE events[i - 1].after, events[i].effect)
        BY <1>6, <3>2 DEF LogInv, ChainUnbroken
      <4> QED BY <4>1, <4>2, <4>3
    <3> QED BY <1>2, <3>1, <3>2
  <2>2. game'.state = Replayed'
    BY <1>4, <1>6 DEF Replayed
  <2> QED BY <1>6, <2>1, <2>2 DEF ChainUnbroken
<1>9. StatesFollowEvents'
  <2>1. ASSUME NEW i \in 1 .. (L + 1) PROVE Len(events'[i].after) = i
    BY <1>2, <1>3, <1>6 DEF LogInv, StatesFollowEvents
  <2> QED BY <1>6, <2>1 DEF StatesFollowEvents
<1>10. game'.version = VersionOf(events')
  BY <1>3, <1>4, <1>6 DEF VersionOf
<1>11. game.version = L + 1 /\ game.eventHead = L + 1 /\ game.outboxHead = L + 1
  BY DEF LogInv, DurableFamiliesAgree, VersionOf
<1>12. game'.eventHead = game'.version /\ game'.outboxHead = game'.version
  BY <1>2, <1>4, <1>6, <1>10, <1>11 DEF VersionOf
<1>13. outbox' = [i \in DOMAIN events' |-> i + 1]
  <2>1. outbox' = Append(outbox, L + 2) /\ outbox = [i \in 1 .. L |-> i + 1]
    BY <1>2, <1>6, <1>11 DEF Apply, LogInv, DurableFamiliesAgree
  <2>2. outbox \in Seq(Nat) /\ Len(outbox) = L
    BY <1>1, <1>2, <2>1 DEF TypeOK
  <2>3. outbox' \in Seq(Nat) /\ Len(outbox') = L + 1 /\ DOMAIN outbox' = 1 .. (L + 1)
    BY <1>2, <2>1, <2>2, AppendProperties, LenProperties
  <2>4. \A i \in 1 .. (L + 1) : outbox'[i] = i + 1
    BY <1>2, <2>1, <2>2, AppendProperties
  <2>5. outbox' = [i \in 1 .. (L + 1) |-> outbox'[i]]
    BY <2>3
  <2> QED BY <1>6, <2>4, <2>5
<1> QED BY <1>4, <1>6, <1>8, <1>9, <1>10, <1>12, <1>13

\* While the families stay as they are, so does all that is said of them.
LEMMA LogKept ==
  ASSUME LogInv, UNCHANGED <<events, outbox, ledger>>,
         game' = game \/ game' = [game EXCEPT !.blocked = TRUE]
  PROVE  ChainUnbroken' /\ StatesFollowEvents' /\ DurableFamiliesAgree'
<1>1. /\ game'.version = game.version /\ game'.state = game.state
      /\ game'.eventHead = game.eventHead /\ game'.outboxHead = game.outboxHead
  BY DEF LogInv, TypeInv, TypeOK
<1>2. ChainUnbroken'
  BY <1>1 DEF LogInv, ChainUnbroken, Replayed
<1>3. StatesFollowEvents'
  BY DEF LogInv, StatesFollowEvents
<1>4. DurableFamiliesAgree'
  BY <1>1 DEF LogInv, DurableFamiliesAgree
<1> QED BY <1>2, <1>3, <1>4

\* The one call that commits writes its effect on the state it was computed
\* from, under a key that no event carries.
LEMMA CommitIsSound ==
  ASSUME LogInv, NEW c \in Calls, Commit(c)
  PROVE  /\ InFlight(c) /\ OwnEffect(c) \in Effects /\ Apply(game.state, OwnEffect(c))
         /\ call[c].key \in Keys /\ call[c].print \in Prints /\ call[c].draw \in Draws
         /\ call[c].key # Override
         /\ OwnResult(c) = [version |-> Len(events) + 2, draw |-> call[c].draw]
         /\ \A r \in ledger : r.key # call[c].key
         /\ \A i \in DOMAIN events : events[i].effect.key # call[c].key
         /\ ~game.blocked
<1>1. TypeOK /\ InFlight(c) /\ At(c, "writing")
  BY PersistingIsHead DEF LogInv, TypeInv, Commit
<1>2. SameAuthority(c) /\ KeyRows(c) = {} /\ ~game.blocked
  BY <1>1 DEF LogInv, WriterHoldsTheRow
<1>3. call[c].key \in Keys /\ call[c].print \in Prints /\ call[c].draw \in Draws
  BY <1>1, ActiveCall
<1>4. OwnEffect(c) \in Effects /\ Apply(game.state, OwnEffect(c))
  BY <1>1, <1>2, OwnEffectType DEF Commit, SameAuthority
<1>5. call[c].key # Override
  BY <1>3
<1>6. \A r \in ledger : r.key # call[c].key
  BY <1>2 DEF KeyRows
<1>7. \A i \in DOMAIN events : events[i].effect.key # call[c].key
  BY <1>5, <1>6 DEF LogInv, DurableFamiliesAgree
<1>8. OwnResult(c) = [version |-> Len(events) + 2, draw |-> call[c].draw]
  <2>1. Len(game.state) = Len(events) /\ Len(events) \in Nat
    BY <1>1, StateLength DEF LogInv
  <2> QED BY <1>2, <2>1 DEF OwnResult, VersionOf, SameAuthority
<1> QED BY <1>1, <1>2, <1>3, <1>4, <1>5, <1>6, <1>7, <1>8

\* COMMIT: event, outbox and idempotency record stay in step.
LEMMA CommitAgrees ==
  ASSUME LogInv, NEW c \in Calls, Commit(c)
  PROVE  ChainUnbroken' /\ StatesFollowEvents' /\ DurableFamiliesAgree'
<1> DEFINE L == Len(events)
           new == [key |-> call[c].key, print |-> call[c].print, result |-> OwnResult(c)]
<1>1. /\ OwnEffect(c) \in Effects /\ Apply(game.state, OwnEffect(c))
      /\ OwnResult(c) = [version |-> L + 2, draw |-> call[c].draw]
      /\ \A r \in ledger : r.key # call[c].key
      /\ \A i \in DOMAIN events : events[i].effect.key # call[c].key
      /\ call[c].key # Override
  BY CommitIsSound
<1>2. /\ ChainUnbroken' /\ StatesFollowEvents'
      /\ game'.version = VersionOf(events') /\ game'.eventHead = game'.version
      /\ game'.outboxHead = game'.version
      /\ outbox' = [i \in DOMAIN events' |-> i + 1]
      /\ DOMAIN events' = 1 .. (L + 1) /\ DOMAIN events = 1 .. L
      /\ \A i \in DOMAIN events : events'[i] = events[i]
      /\ events'[L + 1].effect = OwnEffect(c)
  BY <1>1, ApplyContinues
<1>3. L \in Nat
  BY DEF LogInv, TypeInv, TypeOK
<1>4. ledger' = ledger \cup {new}
  BY DEF Commit
<1>5. /\ OwnEffect(c) = Effect(new.key, new.print, new.result.draw)
      /\ new.result.version = L + 2 /\ new.key = call[c].key
  BY <1>1 DEF OwnEffect
<1>6. /\ OwnEffect(c).key = new.key /\ OwnEffect(c).print = new.print
      /\ OwnEffect(c).draw = new.result.draw
  BY <1>5 DEF Effect
<1>7. new = [key |-> OwnEffect(c).key, print |-> OwnEffect(c).print,
             result |-> [version |-> L + 2, draw |-> OwnEffect(c).draw]]
  BY <1>1, <1>6
<1>8. new \in ledger'
  BY <1>4
<1> HIDE DEF new
<1>9. ASSUME NEW i \in 1 .. (L + 1), events'[i].effect.key # Override
      PROVE  [key |-> events'[i].effect.key, print |-> events'[i].effect.print,
              result |-> [version |-> i + 1, draw |-> events'[i].effect.draw]] \in ledger'
  <2>1. CASE i = L + 1
    <3>1. i + 1 = L + 2
      BY <1>3, <2>1
    <3> QED BY <1>2, <1>7, <1>8, <2>1, <3>1
  <2>2. CASE i \in 1 .. L
    BY <1>2, <1>4, <1>9, <2>2 DEF LogInv, DurableFamiliesAgree
  <2> QED BY <1>3, <2>1, <2>2
<1>10. ASSUME NEW r \in ledger'
       PROVE  \E i \in 1 .. (L + 1) :
                /\ events'[i].effect = Effect(r.key, r.print, r.result.draw)
                /\ r.result.version = i + 1
  <2>1. CASE r \in ledger
    <3>1. PICK i \in DOMAIN events :
            /\ events[i].effect = Effect(r.key, r.print, r.result.draw)
            /\ r.result.version = i + 1
      BY <2>1 DEF LogInv, DurableFamiliesAgree
    <3>2. i \in 1 .. (L + 1) /\ events'[i] = events[i]
      BY <1>2, <1>3
    <3> QED BY <3>1, <3>2
  <2>2. CASE r = new
    <3>1. L + 1 \in 1 .. (L + 1) /\ L + 2 = (L + 1) + 1
      BY <1>3
    <3> QED BY <1>2, <1>5, <2>2, <3>1
  <2> QED BY <1>4, <2>1, <2>2
<1>11. ASSUME NEW r \in ledger', NEW q \in ledger', r.key = q.key PROVE r = q
  BY <1>1, <1>4, <1>5, <1>11 DEF LogInv, DurableFamiliesAgree
<1> QED BY <1>2, <1>9, <1>10, <1>11 DEF DurableFamiliesAgree

\* An override appends an event that has no key and no idempotency record.
LEMMA OverrideAgrees ==
  ASSUME LogInv, FacilitatorOverride
  PROVE  ChainUnbroken' /\ StatesFollowEvents' /\ DurableFamiliesAgree'
<1> DEFINE L == Len(events)
           e == Effect(Override, Override, NoDraw)
<1>1. e \in Effects /\ Apply(game.state, e) /\ ledger' = ledger
  BY DEF FacilitatorOverride, Effects
<1> HIDE DEF e
<1>2. /\ ChainUnbroken' /\ StatesFollowEvents'
      /\ game'.version = VersionOf(events') /\ game'.eventHead = game'.version
      /\ game'.outboxHead = game'.version
      /\ outbox' = [i \in DOMAIN events' |-> i + 1]
      /\ DOMAIN events' = 1 .. (L + 1) /\ DOMAIN events = 1 .. L
      /\ \A i \in DOMAIN events : events'[i] = events[i]
      /\ events'[L + 1].effect = e
  BY <1>1, ApplyContinues
<1>3. L \in Nat
  BY DEF LogInv, TypeInv, TypeOK
<1>4. e.key = Override
  BY DEF e, Effect
<1>5. ASSUME NEW i \in 1 .. (L + 1), events'[i].effect.key # Override
      PROVE  [key |-> events'[i].effect.key, print |-> events'[i].effect.print,
              result |-> [version |-> i + 1, draw |-> events'[i].effect.draw]] \in ledger'
  <2>1. i \in 1 .. L
    BY <1>2, <1>3, <1>4, <1>5
  <2> QED BY <1>1, <1>2, <1>5, <2>1 DEF LogInv, DurableFamiliesAgree
<1>6. ASSUME NEW r \in ledger
      PROVE  \E i \in 1 .. (L + 1) :
               /\ events'[i].effect = Effect(r.key, r.print, r.result.draw)
               /\ r.result.version = i + 1
  <2>1. PICK i \in DOMAIN events :
          /\ events[i].effect = Effect(r.key, r.print, r.result.draw)
          /\ r.result.version = i + 1
    BY DEF LogInv, DurableFamiliesAgree
  <2>2. i \in 1 .. (L + 1) /\ events'[i] = events[i]
    BY <1>2, <1>3
  <2> QED BY <2>1, <2>2
<1>7. \A r, q \in ledger : r.key = q.key => r = q
  BY DEF LogInv, DurableFamiliesAgree
<1> QED BY <1>1, <1>2, <1>5, <1>6, <1>7 DEF DurableFamiliesAgree

\* An accepted command takes its draw from its node's provider and persists.
LEMMA AcceptMoves ==
  ASSUME TypeInv, NEW c \in Calls, EngineAccepts(c)
  PROVE  /\ InFlight(c) /\ call[c].pc = "readTail" /\ Head(writers[NodeOf(c)]) = c
         /\ call'[c].pc = "persist" /\ call'[c].node = call[c].node
         /\ call'[c].checkpoint = rng[NodeOf(c)].cursor
         /\ \A d \in Calls \ {c} : call'[d] = call[d]
         /\ \E x \in Drawings(rng[NodeOf(c)], Faces[call[c].print]) :
              /\ rng' = [rng EXCEPT ![NodeOf(c)] = x.provider]
              /\ drawn' = drawn + x.made
              /\ call'[c].draw = x.draw
<1>1. InFlight(c) /\ call[c] \in ActiveCalls /\ TypeOK /\ Head(writers[NodeOf(c)]) = c
  BY WriterIsHead, ActiveCall DEF EngineAccepts, TypeInv
<1>2. PICK x \in Drawings(rng[NodeOf(c)], Faces[call[c].print]) :
        /\ rng' = [rng EXCEPT ![NodeOf(c)] = x.provider]
        /\ drawn' = drawn + x.made
        /\ call' = [call EXCEPT ![c] = [call[c] EXCEPT !.pc = "persist", !.before = Replayed,
                                                      !.draw = x.draw,
                                                      !.checkpoint = rng[NodeOf(c)].cursor]]
  BY DEF EngineAccepts
<1>3. /\ call'[c] = [call[c] EXCEPT !.pc = "persist", !.before = Replayed, !.draw = x.draw,
                                    !.checkpoint = rng[NodeOf(c)].cursor]
      /\ \A d \in Calls \ {c} : call'[d] = call[d]
  BY <1>1, <1>2 DEF TypeOK
<1>4. /\ call'[c].pc = "persist" /\ call'[c].node = call[c].node /\ call'[c].draw = x.draw
      /\ call'[c].checkpoint = rng[NodeOf(c)].cursor
  BY <1>1, <1>3 DEF ActiveCalls
<1> QED BY <1>1, <1>2, <1>3, <1>4 DEF EngineAccepts, At

\* The row lock is what keeps the writer's ground under its feet.
LEMMA WriterStep == LogInv /\ [Next]_vars => WriterHoldsTheRow'
<1> SUFFICES ASSUME LogInv, [Next]_vars PROVE WriterHoldsTheRow'
  OBVIOUS
<1>1. DatabaseStep /\ \A d \in Calls : CallStep(d)
  BY StepSummary DEF LogInv
<1>2. TypeInv /\ TypeOK
  BY DEF LogInv, TypeInv
<1>3. ASSUME NEW d \in Calls, call'[d].pc = "writing"
      PROVE  BeginWrite(d) \/ (call'[d] = call[d] /\ At(d, "writing"))
  <2>1. ~ EngineAccepts(d)
    BY <1>2, <1>3, AcceptMoves
  <2>2. ~ Commit(d)
    <3> SUFFICES ASSUME Commit(d) PROVE FALSE
      OBVIOUS
    <3>1. At(d, "writing") /\ Goto(d, "committed")
      BY DEF Commit
    <3>2. InFlight(d)
      BY <1>2, <3>1, PersistingIsHead
    <3>3. call'[d].pc = "committed"
      BY <1>2, <3>1, <3>2, GotoMoves
    <3> QED BY <1>3, <3>3
  <2> QED BY <1>1, <1>3, <2>1, <2>2 DEF CallStep, At
<1>4. ASSUME NEW d \in Calls, BeginWrite(d)
      PROVE  /\ LockFree /\ SameAuthority(d) /\ KeyRows(d) = {} /\ ~game.blocked
             /\ UNCHANGED <<game, events, outbox, ledger>>
             /\ call'[d] = [call[d] EXCEPT !.pc = "writing"]
             /\ call[d] \in ActiveCalls
             /\ \A x \in Calls \ {d} : call'[x] = call[x]
  <2>1. InFlight(d) /\ Goto(d, "writing")
    BY <1>4, WriterIsHead DEF BeginWrite, HasLock
  <2> QED BY <1>2, <1>4, <2>1, ActiveCall, GotoMoves DEF BeginWrite, HasLock, database
<1>5. ASSUME NEW c \in Calls, NEW d \in Calls, call'[c].pc = "writing", call'[d].pc = "writing"
      PROVE  c = d
  <2>1. CASE BeginWrite(c)
    BY <1>3, <1>4, <1>5, <2>1 DEF LockFree, At
  <2>2. CASE BeginWrite(d)
    BY <1>3, <1>4, <1>5, <2>2 DEF LockFree, At
  <2>3. CASE At(c, "writing") /\ At(d, "writing")
    BY <2>3 DEF LogInv, WriterHoldsTheRow
  <2> QED BY <1>3, <1>5, <2>1, <2>2, <2>3
<1>6. ASSUME NEW d \in Calls, call'[d].pc = "writing"
      PROVE  /\ game'.version = VersionOf(call'[d].before)
             /\ game'.state = call'[d].before
             /\ {r \in ledger' : r.key = call'[d].key} = {}
             /\ ~game'.blocked
  <2>1. CASE BeginWrite(d)
    <3>1. call'[d].before = call[d].before /\ call'[d].key = call[d].key
      BY <1>4, <2>1 DEF ActiveCalls
    <3>2. \A r \in ledger : r.key # call[d].key
      BY <1>4, <2>1 DEF KeyRows
    <3>3. {r \in ledger' : r.key = call'[d].key} = {}
      <4>1. ledger' = ledger /\ call'[d].key = call[d].key
        BY <1>4, <2>1, <3>1
      <4> QED BY <3>2, <4>1
    <3>4. SameAuthority(d) /\ ~game.blocked /\ game' = game
      BY <1>4, <2>1
    <3> QED BY <3>1, <3>3, <3>4 DEF SameAuthority
  <2>2. CASE call'[d] = call[d] /\ At(d, "writing")
    <3>1. SameAuthority(d) /\ KeyRows(d) = {} /\ ~game.blocked /\ ~LockFree
      BY <2>2 DEF LogInv, WriterHoldsTheRow, LockFree
    <3>2. ~ \E c \in Calls : Commit(c)
      <4> SUFFICES ASSUME NEW c \in Calls, Commit(c) PROVE FALSE
        OBVIOUS
      <4>1. c = d
        BY <2>2 DEF LogInv, WriterHoldsTheRow, Commit
      <4>2. call'[d].pc = "committed"
        BY <1>2, <4>1, PersistingIsHead, GotoMoves DEF Commit
      <4> QED BY <1>6, <4>2
    <3>3. UNCHANGED <<game, ledger>>
      BY <1>1, <3>1, <3>2 DEF DatabaseStep, FacilitatorOverride
    <3> QED BY <2>2, <3>1, <3>3 DEF SameAuthority, KeyRows
  <2> QED BY <1>3, <1>6, <2>1, <2>2
<1>7. ASSUME NEW d \in Calls, call'[d].pc = "committed"
      PROVE  [key |-> call'[d].key, print |-> call'[d].print,
              result |-> [version |-> VersionOf(call'[d].before) + 1, draw |-> call'[d].draw]]
                \in ledger'
  <2>1. ledger \subseteq ledger'
    BY <1>1 DEF DatabaseStep, Commit, FacilitatorOverride
  <2>2. CASE Commit(d)
    <3>1. InFlight(d) /\ Goto(d, "committed")
      BY <1>2, <2>2, PersistingIsHead DEF Commit
    <3>2. call'[d] = [call[d] EXCEPT !.pc = "committed"] /\ call[d] \in ActiveCalls
      BY <1>2, <3>1, GotoMoves, ActiveCall
    <3>3. /\ call'[d].key = call[d].key /\ call'[d].print = call[d].print
          /\ call'[d].before = call[d].before /\ call'[d].draw = call[d].draw
      BY <3>2 DEF ActiveCalls
    <3> QED BY <2>2, <3>3 DEF Commit, OwnResult
  <2>3. CASE call'[d] = call[d]
    BY <1>7, <2>1, <2>3 DEF LogInv, WriterHoldsTheRow, OwnResult, At
  <2>4. ~ BeginWrite(d)
    <3>1. ASSUME BeginWrite(d) PROVE call'[d].pc = "writing"
      BY <1>4, <3>1 DEF ActiveCalls
    <3> QED BY <1>7, <3>1
  <2>5. ~ EngineAccepts(d)
    BY <1>2, <1>7, AcceptMoves
  <2> QED BY <1>1, <1>7, <2>2, <2>3, <2>4, <2>5 DEF CallStep
<1> QED BY <1>5, <1>6, <1>7 DEF WriterHoldsTheRow, At, SameAuthority, KeyRows, OwnResult

\* What is said of the durable families is kept by every step.
LEMMA LogStep == LogInv /\ [Next]_vars => LogInv'
<1> SUFFICES ASSUME LogInv, [Next]_vars PROVE LogInv'
  OBVIOUS
<1>1. TypeInv' /\ WriterHoldsTheRow'
  BY TypeStep, WriterStep DEF LogInv
<1>2. DatabaseStep
  BY StepSummary DEF LogInv
<1>3. ChainUnbroken' /\ StatesFollowEvents' /\ DurableFamiliesAgree'
  BY <1>2, LogKept, CommitAgrees, OverrideAgrees DEF DatabaseStep
<1> QED BY <1>1, <1>3 DEF LogInv

\* The log and the heads agree when nothing was executed.
LEMMA LogInit == Init => LogInv
<1> SUFFICES ASSUME Init PROVE LogInv
  OBVIOUS
<1>1. TypeInv
  BY TypeInit
<1>2. ChainUnbroken /\ StatesFollowEvents
  BY DEF Init, ChainUnbroken, StatesFollowEvents, Replayed
<1>3. DurableFamiliesAgree
  <2>1. DOMAIN events = {} /\ ledger = {} /\ Len(events) = 0
    BY DEF Init
  <2>2. outbox = [i \in DOMAIN events |-> i + 1]
    <3>1. outbox \in Seq(Nat) /\ Len(outbox) = 0 /\ DOMAIN outbox = {}
      BY DEF Init
    <3>2. outbox = [i \in DOMAIN outbox |-> outbox[i]]
      BY <3>1
    <3> QED BY <2>1, <3>1, <3>2
  <2> QED BY <2>1, <2>2 DEF Init, DurableFamiliesAgree, VersionOf
<1>4. WriterHoldsTheRow
  BY DEF Init, WriterHoldsTheRow, At, IdleCall
<1> QED BY <1>1, <1>2, <1>3, <1>4 DEF LogInv

\* The log, the heads and the durable version tell one history, whatever crashes.
THEOREM LogCorrect == Spec => []LogInv
BY LogInit, LogStep, PTL DEF Spec

\* No interleaving of nodes, retries, overrides and crashes loses an update
\* (persistAcceptedTransition's version and hash checks under the row lock).
THEOREM EventsAreAChain == Spec => []ChainUnbroken
<1>1. LogInv => ChainUnbroken
  BY DEF LogInv
<1> QED BY <1>1, LogCorrect, PTL

\* Version, heads, event tail, outbox and idempotency records tell one history
\* in every reachable state (one transaction writes them all).
THEOREM FamiliesAgree == Spec => []DurableFamiliesAgree
<1>1. LogInv => DurableFamiliesAgree
  BY DEF LogInv
<1> QED BY <1>1, LogCorrect, PTL

-------------------------------------------------------------------------------
(* The block of a game.                                                    *)

\* A step that writes an event for a client starts from an open game.
LEMMA BlockStep ==
  ASSUME LogInv, [Next]_vars, game.blocked, events' # events
  PROVE  events'[Len(events')].effect.key = Override
<1>1. FacilitatorOverride
  BY StepSummary, CommitIsSound DEF LogInv, DatabaseStep
<1> DEFINE e == Effect(Override, Override, NoDraw)
<1>2. e \in Effects /\ Apply(game.state, e)
  BY <1>1 DEF FacilitatorOverride, Effects
<1>3. e.key = Override
  BY DEF Effect
<1> HIDE DEF e
<1>4. events'[Len(events) + 1].effect = e /\ Len(events') = Len(events) + 1
  BY <1>2, ApplyContinues
<1> QED BY <1>3, <1>4

\* reconcileDurableGame's block stops every client command, also one that
\* recovered its state before the block (persistAcceptedTransition reads
\* recovery_blocked under the row lock).
THEOREM BlockIsRespected == Spec => CommandsRespectTheBlock
<1>1. ASSUME LogInv, [Next]_vars
      PROVE  [game.blocked /\ events' # events
                => events'[Len(events')].effect.key = Override]_vars
  BY <1>1, BlockStep
<1> QED BY <1>1, LogCorrect, PTL DEF Spec, CommandsRespectTheBlock

-------------------------------------------------------------------------------
(* The log of commands.                                                    *)

\* At most one call is told in a step that it was accepted, and then a record
\* of its command is in the ledger.
ToldStep ==
  \/ \A d \in Calls : Resolved(d)' => call'[d] = call[d]
  \/ /\ UNCHANGED events
     /\ \E c \in Calls :
          /\ Resolved(c)'
          /\ call'[c].key = call[c].key /\ call'[c].print = call[c].print
          /\ \E r \in ledger : r.key = call[c].key /\ r.print = call[c].print
          /\ \A d \in Calls \ {c} : call'[d] = call[d]

\* An answer that resolves.
LEMMA ResolveTells ==
  ASSUME TypeOK, NEW c \in Calls, NEW x, Resolve(c, x), UNCHANGED events,
         \E r \in ledger : r.key = call[c].key /\ r.print = call[c].print
  PROVE  ToldStep
BY DEF Resolve, Answer, ToldStep, TypeOK, Resolved, Answered, At

\* An answer that refuses.
LEMMA RefuseTells ==
  ASSUME TypeOK, NEW c \in Calls, NEW s \in Refusals, Refuse(c, s)
  PROVE  ToldStep
<1> SUFFICES ASSUME NEW d \in Calls, Resolved(d)' PROVE call'[d] = call[d]
  BY DEF ToldStep
<1>1. call' = [call EXCEPT ![c] = [pc |-> "done", key |-> call[c].key,
                                   print |-> call[c].print, reply |-> [status |-> s]]]
  BY DEF Refuse, Answer
<1>2. s # "RESOLVED"
  BY DEF Refusals
<1>3. CASE d = c
  <2>1. call'[d].reply.status = s
    BY <1>1, <1>3 DEF TypeOK
  <2> QED BY <1>2, <2>1 DEF Resolved
<1>4. CASE d # c
  BY <1>1, <1>4 DEF TypeOK
<1> QED BY <1>3, <1>4

\* A step that answers nobody.
LEMMA MoveTells ==
  ASSUME NEW c \in Calls, call'[c].pc # "done",
         \A d \in Calls \ {c} : call'[d] = call[d]
  PROVE  ToldStep
BY DEF ToldStep, Resolved, Answered, At

\* A step of the program of a call tells nothing but what it returns.
LEMMA GotoTells ==
  ASSUME TypeOK, NEW c \in Calls, InFlight(c), NEW pc \in Stages, Goto(c, pc)
  PROVE  ToldStep
<1>1. call'[c].pc = pc /\ \A d \in Calls \ {c} : call'[d] = call[d]
  BY GotoMoves
<1>2. pc # "done"
  BY DEF Stages
<1> QED BY <1>1, <1>2, MoveTells

\* Every step tells one call at most.
LEMMA ToldSummary ==
  ASSUME LogInv, [Next]_vars
  PROVE  ToldStep
<1>0. TypeInv /\ TypeOK
  BY DEF LogInv, TypeInv
<1>1. ASSUME NEW c \in Calls, NEW n \in Nodes, NEW k \in Keys, NEW p \in Prints,
             NEW v \in 1 .. game.version, Submit(c, n, k, p, v)
      PROVE  ToldStep
  <2>1. call'[c].pc = "queued" /\ \A d \in Calls \ {c} : call'[d] = call[d]
    BY <1>0, <1>1 DEF Submit, TypeOK
  <2> QED BY <2>1, MoveTells
<1>2. ASSUME NEW c \in Calls, FastLookup(c) PROVE ToldStep
  <2>1. InFlight(c) /\ UNCHANGED events
    BY <1>2, WriterIsHead DEF FastLookup, database
  <2>2. CASE Goto(c, "recover")
    BY <1>0, <2>1, <2>2, GotoTells DEF Stages
  <2>3. CASE \E r \in Matches(c) : Resolve(c, r.result)
    BY <1>0, <2>1, <2>3, ResolveTells DEF Matches, KeyRows
  <2>4. CASE Refuse(c, "KEY_REUSED")
    BY <1>0, <2>4, RefuseTells DEF Refusals
  <2> QED BY <1>2, <2>2, <2>3, <2>4 DEF FastLookup
<1>3. ASSUME NEW c \in Calls, Reconcile(c) PROVE ToldStep
  <2>1. InFlight(c)
    BY <1>3, WriterIsHead DEF Reconcile
  <2>2. CASE Refuse(c, "ERROR")
    BY <1>0, <2>2, RefuseTells DEF Refusals
  <2>3. CASE Goto(c, "readRow")
    BY <1>0, <2>1, <2>3, GotoTells DEF Stages
  <2> QED BY <1>3, <2>2, <2>3 DEF Reconcile
<1>4. ASSUME NEW c \in Calls, ReadGameRow(c) PROVE ToldStep
  <2>1. call[c] \in ActiveCalls
    BY <1>0, <1>4, WriterIsHead, ActiveCall DEF ReadGameRow
  <2>2. call' = [call EXCEPT ![c] = [[call[c] EXCEPT !.pc = "readTail"] EXCEPT !.row = game.version]]
    BY <1>4 DEF ReadGameRow
  <2>3. call'[c].pc = "readTail" /\ \A d \in Calls \ {c} : call'[d] = call[d]
    BY <1>0, <2>1, <2>2 DEF TypeOK, ActiveCalls
  <2> QED BY <2>3, MoveTells
<1>5. ASSUME NEW c \in Calls, EngineAccepts(c) PROVE ToldStep
  BY <1>0, <1>5, AcceptMoves, MoveTells
<1>6. ASSUME NEW c \in Calls,
             ReplayTorn(c) \/ EngineRejects(c) \/ DrawThrows(c) \/ PersistRefuses(c)
               \/ PersistStale(c) \/ WriteFails(c) \/ CommitUnheard(c)
      PROVE  ToldStep
  <2>1. \E s \in Refusals : Refuse(c, s)
    BY <1>6 DEF ReplayTorn, EngineRejects, DrawThrows, PersistRefuses, PersistStale,
                WriteFails, CommitUnheard, Refusals
  <2> QED BY <1>0, <2>1, RefuseTells
<1>7. ASSUME NEW c \in Calls, PersistFindsCommitted(c) PROVE ToldStep
  <2>1. \E r \in ledger : r.key = call[c].key /\ r.print = call[c].print
    BY <1>7 DEF PersistFindsCommitted, Matches, KeyRows
  <2> QED BY <1>0, <1>7, <2>1, ResolveTells DEF PersistFindsCommitted, database
<1>8. ASSUME NEW c \in Calls, Finalize(c) PROVE ToldStep
  <2>1. \E r \in ledger : r.key = call[c].key /\ r.print = call[c].print
    BY <1>8 DEF Finalize, LogInv, WriterHoldsTheRow
  <2> QED BY <1>0, <1>8, <2>1, ResolveTells DEF Finalize, database
<1>9. ASSUME NEW c \in Calls, BeginWrite(c) \/ Commit(c) PROVE ToldStep
  <2>1. InFlight(c)
    BY <1>0, <1>9, WriterIsHead, PersistingIsHead DEF BeginWrite, HasLock, Commit
  <2>2. Goto(c, "writing") \/ Goto(c, "committed")
    BY <1>9 DEF BeginWrite, Commit
  <2> QED BY <1>0, <2>1, <2>2, GotoTells DEF Stages
<1>10. CASE FacilitatorOverride \/ Corrupt \/ UNCHANGED vars
  BY <1>10 DEF FacilitatorOverride, Corrupt, vars, ToldStep
<1>11. ASSUME NEW n \in Nodes, Crash(n) PROVE ToldStep
  <2> SUFFICES ASSUME NEW d \in Calls, Resolved(d)' PROVE call'[d] = call[d]
    BY DEF ToldStep
  <2>1. CASE InFlight(d) /\ NodeOf(d) = n
    <3>1. call'[d].reply.status = "LOST"
      BY <1>11, <2>1 DEF Crash
    <3> QED BY <3>1 DEF Resolved
  <2>2. CASE ~ (InFlight(d) /\ NodeOf(d) = n)
    BY <1>11, <2>2 DEF Crash
  <2> QED BY <2>1, <2>2
<1> QED
  BY <1>1, <1>2, <1>3, <1>4, <1>5, <1>6, <1>7, <1>8, <1>9, <1>10, <1>11 DEF Next, Step

\* The entries of the log and the commands some client was told of.
Entry(e) == [key |-> e.effect.key, print |-> e.effect.print]
Entries == [i \in DOMAIN events |-> Entry(events[i])]
Told == {<<call[c].key, call[c].print>> : c \in {x \in Calls : Resolved(x)}}

\* An answer that resolved a command is never taken back.
LEMMA AnswersStand ==
  ASSUME TypeInv, [Next]_vars, NEW d \in Calls, Resolved(d)
  PROVE  call'[d] = call[d]
<1>1. CallStep(d)
  BY StepSummary
<1>2. call[d].pc = "done"
  BY DEF Resolved, Answered, At
<1> QED
  BY <1>1, <1>2, WriterIsHead, PersistingIsHead
     DEF CallStep, At, InFlight, EngineAccepts, BeginWrite, HasLock, Commit

\* What was told is told once more, or a command of the ledger is told.
LEMMA ToldGrows ==
  ASSUME LogInv, [Next]_vars
  PROVE  \/ Told' = Told
         \/ /\ UNCHANGED events
            /\ \E r \in ledger : Told' = Told \cup {<<r.key, r.print>>}
<1>1. Told \subseteq Told'
  <2> SUFFICES ASSUME NEW d \in Calls, Resolved(d)
               PROVE  <<call[d].key, call[d].print>> \in Told'
    BY DEF Told
  <2>1. call'[d] = call[d]
    BY AnswersStand DEF LogInv
  <2>2. Resolved(d)'
    BY <2>1 DEF Resolved, Answered, At
  <2> QED BY <2>1, <2>2 DEF Told
<1>2. ASSUME NEW d \in Calls, Resolved(d)', call'[d] = call[d]
      PROVE  <<call'[d].key, call'[d].print>> \in Told
  <2>1. Resolved(d)
    BY <1>2 DEF Resolved, Answered, At
  <2> QED BY <1>2, <2>1 DEF Told
<1>3. CASE \A d \in Calls : Resolved(d)' => call'[d] = call[d]
  <2>1. Told' \subseteq Told
    BY <1>2, <1>3 DEF Told
  <2> QED BY <1>1, <2>1
<1>4. CASE /\ UNCHANGED events
           /\ \E c \in Calls :
                /\ Resolved(c)'
                /\ call'[c].key = call[c].key /\ call'[c].print = call[c].print
                /\ \E r \in ledger : r.key = call[c].key /\ r.print = call[c].print
                /\ \A d \in Calls \ {c} : call'[d] = call[d]
  <2>1. PICK c \in Calls :
          /\ Resolved(c)'
          /\ call'[c].key = call[c].key /\ call'[c].print = call[c].print
          /\ \E r \in ledger : r.key = call[c].key /\ r.print = call[c].print
          /\ \A d \in Calls \ {c} : call'[d] = call[d]
    BY <1>4
  <2>2. PICK r \in ledger : r.key = call[c].key /\ r.print = call[c].print
    BY <2>1
  <2>3. <<r.key, r.print>> \in Told'
    <3>1. <<call'[c].key, call'[c].print>> \in Told'
      BY <2>1 DEF Told
    <3> QED BY <2>1, <2>2, <3>1
  <2>4. ASSUME NEW d \in Calls, Resolved(d)'
        PROVE  <<call'[d].key, call'[d].print>> \in Told \cup {<<r.key, r.print>>}
    <3>1. CASE d = c
      BY <2>1, <2>2, <3>1
    <3>2. CASE d # c
      BY <1>2, <2>1, <2>4, <3>2
    <3> QED BY <3>1, <3>2
  <2>5. Told' \subseteq Told \cup {<<r.key, r.print>>}
    BY <2>4 DEF Told
  <2>6. Told' = Told \cup {<<r.key, r.print>>}
    BY <1>1, <2>3, <2>5
  <2> QED BY <1>4, <2>6
<1> QED BY <1>3, <1>4, ToldSummary DEF ToldStep

\* An appended event is an appended entry.
LEMMA EntriesGrow ==
  ASSUME LogInv, NEW e \in Effects, Apply(game.state, e)
  PROVE  Entries' = Append(Entries, [key |-> e.key, print |-> e.print])
<1> DEFINE L == Len(events)
           x == [key |-> e.key, print |-> e.print]
<1>1. /\ DOMAIN events' = 1 .. (L + 1) /\ DOMAIN events = 1 .. L
      /\ \A i \in DOMAIN events : events'[i] = events[i]
      /\ events'[L + 1].effect = e
  BY ApplyContinues
<1>2. L \in Nat
  BY DEF LogInv, TypeInv, TypeOK
<1>3. Entries = [i \in 1 .. L |-> Entry(events[i])]
  BY <1>1 DEF Entries
<1>4. Entries' = [i \in 1 .. (L + 1) |-> Entry(events'[i])]
  BY <1>1 DEF Entries, Entry
<1>5. Entry(events'[L + 1]) = x
  BY <1>1 DEF Entry
<1>6. \A i \in 1 .. L : Entry(events'[i]) = Entry(events[i])
  BY <1>1
<1> DEFINE T == {Entry(events[i]) : i \in 1 .. L} \cup {x}
<1>7. Entries \in Seq(T) /\ Len(Entries) = L /\ x \in T
  BY <1>2, <1>3
<1> HIDE DEF T, x
<1>8. /\ Append(Entries, x) \in Seq(T) /\ Len(Append(Entries, x)) = L + 1
      /\ \A i \in 1 .. L : Append(Entries, x)[i] = Entries[i]
      /\ Append(Entries, x)[L + 1] = x
  BY <1>2, <1>7, AppendProperties
<1>9. DOMAIN Append(Entries, x) = 1 .. (L + 1)
  BY <1>2, <1>8
<1>10. \A i \in 1 .. (L + 1) : Append(Entries, x)[i] = Entries'[i]
  BY <1>2, <1>3, <1>4, <1>5, <1>6, <1>8
<1>11. Append(Entries, x) = [i \in 1 .. (L + 1) |-> Append(Entries, x)[i]]
  <2>1. Append(Entries, x) \in [1 .. (L + 1) -> T]
    BY <1>8, LenProperties
  <2> QED BY <2>1
<1>12. Entries' = [i \in 1 .. (L + 1) |-> Entries'[i]]
  BY <1>4
<1> QED BY <1>10, <1>11, <1>12 DEF x

\* Every step of the nodes and the database is a step of the command log.
LEMMA LogNext ==
  ASSUME LogInv, [Next]_vars
  PROVE  [Log!Next]_(Log!vars)
<1> DEFINE Written(k, p) == Entries' = Append(Entries, [key |-> k, print |-> p])
<1>0. TypeInv /\ TypeOK
  BY DEF LogInv, TypeInv
<1>1. CASE \E c \in Calls : Commit(c)
  <2>1. PICK c \in Calls : Commit(c)
    BY <1>1
  <2>2. /\ OwnEffect(c) \in Effects /\ Apply(game.state, OwnEffect(c))
        /\ call[c].key \in Keys /\ call[c].print \in Prints
        /\ \A i \in DOMAIN events : events[i].effect.key # call[c].key
    BY <2>1, CommitIsSound
  <2>3. Written(call[c].key, call[c].print)
    BY <2>2, EntriesGrow DEF OwnEffect, Effect
  <2>4. ~ \E i \in DOMAIN Entries : Entries[i].key = call[c].key
    BY <2>2 DEF Entries, Entry
  <2>5. events' # events
    BY <1>0, <2>2, ApplyContinues DEF TypeOK
  <2>6. Told' = Told
    BY <2>5, ToldGrows
  <2> QED BY <2>2, <2>3, <2>4, <2>6
          DEF Log!Next, Log!Execute, Log!Executed, Entries, Entry, Told
<1>2. CASE FacilitatorOverride
  <2> DEFINE e == Effect(Override, Override, NoDraw)
  <2>1. e \in Effects /\ Apply(game.state, e) /\ e.key = Override /\ e.print = Override
    BY <1>2 DEF FacilitatorOverride, Effects, Effect
  <2> HIDE DEF e
  <2>2. Written(Override, Override)
    BY <2>1, EntriesGrow
  <2>3. events' # events
    BY <1>0, <2>1, ApplyContinues DEF TypeOK
  <2>4. Told' = Told
    BY <2>3, ToldGrows
  <2> QED BY <2>2, <2>4 DEF Log!Next, Log!RecordOverride, Entries, Entry, Told
<1>3. CASE UNCHANGED events
  <2>1. Entries' = Entries
    BY <1>3 DEF Entries
  <2>2. CASE Told' = Told
    BY <2>1, <2>2 DEF Log!vars, Entries, Entry, Told
  <2>3. CASE \E r \in ledger : Told' = Told \cup {<<r.key, r.print>>}
    <3>1. PICK r \in ledger : Told' = Told \cup {<<r.key, r.print>>}
      BY <2>3
    <3>2. r.key \in Keys /\ r.print \in Prints
      BY <1>0 DEF TypeOK
    <3>3. PICK i \in DOMAIN events : events[i].effect = Effect(r.key, r.print, r.result.draw)
      BY DEF LogInv, DurableFamiliesAgree
    <3>4. i \in DOMAIN Entries /\ Entries[i] = [key |-> r.key, print |-> r.print]
      BY <3>3 DEF Entries, Entry, Effect
    <3>5. Log!Tell(r.key, r.print)
      <4>1. \E j \in DOMAIN Entries : Entries[j] = [key |-> r.key, print |-> r.print]
        BY <3>4
      <4> QED BY <2>1, <3>1, <4>1 DEF Log!Tell, Entries, Entry, Told
    <3> QED BY <3>2, <3>5 DEF Log!Next
  <2> QED BY <2>2, <2>3, ToldGrows
<1> QED BY <1>0, <1>1, <1>2, <1>3, StepSummary DEF DatabaseStep

\* The nodes, the row lock, the retries and the crashes implement CommandLog: a
\* key is executed once, and a client is told only of what is in the log.
THEOREM DurableImplementsCommandLog == Spec => ImplementsCommandLog
<1>1. Init => Log!Init
  <2> SUFFICES ASSUME Init PROVE Log!Init
    OBVIOUS
  <2>1. Entries = <<>>
    <3>1. DOMAIN events = {}
      BY DEF Init
    <3> QED BY <3>1 DEF Entries
  <2>2. Told = {}
    BY DEF Init, Told, Resolved, Answered, At, IdleCall
  <2> QED BY <2>1, <2>2 DEF Log!Init, Entries, Entry, Told
<1>2. LogInv /\ [Next]_vars => [Log!Next]_(Log!vars)
  BY LogNext
<1> QED BY <1>1, <1>2, LogCorrect, PTL DEF Spec, ImplementsCommandLog, Log!Spec

-------------------------------------------------------------------------------
(* Random values.                                                          *)

Persisting(c) == call[c].pc \in {"persist", "writing", "committed"}

\* Every value a provider holds was generated once, for that place.
ValuesAreOneOff ==
  /\ \A n \in Nodes :
       /\ rng[n].cursor <= Len(rng[n].values)
       /\ \A i \in 1 .. Len(rng[n].values) : rng[n].values[i].id \in 1 .. drawn
  /\ \A m, n \in Nodes :
       \A i \in 1 .. Len(rng[m].values), j \in 1 .. Len(rng[n].values) :
         rng[m].values[i].id = rng[n].values[j].id => m = n /\ i = j
  /\ \A e \in DOMAIN events : events[e].effect.draw.id <= drawn

\* The draw of a call that persists is the last value its node gave out.
DrawIsLast ==
  \A c \in Calls : Persisting(c) =>
    LET r == rng[NodeOf(c)] IN
    \/ call[c].draw = NoDraw /\ call[c].checkpoint = r.cursor
    \/ /\ call[c].draw # NoDraw
       /\ call[c].checkpoint + 1 = r.cursor
       /\ r.values[r.cursor] = call[c].draw

\* A value that may still be given out decided no event yet, unless that
\* event's commit was never heard of ...
UnspentIsUnwritten ==
  \A e \in DOMAIN events, n \in Nodes :
    \A i \in (rng[n].cursor + 1) .. Len(rng[n].values) :
      events[e].effect.draw = rng[n].values[i] => rng[n].values[i].id \in unheard

\* ... and so with the draw of a call that may still write it.
PendingIsUnwritten ==
  \A e \in DOMAIN events, c \in Calls :
    /\ At(c, "persist") \/ At(c, "writing")
    /\ call[c].draw # NoDraw
    /\ events[e].effect.draw = call[c].draw
    => call[c].draw.id \in unheard

\* DrawsAreAccounted, in its two halves.
AccountedFor(n, i) ==
  \/ \E e \in DOMAIN events : events[e].effect.draw = rng[n].values[i]
  \/ \E c \in Calls : Resolved(c) /\ call[c].reply.result.draw = rng[n].values[i]
  \/ \E c \in Calls : /\ Persisting(c) /\ NodeOf(c) = n
                      /\ call[c].draw = rng[n].values[i] /\ call[c].checkpoint = i - 1

GivenIsAccounted == \A n \in Nodes : \A i \in 1 .. rng[n].cursor : AccountedFor(n, i)

WrittenOnce ==
  \A i, j \in DOMAIN events :
    /\ i # j
    /\ events[i].effect.draw = events[j].effect.draw
    /\ events[i].effect.draw # NoDraw
    => events[i].effect.draw.id \in unheard

DrawInv ==
  /\ LogInv
  /\ ValuesAreOneOff
  /\ DrawIsLast
  /\ UnspentIsUnwritten
  /\ PendingIsUnwritten
  /\ GivenIsAccounted
  /\ WrittenOnce

\* What is proved of the random values in one step.
DrawFacts ==
  ValuesAreOneOff /\ DrawIsLast /\ UnspentIsUnwritten /\ PendingIsUnwritten
    /\ GivenIsAccounted /\ WrittenOnce

\* A call that persists is in flight, alone on its node.
LEMMA PersistingAlone ==
  ASSUME TypeInv, NEW c \in Calls, Persisting(c)
  PROVE  /\ InFlight(c) /\ Head(writers[NodeOf(c)]) = c /\ NodeOf(c) \in Nodes
         /\ call[c].draw \in Draws /\ call[c].checkpoint \in Nat
         /\ \A d \in Calls : Persisting(d) /\ NodeOf(d) = NodeOf(c) => d = c
<1>1. ASSUME NEW x \in Calls, Persisting(x)
      PROVE  InFlight(x) /\ Head(writers[NodeOf(x)]) = x
  BY <1>1 DEF Persisting, InFlight, TypeInv, QueuesServe, At
<1>2. InFlight(c) /\ Head(writers[NodeOf(c)]) = c
  BY <1>1
<1>3. NodeOf(c) \in Nodes /\ call[c].draw \in Draws /\ call[c].checkpoint \in Nat
  BY <1>2, ActiveCall DEF TypeInv
<1> QED BY <1>1, <1>2, <1>3

\* The providers are records of a sequence of draws and a cursor.
LEMMA ProviderType ==
  ASSUME TypeOK, NEW n \in Nodes
  PROVE  /\ rng[n] \in [values : Seq(Draws), cursor : Nat]
         /\ rng[n].values \in Seq(Draws) /\ rng[n].cursor \in Nat
         /\ Len(rng[n].values) \in Nat
         /\ \A i \in 1 .. Len(rng[n].values) : rng[n].values[i] \in Draws
<1>1. rng[n] \in [values : Seq(Draws), cursor : Nat]
  BY DEF TypeOK
<1>2. rng[n].values \in Seq(Draws) /\ rng[n].cursor \in Nat
  BY <1>1
<1> QED BY <1>1, <1>2, ElementOfSeq, LenProperties

\* What a step that touches neither values nor events does to a call.
QuietCall(d) ==
  \/ call'[d] = call[d]
  \/ ~Persisting(d) /\ ~Resolved(d) /\ ~Persisting(d)'
  \/ /\ At(d, "persist") /\ call'[d].pc = "writing" /\ call'[d].node = call[d].node
     /\ call'[d].draw = call[d].draw /\ call'[d].checkpoint = call[d].checkpoint
  \/ /\ Persisting(d) /\ ~Persisting(d)' /\ Resolved(d)'
     /\ call'[d].reply.result.draw = call[d].draw

\* Such a step keeps the account of the values.
LEMMA QuietDraws ==
  ASSUME DrawInv, UNCHANGED <<rng, drawn, events, unheard>>,
         \A d \in Calls : QuietCall(d)
  PROVE  DrawFacts'
<1>1. ValuesAreOneOff' /\ UnspentIsUnwritten' /\ WrittenOnce'
  BY DEF DrawInv, ValuesAreOneOff, UnspentIsUnwritten, WrittenOnce
<1>2. ASSUME NEW c \in Calls, Persisting(c)'
      PROVE  /\ Persisting(c) /\ NodeOf(c)' = NodeOf(c) /\ call'[c].draw = call[c].draw
             /\ call'[c].checkpoint = call[c].checkpoint
             /\ At(c, "persist")' \/ At(c, "writing")' => At(c, "persist") \/ At(c, "writing")
  BY <1>2 DEF QuietCall, Persisting, NodeOf, At
<1>3. DrawIsLast'
  BY <1>2 DEF DrawInv, DrawIsLast
<1>4. PendingIsUnwritten'
  <2> SUFFICES ASSUME NEW e \in DOMAIN events, NEW c \in Calls,
                      At(c, "persist")' \/ At(c, "writing")',
                      call'[c].draw # NoDraw, events[e].effect.draw = call'[c].draw
               PROVE  call'[c].draw.id \in unheard
    BY DEF PendingIsUnwritten
  <2>1. Persisting(c)'
    BY DEF Persisting, At
  <2> QED BY <1>2, <2>1 DEF DrawInv, PendingIsUnwritten
<1>5. GivenIsAccounted'
  <2> SUFFICES ASSUME NEW n \in Nodes, NEW i \in 1 .. rng[n].cursor
               PROVE  AccountedFor(n, i)'
    BY DEF GivenIsAccounted
  <2>1. AccountedFor(n, i)
    BY DEF DrawInv, GivenIsAccounted
  <2>2. CASE \E e \in DOMAIN events : events[e].effect.draw = rng[n].values[i]
    BY <2>2 DEF AccountedFor
  <2>3. CASE \E c \in Calls : Resolved(c) /\ call[c].reply.result.draw = rng[n].values[i]
    <3>1. PICK c \in Calls : Resolved(c) /\ call[c].reply.result.draw = rng[n].values[i]
      BY <2>3
    <3>2. call'[c] = call[c]
      BY <3>1 DEF QuietCall, Persisting, Resolved, Answered, At
    <3>3. Resolved(c)' /\ call'[c].reply.result.draw = rng'[n].values[i]
      BY <3>1, <3>2 DEF Resolved, Answered, At
    <3> QED BY <3>3 DEF AccountedFor
  <2>4. CASE \E c \in Calls : /\ Persisting(c) /\ NodeOf(c) = n
                              /\ call[c].draw = rng[n].values[i] /\ call[c].checkpoint = i - 1
    <3>1. PICK c \in Calls : /\ Persisting(c) /\ NodeOf(c) = n
                             /\ call[c].draw = rng[n].values[i] /\ call[c].checkpoint = i - 1
      BY <2>4
    <3>2. CASE Resolved(c)' /\ call'[c].reply.result.draw = call[c].draw
      BY <3>1, <3>2 DEF AccountedFor
    <3>3. CASE /\ Persisting(c)' /\ NodeOf(c)' = NodeOf(c)
               /\ call'[c].draw = call[c].draw /\ call'[c].checkpoint = call[c].checkpoint
      BY <3>1, <3>3 DEF AccountedFor
    <3> QED BY <3>1, <3>2, <3>3 DEF QuietCall, Persisting, NodeOf, At
  <2> QED BY <2>1, <2>2, <2>3, <2>4 DEF AccountedFor
<1> QED BY <1>1, <1>3, <1>4, <1>5 DEF DrawFacts

\* What a draw leaves in the provider r and which value it is.
LEMMA DrawingCases ==
  ASSUME TypeOK, ValuesAreOneOff, NEW n \in Nodes, NEW p \in Prints,
         NEW x \in Drawings(rng[n], Faces[p])
  PROVE  \/ x.draw = NoDraw /\ x.provider = rng[n] /\ x.made = 0
         \/ /\ rng[n].cursor + 1 \in 1 .. Len(rng[n].values)
            /\ x.draw = rng[n].values[rng[n].cursor + 1]
            /\ x.provider.values = rng[n].values
            /\ x.provider.cursor = rng[n].cursor + 1
            /\ x.made = 0
         \/ /\ rng[n].cursor = Len(rng[n].values)
            /\ x.draw \in Draws /\ x.draw.id = drawn + 1
            /\ x.provider.values = Append(rng[n].values, x.draw)
            /\ x.provider.cursor = rng[n].cursor + 1
            /\ x.made = 1
<1> DEFINE r == rng[n]
<1>1. /\ r \in [values : Seq(Draws), cursor : Nat] /\ r.values \in Seq(Draws)
      /\ r.cursor \in Nat /\ Len(r.values) \in Nat /\ r.cursor <= Len(r.values)
      /\ Faces[p] \subseteq Nat /\ drawn \in Nat
  BY ProviderType DEF TypeOK, ValuesAreOneOff
<1> HIDE DEF r
<1>2. CASE Faces[p] = {}
  BY <1>2 DEF Drawings, r
<1>3. CASE Faces[p] # {} /\ LeftOver(r)
  <2>1. x = [draw |-> Next1(r), provider |-> [r EXCEPT !.cursor = @ + 1], made |-> 0]
    BY <1>3 DEF Drawings, r
  <2>2. r.cursor + 1 \in 1 .. Len(r.values)
    BY <1>1, <1>3 DEF LeftOver
  <2>3. /\ x.draw = r.values[r.cursor + 1] /\ x.provider.values = r.values
        /\ x.provider.cursor = r.cursor + 1 /\ x.made = 0
    BY <1>1, <2>1 DEF Next1
  <2> QED BY <2>2, <2>3 DEF r
<1>4. CASE Faces[p] # {} /\ ~ LeftOver(r)
  <2>1. PICK f \in Faces[p] :
          x = [draw |-> [id |-> drawn + 1, face |-> f],
               provider |-> [values |-> Append(r.values, [id |-> drawn + 1, face |-> f]),
                             cursor |-> r.cursor + 1],
               made |-> 1]
    BY <1>4 DEF Drawings, r
  <2>2. [id |-> drawn + 1, face |-> f] \in Draws
    BY <1>1 DEF Draws
  <2>3. /\ x.draw = [id |-> drawn + 1, face |-> f]
        /\ x.provider.values = Append(r.values, x.draw)
        /\ x.provider.cursor = r.cursor + 1 /\ x.made = 1
    BY <2>1
  <2>4. r.cursor = Len(r.values)
    BY <1>1, <1>4 DEF LeftOver
  <2>5. x.draw \in Draws /\ x.draw.id = drawn + 1
    BY <2>2, <2>3
  <2> QED BY <2>3, <2>4, <2>5 DEF r
<1> QED BY <1>2, <1>3, <1>4

\* A draw of an accepted command: none, one that was given back, or a new one.
LEMMA AcceptDraws ==
  ASSUME DrawInv, NEW c \in Calls, EngineAccepts(c), NEW n \in Nodes, n = NodeOf(c)
  PROVE  DrawFacts'
<1> DEFINE r == rng[n]
<1>0. TypeInv /\ TypeOK /\ ValuesAreOneOff
  BY DEF DrawInv, LogInv, TypeInv
<1>1. /\ InFlight(c) /\ call[c].pc = "readTail" /\ Head(writers[n]) = c
      /\ call'[c].pc = "persist" /\ call'[c].node = call[c].node
      /\ call'[c].checkpoint = r.cursor
      /\ \A d \in Calls \ {c} : call'[d] = call[d]
  BY <1>0, AcceptMoves
<1>2. n \in Nodes /\ call[c].print \in Prints
  BY <1>0, <1>1, ActiveCall
<1>3. PICK x \in Drawings(rng[n], Faces[call[c].print]) :
        /\ rng' = [rng EXCEPT ![n] = x.provider]
        /\ drawn' = drawn + x.made
        /\ call'[c].draw = x.draw
  BY <1>0, AcceptMoves
<1>4. /\ rng'[n] = x.provider /\ \A m \in Nodes \ {n} : rng'[m] = rng[m]
  BY <1>0, <1>2, <1>3 DEF TypeOK
<1>5. UNCHANGED <<events, unheard>>
  BY DEF EngineAccepts, database
<1>6. /\ r.values \in Seq(Draws) /\ r.cursor \in Nat /\ Len(r.values) \in Nat
      /\ r.cursor <= Len(r.values) /\ drawn \in Nat
  BY <1>0, <1>2, ProviderType DEF ValuesAreOneOff, TypeOK
<1>7. \A d \in Calls : Persisting(d) => NodeOf(d) # n
  <2> SUFFICES ASSUME NEW d \in Calls, Persisting(d), NodeOf(d) = n PROVE FALSE
    OBVIOUS
  <2>1. Head(writers[n]) = d
    BY <1>0, PersistingAlone
  <2> QED BY <1>1, <2>1 DEF Persisting
<1>8. WrittenOnce'
  BY <1>5 DEF DrawInv, WrittenOnce
<1>9. ASSUME NEW d \in Calls \ {c}, Persisting(d)'
      PROVE  Persisting(d) /\ NodeOf(d)' = NodeOf(d) /\ NodeOf(d) \in Nodes \ {n}
  BY <1>0, <1>1, <1>7, <1>9, PersistingAlone DEF Persisting, NodeOf
<1>10. NodeOf(c)' = n
  BY <1>1 DEF NodeOf
<1>11. ASSUME NEW m \in Nodes \ {n}, NEW i \in 1 .. rng[m].cursor
       PROVE  AccountedFor(m, i)'
  <2>1. AccountedFor(m, i) /\ rng'[m] = rng[m]
    BY <1>4 DEF DrawInv, GivenIsAccounted
  <2>2. CASE \E e \in DOMAIN events : events[e].effect.draw = rng[m].values[i]
    BY <1>5, <2>1, <2>2 DEF AccountedFor
  <2>3. CASE \E d \in Calls : Resolved(d) /\ call[d].reply.result.draw = rng[m].values[i]
    BY <1>1, <2>1, <2>3 DEF AccountedFor, Resolved, Answered, At
  <2>4. CASE \E d \in Calls : /\ Persisting(d) /\ NodeOf(d) = m
                              /\ call[d].draw = rng[m].values[i] /\ call[d].checkpoint = i - 1
    BY <1>1, <2>1, <2>4 DEF AccountedFor, Persisting, NodeOf
  <2> QED BY <2>1, <2>2, <2>3, <2>4 DEF AccountedFor
<1>12. ASSUME NEW i \in 1 .. r.cursor, rng'[n].values[i] = r.values[i]
       PROVE  AccountedFor(n, i)'
  <2>1. AccountedFor(n, i)
    BY <1>2 DEF DrawInv, GivenIsAccounted
  <2>2. CASE \E e \in DOMAIN events : events[e].effect.draw = r.values[i]
    BY <1>5, <1>12, <2>2 DEF AccountedFor
  <2>3. CASE \E d \in Calls : Resolved(d) /\ call[d].reply.result.draw = r.values[i]
    BY <1>1, <1>12, <2>3 DEF AccountedFor, Resolved, Answered, At
  <2> QED BY <1>7, <2>1, <2>2, <2>3 DEF AccountedFor
<1>13. ASSUME NEW e \in DOMAIN events, NEW d \in Calls \ {c},
              At(d, "persist")' \/ At(d, "writing")',
              call'[d].draw # NoDraw, events[e].effect.draw = call'[d].draw
       PROVE  call'[d].draw.id \in unheard
  BY <1>1, <1>13 DEF DrawInv, PendingIsUnwritten, At
<1>14. ASSUME NEW d \in Calls \ {c}, Persisting(d)'
       PROVE  LET q == rng'[NodeOf(d)'] IN
              \/ call'[d].draw = NoDraw /\ call'[d].checkpoint = q.cursor
              \/ /\ call'[d].draw # NoDraw
                 /\ call'[d].checkpoint + 1 = q.cursor
                 /\ q.values[q.cursor] = call'[d].draw
  BY <1>1, <1>4, <1>9, <1>14 DEF DrawInv, DrawIsLast
<1> HIDE DEF r
<1>15. CASE x.draw = NoDraw /\ x.provider = rng[n] /\ x.made = 0
  <2>1. rng' = rng /\ drawn' = drawn
    BY <1>0, <1>2, <1>3, <1>6, <1>15 DEF TypeOK
  <2>2. ValuesAreOneOff' /\ UnspentIsUnwritten'
    BY <1>5, <2>1 DEF DrawInv, ValuesAreOneOff, UnspentIsUnwritten
  <2>3. DrawIsLast'
    BY <1>1, <1>3, <1>10, <1>14, <1>15, <2>1 DEF DrawIsLast, r
  <2>4. PendingIsUnwritten'
    BY <1>3, <1>5, <1>13, <1>15 DEF PendingIsUnwritten
  <2>5. GivenIsAccounted'
    BY <1>11, <1>12, <2>1 DEF GivenIsAccounted, r
  <2> QED BY <1>8, <2>2, <2>3, <2>4, <2>5 DEF DrawFacts
<1>16. CASE /\ rng[n].cursor + 1 \in 1 .. Len(rng[n].values)
            /\ x.draw = rng[n].values[rng[n].cursor + 1]
            /\ x.provider.values = rng[n].values
            /\ x.provider.cursor = rng[n].cursor + 1
            /\ x.made = 0
  <2>1. /\ rng'[n].values = r.values /\ rng'[n].cursor = r.cursor + 1 /\ drawn' = drawn
        /\ r.cursor + 1 \in 1 .. Len(r.values) /\ call'[c].draw = r.values[r.cursor + 1]
    BY <1>3, <1>4, <1>6, <1>16 DEF r
  <2>2. \A m \in Nodes : rng'[m].values = rng[m].values
    BY <1>4, <2>1 DEF r
  <2>3. ValuesAreOneOff'
    <3>1. \A m \in Nodes : rng'[m].cursor <= Len(rng'[m].values)
      BY <1>0, <1>4, <1>6, <2>1 DEF ValuesAreOneOff
    <3>2. \A m \in Nodes : \A i \in 1 .. Len(rng'[m].values) : rng'[m].values[i].id \in 1 .. drawn'
      BY <1>0, <2>1, <2>2 DEF ValuesAreOneOff
    <3>3. ASSUME NEW m \in Nodes, NEW k \in Nodes, NEW i \in 1 .. Len(rng'[m].values),
                 NEW j \in 1 .. Len(rng'[k].values),
                 rng'[m].values[i].id = rng'[k].values[j].id
          PROVE  m = k /\ i = j
      <4>1. rng'[m].values = rng[m].values /\ rng'[k].values = rng[k].values
        BY <2>2
      <4>2. /\ i \in 1 .. Len(rng[m].values) /\ j \in 1 .. Len(rng[k].values)
            /\ rng[m].values[i].id = rng[k].values[j].id
        BY <3>3, <4>1
      <4> QED BY <1>0, <4>2 DEF ValuesAreOneOff
    <3>4. \A e \in DOMAIN events' : events'[e].effect.draw.id <= drawn'
      BY <1>0, <1>5, <2>1 DEF ValuesAreOneOff
    <3> QED BY <3>1, <3>2, <3>3, <3>4 DEF ValuesAreOneOff
  <2>4. UnspentIsUnwritten'
    <3> SUFFICES ASSUME NEW e \in DOMAIN events, NEW m \in Nodes,
                        NEW i \in (rng'[m].cursor + 1) .. Len(rng'[m].values),
                        events[e].effect.draw = rng'[m].values[i]
                 PROVE  rng'[m].values[i].id \in unheard
      BY <1>5 DEF UnspentIsUnwritten
    <3>1. i \in (rng[m].cursor + 1) .. Len(rng[m].values)
      BY <1>4, <1>6, <2>1, <2>2 DEF r
    <3> QED BY <2>2, <3>1 DEF DrawInv, UnspentIsUnwritten
  <2>5. call'[c].draw # NoDraw
    BY <1>0, <1>2, <2>1 DEF ValuesAreOneOff, NoDraw, r
  <2>6. DrawIsLast'
    BY <1>1, <1>10, <1>14, <2>1, <2>5 DEF DrawIsLast
  <2>7. PendingIsUnwritten'
    <3>1. ASSUME NEW e \in DOMAIN events, events[e].effect.draw = call'[c].draw
          PROVE  call'[c].draw.id \in unheard
      <4>1. r.cursor + 1 \in (r.cursor + 1) .. Len(r.values)
        BY <1>6, <2>1
      <4> QED BY <1>2, <2>1, <3>1, <4>1 DEF DrawInv, UnspentIsUnwritten, r
    <3> QED BY <1>5, <1>13, <3>1 DEF PendingIsUnwritten
  <2>8. GivenIsAccounted'
    <3> SUFFICES ASSUME NEW m \in Nodes, NEW i \in 1 .. rng'[m].cursor
                 PROVE  AccountedFor(m, i)'
      BY DEF GivenIsAccounted
    <3>1. CASE m # n
      BY <1>4, <1>11, <3>1
    <3>2. CASE m = n /\ i = r.cursor + 1
      <4>1. Persisting(c)' /\ call'[c].checkpoint = i - 1 /\ call'[c].draw = rng'[m].values[i]
        BY <1>1, <1>6, <2>1, <3>2 DEF Persisting
      <4> QED BY <1>10, <3>2, <4>1 DEF AccountedFor
    <3>3. CASE m = n /\ i \in 1 .. r.cursor
      BY <1>12, <2>1, <3>3
    <3> QED BY <1>6, <2>1, <3>1, <3>2, <3>3
  <2> QED BY <1>8, <2>3, <2>4, <2>6, <2>7, <2>8 DEF DrawFacts
<1>17. CASE /\ rng[n].cursor = Len(rng[n].values)
            /\ x.draw \in Draws /\ x.draw.id = drawn + 1
            /\ x.provider.values = Append(rng[n].values, x.draw)
            /\ x.provider.cursor = rng[n].cursor + 1
            /\ x.made = 1
  <2> DEFINE L == Len(r.values)
  <2>1. /\ rng'[n].values = Append(r.values, x.draw) /\ rng'[n].cursor = L + 1
        /\ drawn' = drawn + 1 /\ r.cursor = L /\ x.draw \in Draws /\ x.draw.id = drawn + 1
    BY <1>3, <1>4, <1>6, <1>17 DEF r
  <2>2. /\ Len(rng'[n].values) = L + 1
        /\ \A i \in 1 .. L : rng'[n].values[i] = r.values[i]
        /\ rng'[n].values[L + 1] = x.draw
    BY <1>6, <2>1, AppendProperties
  <2>3. /\ \A i \in 1 .. L : rng'[n].values[i].id \in 1 .. drawn
        /\ \A m \in Nodes \ {n} : \A i \in 1 .. Len(rng'[m].values) :
             rng'[m].values[i].id \in 1 .. drawn
    BY <1>0, <1>2, <1>4, <2>2 DEF ValuesAreOneOff, r
  <2>4. ValuesAreOneOff'
    <3>1. ASSUME NEW m \in Nodes
          PROVE  /\ rng'[m].cursor <= Len(rng'[m].values)
                 /\ \A i \in 1 .. Len(rng'[m].values) : rng'[m].values[i].id \in 1 .. drawn'
      <4>1. CASE m = n
        <5>1. ASSUME NEW i \in 1 .. (L + 1) PROVE rng'[n].values[i].id \in 1 .. (drawn + 1)
          <6>1. CASE i = L + 1
            BY <1>6, <2>1, <2>2, <6>1
          <6>2. CASE i \in 1 .. L
            <7>1. rng'[n].values[i].id \in 1 .. drawn
              BY <2>2, <2>3, <6>2
            <7> QED BY <1>6, <7>1
          <6> QED BY <1>6, <6>1, <6>2
        <5>2. rng'[n].cursor <= Len(rng'[n].values) /\ Len(rng'[n].values) = L + 1
          BY <1>6, <2>1, <2>2
        <5> QED BY <2>1, <4>1, <5>1, <5>2
      <4>2. CASE m # n
        BY <1>0, <1>4, <1>6, <2>1, <2>3, <4>2 DEF ValuesAreOneOff
      <4> QED BY <4>1, <4>2
    <3>2. ASSUME NEW m \in Nodes, NEW k \in Nodes, NEW i \in 1 .. Len(rng'[m].values),
                 NEW j \in 1 .. Len(rng'[k].values),
                 rng'[m].values[i].id = rng'[k].values[j].id
          PROVE  m = k /\ i = j
      <4> DEFINE New(q, l) == q = n /\ l = L + 1
      <4>1. ASSUME NEW q \in Nodes, NEW l \in 1 .. Len(rng'[q].values)
            PROVE  \/ New(q, l) /\ rng'[q].values[l].id = drawn + 1
                   \/ /\ ~New(q, l) /\ l \in 1 .. Len(rng[q].values)
                      /\ rng'[q].values[l] = rng[q].values[l]
                      /\ rng'[q].values[l].id \in 1 .. drawn
        <5>1. CASE q = n /\ l = L + 1
          BY <2>1, <2>2, <5>1
        <5>2. CASE q = n /\ l \in 1 .. L
          <6>1. ~New(q, l)
            BY <1>6, <5>2
          <6>2. l \in 1 .. Len(rng[q].values) /\ rng'[q].values[l] = rng[q].values[l]
            BY <2>2, <5>2 DEF r
          <6>3. rng'[q].values[l].id \in 1 .. drawn
            BY <2>2, <2>3, <5>2, <6>2 DEF r
          <6> QED BY <6>1, <6>2, <6>3
        <5>3. CASE q # n
          BY <1>4, <2>3, <5>3
        <5> QED BY <1>6, <2>2, <5>1, <5>2, <5>3
      <4>2. CASE New(m, i) /\ New(k, j)
        BY <4>2
      <4>3. CASE ~New(m, i) /\ ~New(k, j)
        <5>1. /\ i \in 1 .. Len(rng[m].values) /\ j \in 1 .. Len(rng[k].values)
              /\ rng[m].values[i].id = rng[k].values[j].id
          BY <3>2, <4>1, <4>3
        <5> QED BY <1>0, <5>1 DEF ValuesAreOneOff
      <4>4. CASE New(m, i) /\ ~New(k, j)
        <5>1. rng'[m].values[i].id = drawn + 1 /\ rng'[k].values[j].id \in 1 .. drawn
          BY <4>1, <4>4
        <5> QED BY <1>6, <3>2, <5>1
      <4>5. CASE ~New(m, i) /\ New(k, j)
        <5>1. rng'[k].values[j].id = drawn + 1 /\ rng'[m].values[i].id \in 1 .. drawn
          BY <4>1, <4>5
        <5> QED BY <1>6, <3>2, <5>1
      <4> QED BY <4>2, <4>3, <4>4, <4>5
    <3>3. \A e \in DOMAIN events : events[e].effect.draw.id <= drawn'
      <4> SUFFICES ASSUME NEW e \in DOMAIN events PROVE events[e].effect.draw.id <= drawn + 1
        BY <2>1
      <4>1. events[e].effect.draw.id \in Nat
        <5>1. events \in Seq([effect : Effects, after : States])
          BY <1>0 DEF TypeOK
        <5>2. events[e] \in [effect : Effects, after : States]
          BY <5>1, ElementOfSeq, LenProperties
        <5>3. events[e].effect \in Effects
          BY <5>2
        <5> QED BY <5>3 DEF Effects, Effect, Draws, NoDraw
      <4> QED BY <1>0, <1>6, <4>1 DEF ValuesAreOneOff
    <3> QED BY <1>5, <3>1, <3>2, <3>3 DEF ValuesAreOneOff
  <2>5. \A e \in DOMAIN events : events[e].effect.draw # x.draw
    BY <1>0, <1>6, <2>1 DEF ValuesAreOneOff
  <2>6. UnspentIsUnwritten'
    <3> SUFFICES ASSUME NEW e \in DOMAIN events, NEW m \in Nodes,
                        NEW i \in (rng'[m].cursor + 1) .. Len(rng'[m].values),
                        events[e].effect.draw = rng'[m].values[i]
                 PROVE  rng'[m].values[i].id \in unheard
      BY <1>5 DEF UnspentIsUnwritten
    <3>1. m # n
      BY <1>6, <2>1, <2>2
    <3> QED BY <1>4, <3>1 DEF DrawInv, UnspentIsUnwritten
  <2>7. call'[c].draw = x.draw /\ x.draw # NoDraw
    BY <1>3, <1>6, <2>1 DEF NoDraw
  <2>8. DrawIsLast'
    BY <1>1, <1>10, <1>14, <2>1, <2>2, <2>7 DEF DrawIsLast
  <2>9. PendingIsUnwritten'
    BY <1>5, <1>13, <2>5, <2>7 DEF PendingIsUnwritten
  <2>10. GivenIsAccounted'
    <3> SUFFICES ASSUME NEW m \in Nodes, NEW i \in 1 .. rng'[m].cursor
                 PROVE  AccountedFor(m, i)'
      BY DEF GivenIsAccounted
    <3>1. CASE m # n
      BY <1>4, <1>11, <3>1
    <3>2. CASE m = n /\ i = L + 1
      <4>1. Persisting(c)' /\ call'[c].checkpoint = i - 1 /\ call'[c].draw = rng'[m].values[i]
        BY <1>1, <1>6, <2>1, <2>2, <2>7, <3>2 DEF Persisting
      <4> QED BY <1>10, <3>2, <4>1 DEF AccountedFor
    <3>3. CASE m = n /\ i \in 1 .. L
      BY <1>12, <2>1, <2>2, <3>3
    <3> QED BY <1>6, <2>1, <3>1, <3>2, <3>3
  <2> QED BY <1>8, <2>4, <2>6, <2>8, <2>9, <2>10 DEF DrawFacts
<1> QED BY <1>0, <1>2, <1>15, <1>16, <1>17, DrawingCases

\* A refused or failed call gives its value back (the coordinator's restore).
LEMMA RestoreDraws ==
  ASSUME DrawInv, NEW c \in Calls, Persisting(c), NEW n \in Nodes, n = NodeOf(c),
         NEW s \in Refusals, Refuse(c, s), RestoreRandom(c),
         UNCHANGED <<events, drawn>>,
         \/ ~At(c, "committed") /\ unheard' = unheard
         \/ unheard' = unheard \cup {call[c].draw.id}
  PROVE  DrawFacts'
<1> DEFINE r == rng[n]
<1>0. TypeInv /\ TypeOK
  BY DEF DrawInv, LogInv, TypeInv
<1>1. /\ call[c].draw \in Draws /\ call[c].checkpoint \in Nat
      /\ \A d \in Calls : Persisting(d) /\ NodeOf(d) = n => d = c
  BY <1>0, PersistingAlone
<1>2. /\ \A d \in Calls \ {c} : call'[d] = call[d]
      /\ call'[c].pc = "done" /\ ~Resolved(c)
  BY <1>0 DEF Refuse, Answer, TypeOK, Persisting, Resolved, Answered, At
<1>3. /\ r \in [values : Seq(Draws), cursor : Nat] /\ r.cursor \in Nat
      /\ Len(r.values) \in Nat
  BY <1>0, ProviderType
<1>4. /\ rng'[n].values = r.values /\ rng'[n].cursor = call[c].checkpoint
      /\ \A m \in Nodes \ {n} : rng'[m] = rng[m]
  <2>1. rng' = [rng EXCEPT ![n] = [rng[n] EXCEPT !.cursor = call[c].checkpoint]]
    BY DEF RestoreRandom
  <2>2. rng'[n] = [r EXCEPT !.cursor = call[c].checkpoint]
    BY <1>0, <2>1 DEF TypeOK
  <2> QED BY <1>0, <1>3, <2>1, <2>2 DEF TypeOK
<1>5. \/ call[c].draw = NoDraw /\ call[c].checkpoint = r.cursor
      \/ /\ call[c].draw # NoDraw /\ call[c].checkpoint + 1 = r.cursor
         /\ r.values[r.cursor] = call[c].draw
  BY DEF DrawInv, DrawIsLast
<1>6. \A m \in Nodes : rng'[m].values = rng[m].values
  BY <1>4
<1>7. unheard \subseteq unheard'
  OBVIOUS
<1> HIDE DEF r
<1>8. ValuesAreOneOff'
  <2>1. \A m \in Nodes : rng'[m].cursor <= Len(rng'[m].values)
    <3>1. r.cursor <= Len(r.values)
      BY DEF DrawInv, ValuesAreOneOff, r
    <3>2. rng'[n].cursor <= Len(rng'[n].values)
      BY <1>1, <1>3, <1>4, <1>5, <3>1
    <3> QED BY <1>4, <3>2 DEF DrawInv, ValuesAreOneOff
  <2>2. \A m \in Nodes : \A i \in 1 .. Len(rng'[m].values) : rng'[m].values[i].id \in 1 .. drawn'
    BY <1>6 DEF DrawInv, ValuesAreOneOff
  <2>3. ASSUME NEW m \in Nodes, NEW k \in Nodes, NEW i \in 1 .. Len(rng'[m].values),
               NEW j \in 1 .. Len(rng'[k].values),
               rng'[m].values[i].id = rng'[k].values[j].id
        PROVE  m = k /\ i = j
    <3>1. rng'[m].values = rng[m].values /\ rng'[k].values = rng[k].values
      BY <1>6
    <3>2. /\ i \in 1 .. Len(rng[m].values) /\ j \in 1 .. Len(rng[k].values)
          /\ rng[m].values[i].id = rng[k].values[j].id
      BY <2>3, <3>1
    <3> QED BY <3>2 DEF DrawInv, ValuesAreOneOff
  <2>4. \A e \in DOMAIN events' : events'[e].effect.draw.id <= drawn'
    BY DEF DrawInv, ValuesAreOneOff
  <2> QED BY <2>1, <2>2, <2>3, <2>4 DEF ValuesAreOneOff
<1>9. DrawIsLast'
  <2> SUFFICES ASSUME NEW d \in Calls, Persisting(d)'
               PROVE  LET q == rng'[NodeOf(d)'] IN
                      \/ call'[d].draw = NoDraw /\ call'[d].checkpoint = q.cursor
                      \/ /\ call'[d].draw # NoDraw
                         /\ call'[d].checkpoint + 1 = q.cursor
                         /\ q.values[q.cursor] = call'[d].draw
    BY DEF DrawIsLast
  <2>1. d # c /\ call'[d] = call[d]
    BY <1>2 DEF Persisting
  <2>2. Persisting(d) /\ NodeOf(d)' = NodeOf(d)
    BY <2>1 DEF Persisting, NodeOf
  <2>3. NodeOf(d) \in Nodes \ {n}
    BY <1>0, <1>1, <2>1, <2>2, PersistingAlone
  <2>4. rng'[NodeOf(d)'] = rng[NodeOf(d)]
    BY <1>4, <2>2, <2>3
  <2> QED BY <2>1, <2>2, <2>4 DEF DrawInv, DrawIsLast
<1>10. UnspentIsUnwritten'
  <2> SUFFICES ASSUME NEW e \in DOMAIN events, NEW m \in Nodes,
                      NEW i \in (rng'[m].cursor + 1) .. Len(rng'[m].values),
                      events[e].effect.draw = rng'[m].values[i]
               PROVE  rng'[m].values[i].id \in unheard'
    BY DEF UnspentIsUnwritten
  <2>1. CASE m # n
    BY <1>4, <1>7, <2>1 DEF DrawInv, UnspentIsUnwritten
  <2>2. CASE m = n /\ i \in (r.cursor + 1) .. Len(r.values)
    BY <1>4, <1>7, <2>2 DEF DrawInv, UnspentIsUnwritten, r
  <2>3. CASE m = n /\ i = r.cursor /\ call[c].draw # NoDraw
    <3>1. events[e].effect.draw = call[c].draw /\ rng'[m].values[i] = call[c].draw
      BY <1>4, <1>5, <2>3
    <3>2. CASE ~At(c, "committed")
      <4>1. At(c, "persist") \/ At(c, "writing")
        BY <3>2 DEF Persisting, At
      <4>2. call[c].draw.id \in unheard
        BY <2>3, <3>1, <4>1 DEF DrawInv, PendingIsUnwritten
      <4> QED BY <1>7, <3>1, <4>2
    <3>3. CASE unheard' = unheard \cup {call[c].draw.id}
      BY <3>1, <3>3
    <3> QED BY <3>2, <3>3
  <2>4. m = n => \/ i \in (r.cursor + 1) .. Len(r.values)
                 \/ i = r.cursor /\ call[c].draw # NoDraw
    BY <1>1, <1>3, <1>4, <1>5
  <2> QED BY <2>1, <2>2, <2>3, <2>4
<1>11. PendingIsUnwritten'
  <2> SUFFICES ASSUME NEW e \in DOMAIN events, NEW d \in Calls,
                      At(d, "persist")' \/ At(d, "writing")',
                      call'[d].draw # NoDraw, events[e].effect.draw = call'[d].draw
               PROVE  call'[d].draw.id \in unheard'
    BY DEF PendingIsUnwritten
  <2>1. call'[d] = call[d]
    BY <1>2 DEF At
  <2> QED BY <1>7, <2>1 DEF DrawInv, PendingIsUnwritten, At
<1>12. GivenIsAccounted'
  <2> SUFFICES ASSUME NEW m \in Nodes, NEW i \in 1 .. rng'[m].cursor
               PROVE  AccountedFor(m, i)'
    BY DEF GivenIsAccounted
  <2>1. rng'[m].values[i] = rng[m].values[i]
    BY <1>6
  <2>2. i \in 1 .. rng[m].cursor /\ (m = n => i <= call[c].checkpoint)
    BY <1>1, <1>3, <1>4, <1>5 DEF r
  <2>3. AccountedFor(m, i)
    BY <2>2 DEF DrawInv, GivenIsAccounted
  <2>4. CASE \E e \in DOMAIN events : events[e].effect.draw = rng[m].values[i]
    BY <2>1, <2>4 DEF AccountedFor
  <2>5. CASE \E d \in Calls : Resolved(d) /\ call[d].reply.result.draw = rng[m].values[i]
    <3>1. PICK d \in Calls : Resolved(d) /\ call[d].reply.result.draw = rng[m].values[i]
      BY <2>5
    <3>2. call'[d] = call[d]
      BY <1>2, <3>1
    <3> QED BY <2>1, <3>1, <3>2 DEF AccountedFor, Resolved, Answered, At
  <2>6. CASE \E d \in Calls : /\ Persisting(d) /\ NodeOf(d) = m
                              /\ call[d].draw = rng[m].values[i] /\ call[d].checkpoint = i - 1
    <3>1. PICK d \in Calls : /\ Persisting(d) /\ NodeOf(d) = m
                             /\ call[d].draw = rng[m].values[i] /\ call[d].checkpoint = i - 1
      BY <2>6
    <3>2. d # c
      BY <1>1, <2>2, <3>1
    <3>3. call'[d] = call[d]
      BY <1>2, <3>2
    <3> QED BY <2>1, <3>1, <3>3 DEF AccountedFor, Persisting, NodeOf
  <2> QED BY <2>3, <2>4, <2>5, <2>6 DEF AccountedFor
<1>13. WrittenOnce'
  BY <1>7 DEF DrawInv, WrittenOnce
<1> QED BY <1>8, <1>9, <1>10, <1>11, <1>12, <1>13 DEF DrawFacts

\* A node that dies takes its values with it.
LEMMA CrashDraws ==
  ASSUME DrawInv, NEW n \in Nodes, Crash(n)
  PROVE  DrawFacts'
<1>0. TypeInv /\ TypeOK
  BY DEF DrawInv, LogInv, TypeInv
<1>1. UNCHANGED <<events, drawn, unheard>>
  BY DEF Crash, database
<1>2. /\ rng'[n] = [values |-> <<>>, cursor |-> 0]
      /\ \A m \in Nodes \ {n} : rng'[m] = rng[m]
  BY <1>0 DEF Crash, TypeOK
<1>3. rng'[n].values = <<>> /\ rng'[n].cursor = 0 /\ Len(rng'[n].values) = 0
  BY <1>2
<1>4. ASSUME NEW d \in Calls
      PROVE  /\ call'[d].pc # "done" => call'[d] = call[d]
             /\ Persisting(d)' => NodeOf(d) \in Nodes \ {n}
             /\ ~InFlight(d) \/ NodeOf(d) # n => call'[d] = call[d]
  <2>1. CASE InFlight(d) /\ NodeOf(d) = n
    <3>1. call'[d].pc = "done"
      BY <2>1 DEF Crash
    <3> QED BY <2>1, <3>1 DEF Persisting
  <2>2. CASE ~(InFlight(d) /\ NodeOf(d) = n)
    <3>1. call'[d] = call[d]
      BY <2>2 DEF Crash
    <3>2. Persisting(d)' => Persisting(d)
      BY <3>1 DEF Persisting
    <3> QED BY <1>0, <2>2, <3>1, <3>2, PersistingAlone
  <2> QED BY <2>1, <2>2
<1>5. ValuesAreOneOff'
  <2>1. ASSUME NEW m \in Nodes, NEW i \in 1 .. Len(rng'[m].values)
        PROVE  m # n /\ rng'[m] = rng[m]
    BY <1>2, <1>3
  <2>2. \A m \in Nodes : rng'[m].cursor <= Len(rng'[m].values)
    BY <1>2, <1>3 DEF DrawInv, ValuesAreOneOff
  <2>3. \A m \in Nodes : \A i \in 1 .. Len(rng'[m].values) : rng'[m].values[i].id \in 1 .. drawn'
    BY <1>1, <2>1 DEF DrawInv, ValuesAreOneOff
  <2>4. ASSUME NEW m \in Nodes, NEW k \in Nodes, NEW i \in 1 .. Len(rng'[m].values),
               NEW j \in 1 .. Len(rng'[k].values),
               rng'[m].values[i].id = rng'[k].values[j].id
        PROVE  m = k /\ i = j
    <3>1. rng'[m] = rng[m] /\ rng'[k] = rng[k]
      BY <2>1
    <3>2. /\ i \in 1 .. Len(rng[m].values) /\ j \in 1 .. Len(rng[k].values)
          /\ rng[m].values[i].id = rng[k].values[j].id
      BY <2>4, <3>1
    <3> QED BY <3>2 DEF DrawInv, ValuesAreOneOff
  <2>5. \A e \in DOMAIN events' : events'[e].effect.draw.id <= drawn'
    BY <1>1 DEF DrawInv, ValuesAreOneOff
  <2> QED BY <2>2, <2>3, <2>4, <2>5 DEF ValuesAreOneOff
<1>6. DrawIsLast'
  <2> SUFFICES ASSUME NEW d \in Calls, Persisting(d)'
               PROVE  LET q == rng'[NodeOf(d)'] IN
                      \/ call'[d].draw = NoDraw /\ call'[d].checkpoint = q.cursor
                      \/ /\ call'[d].draw # NoDraw
                         /\ call'[d].checkpoint + 1 = q.cursor
                         /\ q.values[q.cursor] = call'[d].draw
    BY DEF DrawIsLast
  <2>1. call'[d] = call[d] /\ Persisting(d) /\ NodeOf(d)' = NodeOf(d)
    BY <1>4 DEF Persisting, NodeOf
  <2>2. rng'[NodeOf(d)'] = rng[NodeOf(d)]
    BY <1>2, <1>4, <2>1
  <2> QED BY <2>1, <2>2 DEF DrawInv, DrawIsLast
<1>7. UnspentIsUnwritten'
  <2> SUFFICES ASSUME NEW e \in DOMAIN events, NEW m \in Nodes,
                      NEW i \in (rng'[m].cursor + 1) .. Len(rng'[m].values),
                      events[e].effect.draw = rng'[m].values[i]
               PROVE  rng'[m].values[i].id \in unheard
    BY <1>1 DEF UnspentIsUnwritten
  <2>1. m # n
    BY <1>3
  <2> QED BY <1>2, <2>1 DEF DrawInv, UnspentIsUnwritten
<1>8. PendingIsUnwritten'
  BY <1>1, <1>4 DEF DrawInv, PendingIsUnwritten, At
<1>9. GivenIsAccounted'
  <2> SUFFICES ASSUME NEW m \in Nodes, NEW i \in 1 .. rng'[m].cursor
               PROVE  AccountedFor(m, i)'
    BY DEF GivenIsAccounted
  <2>1. m # n /\ rng'[m] = rng[m]
    BY <1>2, <1>3
  <2>2. AccountedFor(m, i)
    BY <2>1 DEF DrawInv, GivenIsAccounted
  <2>3. CASE \E e \in DOMAIN events : events[e].effect.draw = rng[m].values[i]
    BY <1>1, <2>1, <2>3 DEF AccountedFor
  <2>4. CASE \E d \in Calls : Resolved(d) /\ call[d].reply.result.draw = rng[m].values[i]
    <3>1. PICK d \in Calls : Resolved(d) /\ call[d].reply.result.draw = rng[m].values[i]
      BY <2>4
    <3>2. call'[d] = call[d]
      BY <1>4, <3>1 DEF Resolved, Answered, At, InFlight
    <3> QED BY <2>1, <3>1, <3>2 DEF AccountedFor, Resolved, Answered, At
  <2>5. CASE \E d \in Calls : /\ Persisting(d) /\ NodeOf(d) = m
                              /\ call[d].draw = rng[m].values[i] /\ call[d].checkpoint = i - 1
    <3>1. PICK d \in Calls : /\ Persisting(d) /\ NodeOf(d) = m
                             /\ call[d].draw = rng[m].values[i] /\ call[d].checkpoint = i - 1
      BY <2>5
    <3>2. call'[d] = call[d]
      BY <1>4, <2>1, <3>1
    <3> QED BY <2>1, <3>1, <3>2 DEF AccountedFor, Persisting, NodeOf
  <2> QED BY <2>2, <2>3, <2>4, <2>5 DEF AccountedFor
<1>10. WrittenOnce'
  BY <1>1 DEF DrawInv, WrittenOnce
<1> QED BY <1>5, <1>6, <1>7, <1>8, <1>9, <1>10 DEF DrawFacts

\* Two places of the providers with one identity are one place.
LEMMA OneOff ==
  ASSUME DrawInv, NEW m \in Nodes, NEW k \in Nodes, NEW i \in 1 .. Len(rng[m].values),
         NEW j \in 1 .. Len(rng[k].values), rng[m].values[i].id = rng[k].values[j].id
  PROVE  m = k /\ i = j
BY DEF DrawInv, ValuesAreOneOff

\* An event that is written carries no draw, or that of the call that writes.
LEMMA AppendDraws ==
  ASSUME DrawInv, UNCHANGED <<rng, drawn, unheard>>,
         NEW e \in Effects, Apply(game.state, e),
         \/ e.draw = NoDraw /\ UNCHANGED call
         \/ \E c \in Calls :
              /\ At(c, "writing") /\ e.draw = call[c].draw
              /\ call'[c].pc = "committed" /\ call'[c].node = call[c].node
              /\ call'[c].draw = call[c].draw /\ call'[c].checkpoint = call[c].checkpoint
              /\ \A d \in Calls \ {c} : call'[d] = call[d]
  PROVE  DrawFacts'
<1> DEFINE L == Len(events)
           Writes(c) == /\ At(c, "writing") /\ e.draw = call[c].draw
                        /\ call'[c].pc = "committed"
           Old(i) == i \in DOMAIN events /\ events'[i] = events[i]
<1>0. TypeInv /\ TypeOK
  BY DEF DrawInv, LogInv, TypeInv
<1>1. /\ DOMAIN events' = 1 .. (L + 1) /\ DOMAIN events = 1 .. L
      /\ \A i \in DOMAIN events : events'[i] = events[i]
      /\ events'[L + 1].effect = e /\ L \in Nat
  BY <1>0, ApplyContinues DEF DrawInv, TypeOK
<1>2. ASSUME NEW d \in Calls
      PROVE  /\ \/ call'[d] = call[d]
                \/ /\ At(d, "writing") /\ call'[d].pc = "committed"
                   /\ call'[d].node = call[d].node /\ call'[d].draw = call[d].draw
                   /\ call'[d].checkpoint = call[d].checkpoint
             /\ Writes(d) \/ call'[d] = call[d]
  OBVIOUS
<1>3. e.draw = NoDraw \/ \E c \in Calls : Writes(c)
  OBVIOUS
<1>4. ASSUME NEW d \in Calls, Persisting(d), call[d].draw # NoDraw
      PROVE  /\ NodeOf(d) \in Nodes
             /\ rng[NodeOf(d)].cursor \in 1 .. Len(rng[NodeOf(d)].values)
             /\ rng[NodeOf(d)].values[rng[NodeOf(d)].cursor] = call[d].draw
  <2>1. NodeOf(d) \in Nodes /\ call[d].checkpoint \in Nat
    BY <1>0, <1>4, PersistingAlone
  <2>2. /\ call[d].checkpoint + 1 = rng[NodeOf(d)].cursor
        /\ rng[NodeOf(d)].values[rng[NodeOf(d)].cursor] = call[d].draw
    BY <1>4 DEF DrawInv, DrawIsLast
  <2>3. /\ rng[NodeOf(d)].cursor <= Len(rng[NodeOf(d)].values)
        /\ Len(rng[NodeOf(d)].values) \in Nat /\ rng[NodeOf(d)].cursor \in Nat
    BY <1>0, <2>1, ProviderType DEF DrawInv, ValuesAreOneOff
  <2> QED BY <2>1, <2>2, <2>3
<1>5. e.draw # NoDraw =>
        \E c \in Calls : /\ Writes(c) /\ Persisting(c) /\ NodeOf(c) \in Nodes
                         /\ rng[NodeOf(c)].cursor \in 1 .. Len(rng[NodeOf(c)].values)
                         /\ rng[NodeOf(c)].values[rng[NodeOf(c)].cursor] = e.draw
  BY <1>3, <1>4 DEF Persisting, At
<1>6. e.draw.id <= drawn
  <2>1. CASE e.draw = NoDraw
    BY <1>0, <2>1 DEF NoDraw, TypeOK
  <2>2. CASE e.draw # NoDraw
    <3>1. PICK c \in Calls : /\ NodeOf(c) \in Nodes
                             /\ rng[NodeOf(c)].cursor \in 1 .. Len(rng[NodeOf(c)].values)
                             /\ rng[NodeOf(c)].values[rng[NodeOf(c)].cursor] = e.draw
      BY <1>5, <2>2
    <3>2. e.draw.id \in 1 .. drawn
      BY <3>1 DEF DrawInv, ValuesAreOneOff
    <3> QED BY <1>0, <3>2 DEF TypeOK
  <2> QED BY <2>1, <2>2
<1>7. ValuesAreOneOff'
  <2>1. \A i \in DOMAIN events' : events'[i].effect.draw.id <= drawn
    BY <1>1, <1>6 DEF DrawInv, ValuesAreOneOff
  <2> QED BY <2>1 DEF DrawInv, ValuesAreOneOff
<1>8. DrawIsLast'
  <2> SUFFICES ASSUME NEW d \in Calls, Persisting(d)'
               PROVE  LET q == rng[NodeOf(d)'] IN
                      \/ call'[d].draw = NoDraw /\ call'[d].checkpoint = q.cursor
                      \/ /\ call'[d].draw # NoDraw
                         /\ call'[d].checkpoint + 1 = q.cursor
                         /\ q.values[q.cursor] = call'[d].draw
    BY DEF DrawIsLast
  <2>1. /\ Persisting(d) /\ NodeOf(d)' = NodeOf(d) /\ call'[d].draw = call[d].draw
        /\ call'[d].checkpoint = call[d].checkpoint
    BY <1>2 DEF Persisting, NodeOf, At
  <2> QED BY <2>1 DEF DrawInv, DrawIsLast
<1>9. UnspentIsUnwritten'
  <2> SUFFICES ASSUME NEW i \in 1 .. (L + 1), NEW m \in Nodes,
                      NEW j \in (rng[m].cursor + 1) .. Len(rng[m].values),
                      events'[i].effect.draw = rng[m].values[j]
               PROVE  rng[m].values[j].id \in unheard
    BY <1>1 DEF UnspentIsUnwritten
  <2>1. CASE i \in 1 .. L
    BY <1>1, <2>1 DEF DrawInv, UnspentIsUnwritten
  <2>2. CASE i = L + 1
    <3>1. e.draw = rng[m].values[j]
      BY <1>1, <2>2
    <3>2. j \in 1 .. Len(rng[m].values) /\ rng[m].cursor \in Nat
      BY <1>0, ProviderType
    <3>3. e.draw # NoDraw
      BY <3>1, <3>2 DEF DrawInv, ValuesAreOneOff, NoDraw
    <3>4. PICK c \in Calls : /\ NodeOf(c) \in Nodes
                             /\ rng[NodeOf(c)].cursor \in 1 .. Len(rng[NodeOf(c)].values)
                             /\ rng[NodeOf(c)].values[rng[NodeOf(c)].cursor] = e.draw
      BY <1>5, <3>3
    <3>5. rng[NodeOf(c)].values[rng[NodeOf(c)].cursor].id = rng[m].values[j].id
      BY <3>1, <3>4
    <3>6. NodeOf(c) = m /\ rng[NodeOf(c)].cursor = j
      BY <3>2, <3>4, <3>5, OneOff
    <3> QED BY <3>2, <3>6
  <2> QED BY <1>1, <2>1, <2>2
<1>10. PendingIsUnwritten'
  <2> SUFFICES ASSUME NEW i \in 1 .. (L + 1), NEW d \in Calls,
                      call'[d].pc = "persist" \/ call'[d].pc = "writing",
                      call'[d].draw # NoDraw, events'[i].effect.draw = call'[d].draw
               PROVE  call'[d].draw.id \in unheard
    BY <1>1 DEF PendingIsUnwritten, At
  <2>1. call'[d] = call[d] /\ ~Writes(d) /\ Persisting(d)
    BY <1>2 DEF Persisting
  <2>2. CASE i \in 1 .. L
    BY <1>1, <2>1, <2>2 DEF DrawInv, PendingIsUnwritten, At
  <2>3. CASE i = L + 1
    <3>1. e.draw = call[d].draw /\ e.draw # NoDraw
      BY <1>1, <2>1, <2>3
    <3>2. PICK c \in Calls : /\ Writes(c) /\ Persisting(c) /\ NodeOf(c) \in Nodes
                             /\ rng[NodeOf(c)].cursor \in 1 .. Len(rng[NodeOf(c)].values)
                             /\ rng[NodeOf(c)].values[rng[NodeOf(c)].cursor] = e.draw
      BY <1>5, <3>1
    <3>3. /\ NodeOf(d) \in Nodes
          /\ rng[NodeOf(d)].cursor \in 1 .. Len(rng[NodeOf(d)].values)
          /\ rng[NodeOf(d)].values[rng[NodeOf(d)].cursor] = e.draw
      BY <1>4, <2>1, <3>1
    <3>4. NodeOf(c) = NodeOf(d)
      <4>1. rng[NodeOf(c)].values[rng[NodeOf(c)].cursor].id
              = rng[NodeOf(d)].values[rng[NodeOf(d)].cursor].id
        BY <3>2, <3>3
      <4> QED BY <3>2, <3>3, <4>1, OneOff
    <3>5. c = d
      BY <1>0, <2>1, <3>2, <3>4, PersistingAlone
    <3> QED BY <2>1, <3>2, <3>5
  <2> QED BY <1>1, <2>2, <2>3
<1>11. GivenIsAccounted'
  <2> SUFFICES ASSUME NEW m \in Nodes, NEW i \in 1 .. rng[m].cursor
               PROVE  AccountedFor(m, i)'
    BY DEF GivenIsAccounted
  <2>1. AccountedFor(m, i)
    BY DEF DrawInv, GivenIsAccounted
  <2>2. CASE \E k \in DOMAIN events : events[k].effect.draw = rng[m].values[i]
    <3>1. PICK k \in DOMAIN events : events[k].effect.draw = rng[m].values[i]
      BY <2>2
    <3>2. k \in DOMAIN events' /\ events'[k].effect.draw = rng'[m].values[i]
      BY <1>1, <3>1
    <3> QED BY <3>2 DEF AccountedFor
  <2>3. CASE \E d \in Calls : Resolved(d) /\ call[d].reply.result.draw = rng[m].values[i]
    <3>1. PICK d \in Calls : Resolved(d) /\ call[d].reply.result.draw = rng[m].values[i]
      BY <2>3
    <3>2. call'[d] = call[d]
      BY <1>2, <3>1 DEF Resolved, Answered, At
    <3> QED BY <3>1, <3>2 DEF AccountedFor, Resolved, Answered, At
  <2>4. CASE \E d \in Calls : /\ Persisting(d) /\ NodeOf(d) = m
                              /\ call[d].draw = rng[m].values[i] /\ call[d].checkpoint = i - 1
    <3>1. PICK d \in Calls : /\ Persisting(d) /\ NodeOf(d) = m
                             /\ call[d].draw = rng[m].values[i] /\ call[d].checkpoint = i - 1
      BY <2>4
    <3>2. /\ Persisting(d)' /\ NodeOf(d)' = NodeOf(d) /\ call'[d].draw = call[d].draw
          /\ call'[d].checkpoint = call[d].checkpoint
      BY <1>2, <3>1 DEF Persisting, NodeOf
    <3> QED BY <3>1, <3>2 DEF AccountedFor
  <2> QED BY <2>1, <2>2, <2>3, <2>4 DEF AccountedFor
<1>12. WrittenOnce'
  <2>1. ASSUME NEW i \in 1 .. L, events[i].effect.draw = e.draw, e.draw # NoDraw
        PROVE  e.draw.id \in unheard
    <3>1. PICK c \in Calls : Writes(c)
      BY <1>3, <2>1
    <3> QED BY <1>1, <2>1, <3>1 DEF DrawInv, PendingIsUnwritten
  <2> SUFFICES ASSUME NEW i \in 1 .. (L + 1), NEW j \in 1 .. (L + 1), i # j,
                      events'[i].effect.draw = events'[j].effect.draw,
                      events'[i].effect.draw # NoDraw
               PROVE  events'[i].effect.draw.id \in unheard
    BY <1>1 DEF WrittenOnce
  <2>2. CASE i \in 1 .. L /\ j \in 1 .. L
    BY <1>1, <2>2 DEF DrawInv, WrittenOnce
  <2>3. CASE i = L + 1 /\ j \in 1 .. L
    BY <1>1, <2>1, <2>3
  <2>4. CASE i \in 1 .. L /\ j = L + 1
    BY <1>1, <2>1, <2>4
  <2> QED BY <1>1, <2>2, <2>3, <2>4
<1> QED BY <1>7, <1>8, <1>9, <1>10, <1>11, <1>12 DEF DrawFacts

\* An answer outside the transaction does not touch a draw that is pending.
LEMMA QuietAnswer ==
  ASSUME TypeOK, NEW c \in Calls, InFlight(c), ~Persisting(c), NEW r, Answer(c, r)
  PROVE  \A d \in Calls : QuietCall(d)
BY DEF Answer, QuietCall, TypeOK, Persisting, Resolved, Answered, At, InFlight

\* An answer that resolves returns the draw of the call's own execution.
LEMMA QuietResolve ==
  ASSUME TypeOK, NEW c \in Calls, Persisting(c), Resolve(c, OwnResult(c))
  PROVE  \A d \in Calls : QuietCall(d)
<1>1. /\ call'[c] = [pc |-> "done", key |-> call[c].key, print |-> call[c].print,
                     reply |-> [status |-> "RESOLVED",
                                result |-> [version |-> VersionOf(call[c].before) + 1,
                                            draw |-> call[c].draw]]]
      /\ \A d \in Calls \ {c} : call'[d] = call[d]
  BY DEF Resolve, Answer, OwnResult, TypeOK
<1>2. ~Persisting(c)' /\ Resolved(c)' /\ call'[c].reply.result.draw = call[c].draw
  BY <1>1 DEF Persisting, Resolved, Answered, At
<1> QED BY <1>1, <1>2 DEF QuietCall

\* The account of the random values is kept by every step.
LEMMA DrawStep == DrawInv /\ [Next]_vars => DrawInv'
<1> SUFFICES ASSUME DrawInv, [Next]_vars PROVE DrawFacts'
  BY LogStep DEF DrawInv, DrawFacts
<1>0. TypeInv /\ TypeOK /\ LogInv
  BY DEF DrawInv, LogInv, TypeInv
<1>1. ASSUME NEW c \in Calls, NEW n \in Nodes, NEW k \in Keys, NEW p \in Prints,
             NEW v \in 1 .. game.version, Submit(c, n, k, p, v)
      PROVE  DrawFacts'
  <2>1. call'[c].pc = "queued" /\ \A d \in Calls \ {c} : call'[d] = call[d]
    BY <1>0, <1>1 DEF Submit, TypeOK
  <2>2. \A d \in Calls : QuietCall(d)
    BY <1>1, <2>1 DEF Submit, QuietCall, Persisting, Resolved, Answered, At
  <2> QED BY <1>1, <2>2, QuietDraws DEF Submit, database
<1>2. ASSUME NEW c \in Calls, FastLookup(c) \/ Reconcile(c) PROVE DrawFacts'
  <2>1. InFlight(c) /\ ~Persisting(c)
    BY <1>2, WriterIsHead DEF FastLookup, Reconcile, Persisting, At
  <2>2. Goto(c, "recover") \/ Goto(c, "readRow") \/ \E r : Answer(c, r)
    BY <1>2 DEF FastLookup, Reconcile, Refuse, Resolve
  <2>3. \A d \in Calls : QuietCall(d)
    <3>1. CASE Goto(c, "recover") \/ Goto(c, "readRow")
      <4>1. /\ call'[c].pc \in {"recover", "readRow"}
            /\ \A d \in Calls \ {c} : call'[d] = call[d]
        BY <1>0, <2>1, <3>1, GotoMoves
      <4> QED BY <2>1, <4>1 DEF QuietCall, Persisting, Resolved, Answered, At, InFlight
    <3>2. CASE \E r : Answer(c, r)
      BY <1>0, <2>1, <3>2, QuietAnswer
    <3> QED BY <2>2, <3>1, <3>2
  <2>4. UNCHANGED <<rng, drawn, events, unheard>>
    BY <1>2 DEF FastLookup, Reconcile, database
  <2> QED BY <2>3, <2>4, QuietDraws
<1>3. ASSUME NEW c \in Calls, ReadGameRow(c) PROVE DrawFacts'
  <2>1. call[c] \in ActiveCalls
    BY <1>0, <1>3, WriterIsHead, ActiveCall DEF ReadGameRow
  <2>2. call' = [call EXCEPT ![c] = [[call[c] EXCEPT !.pc = "readTail"] EXCEPT !.row = game.version]]
    BY <1>3 DEF ReadGameRow
  <2>3. call'[c].pc = "readTail" /\ \A d \in Calls \ {c} : call'[d] = call[d]
    BY <1>0, <2>1, <2>2 DEF TypeOK, ActiveCalls
  <2>4. \A d \in Calls : QuietCall(d)
    BY <1>3, <2>3 DEF ReadGameRow, QuietCall, Persisting, Resolved, Answered, At
  <2> QED BY <1>3, <2>4, QuietDraws DEF ReadGameRow, database
<1>4. ASSUME NEW c \in Calls, ReplayTorn(c) \/ EngineRejects(c) \/ DrawThrows(c)
      PROVE  DrawFacts'
  <2>1. InFlight(c) /\ ~Persisting(c)
    BY <1>4, WriterIsHead DEF ReplayTorn, EngineRejects, DrawThrows, Persisting, At
  <2>2. PICK r : Answer(c, r)
    BY <1>4 DEF ReplayTorn, EngineRejects, DrawThrows, Refuse
  <2>3. UNCHANGED <<rng, drawn, events, unheard>>
    BY <1>4 DEF ReplayTorn, EngineRejects, DrawThrows, database
  <2> QED BY <1>0, <2>1, <2>2, <2>3, QuietAnswer, QuietDraws
<1>5. ASSUME NEW c \in Calls, EngineAccepts(c) PROVE DrawFacts'
  <2>1. NodeOf(c) \in Nodes
    BY <1>0, <1>5, WriterIsHead, ActiveCall DEF EngineAccepts
  <2> QED BY <1>5, <2>1, AcceptDraws
<1>6. ASSUME NEW c \in Calls,
             PersistRefuses(c) \/ PersistStale(c) \/ WriteFails(c) \/ CommitUnheard(c)
      PROVE  DrawFacts'
  <2>1. Persisting(c)
    BY <1>6 DEF PersistRefuses, PersistStale, HasLock, WriteFails, CommitUnheard, Persisting, At
  <2>2. NodeOf(c) \in Nodes
    BY <1>0, <2>1, PersistingAlone
  <2>3. RestoreRandom(c) /\ UNCHANGED <<events, drawn>> /\ \E s \in Refusals : Refuse(c, s)
    BY <1>6 DEF PersistRefuses, PersistStale, WriteFails, CommitUnheard, Refusals, database
  <2>4. \/ ~At(c, "committed") /\ unheard' = unheard
        \/ unheard' = unheard \cup {call[c].draw.id}
    BY <1>6 DEF PersistRefuses, PersistStale, HasLock, WriteFails, CommitUnheard, At
  <2> QED BY <2>1, <2>2, <2>3, <2>4, RestoreDraws
<1>7. ASSUME NEW c \in Calls, PersistFindsCommitted(c) \/ Finalize(c) PROVE DrawFacts'
  <2>1. Persisting(c) /\ Resolve(c, OwnResult(c)) /\ UNCHANGED <<rng, drawn, events, unheard>>
    BY <1>7 DEF PersistFindsCommitted, HasLock, Finalize, Persisting, At, database
  <2> QED BY <1>0, <2>1, QuietResolve, QuietDraws
<1>8. ASSUME NEW c \in Calls, BeginWrite(c) PROVE DrawFacts'
  <2>1. InFlight(c) /\ Goto(c, "writing") /\ At(c, "persist")
    BY <1>8, WriterIsHead DEF BeginWrite, HasLock
  <2>2. /\ call'[c] = [call[c] EXCEPT !.pc = "writing"] /\ call[c] \in ActiveCalls
        /\ \A d \in Calls \ {c} : call'[d] = call[d]
    BY <1>0, <2>1, GotoMoves, ActiveCall
  <2>3. /\ call'[c].pc = "writing" /\ call'[c].node = call[c].node
        /\ call'[c].draw = call[c].draw /\ call'[c].checkpoint = call[c].checkpoint
    BY <2>2 DEF ActiveCalls
  <2>4. \A d \in Calls : QuietCall(d)
    BY <2>1, <2>2, <2>3 DEF QuietCall
  <2> QED BY <1>8, <2>4, QuietDraws DEF BeginWrite, database
<1>9. ASSUME NEW c \in Calls, Commit(c) PROVE DrawFacts'
  <2>1. InFlight(c) /\ Goto(c, "committed") /\ At(c, "writing")
    BY <1>0, <1>9, PersistingIsHead DEF Commit
  <2>2. /\ call'[c] = [call[c] EXCEPT !.pc = "committed"] /\ call[c] \in ActiveCalls
        /\ \A d \in Calls \ {c} : call'[d] = call[d]
    BY <1>0, <2>1, GotoMoves, ActiveCall
  <2>3. /\ call'[c].pc = "committed" /\ call'[c].node = call[c].node
        /\ call'[c].draw = call[c].draw /\ call'[c].checkpoint = call[c].checkpoint
    BY <2>2 DEF ActiveCalls
  <2>4. OwnEffect(c) \in Effects /\ Apply(game.state, OwnEffect(c))
    BY <1>0, <1>9, CommitIsSound
  <2>5. OwnEffect(c).draw = call[c].draw
    BY DEF OwnEffect, Effect
  <2>6. UNCHANGED <<rng, drawn, unheard>>
    BY <1>9 DEF Commit
  <2> QED BY <2>1, <2>2, <2>3, <2>4, <2>5, <2>6, AppendDraws
<1>10. CASE FacilitatorOverride
  <2>1. /\ Effect(Override, Override, NoDraw) \in Effects
        /\ Effect(Override, Override, NoDraw).draw = NoDraw
    BY DEF Effects, Effect
  <2> QED BY <1>10, <2>1, AppendDraws DEF FacilitatorOverride
<1>11. ASSUME NEW n \in Nodes, Crash(n) PROVE DrawFacts'
  BY <1>11, CrashDraws
<1>12. CASE Corrupt \/ UNCHANGED vars
  BY <1>12, QuietDraws DEF Corrupt, vars, QuietCall
<1> QED
  BY <1>1, <1>2, <1>3, <1>4, <1>5, <1>6, <1>7, <1>8, <1>9, <1>10, <1>11, <1>12
     DEF Next, Step

\* At the start nothing has been drawn.
LEMMA DrawInit == Init => DrawInv
<1> SUFFICES ASSUME Init PROVE DrawInv
  OBVIOUS
<1>1. LogInv
  BY LogInit
<1>2. DOMAIN events = {}
  BY DEF Init
<1>3. ASSUME NEW n \in Nodes
      PROVE  rng[n].values = <<>> /\ rng[n].cursor = 0 /\ Len(rng[n].values) = 0
  BY DEF Init
<1>4. ValuesAreOneOff /\ GivenIsAccounted /\ UnspentIsUnwritten
  BY <1>2, <1>3 DEF ValuesAreOneOff, GivenIsAccounted, UnspentIsUnwritten
<1>5. DrawIsLast /\ PendingIsUnwritten /\ WrittenOnce
  BY <1>2 DEF Init, DrawIsLast, PendingIsUnwritten, WrittenOnce, Persisting, IdleCall
<1> QED BY <1>1, <1>4, <1>5 DEF DrawInv

\* BufferedTransactionalRandomProvider under checkpoint and restore: no value
\* behind a cursor is unaccounted for, and a value decides one event at most
\* unless a commit of it was never heard of.
THEOREM DrawsAccounted == Spec => []DrawsAreAccounted
<1>1. DrawInv => DrawsAreAccounted
  <2> SUFFICES ASSUME DrawInv PROVE DrawsAreAccounted
    OBVIOUS
  <2>1. \A c \in Calls : Persisting(c) => InFlight(c)
    BY DEF Persisting, InFlight
  <2> QED
    BY <2>1 DEF DrawInv, GivenIsAccounted, AccountedFor, WrittenOnce, DrawsAreAccounted
<1>2. Spec => []DrawInv
  BY DrawInit, DrawStep, PTL DEF Spec
<1> QED BY <1>1, <1>2, PTL

===============================================================================
