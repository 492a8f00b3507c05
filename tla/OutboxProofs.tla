----------------------------- MODULE OutboxProofs -----------------------------
(***************************************************************************)
(* Theorems about Outbox, for every set of games and nodes and every       *)
(* bound: the first hand-over of each message is in order, a settled       *)
(* message was handed over, one node at most holds the authority over a    *)
(* message, and the outbox implements OutboxDelivery.                      *)
(***************************************************************************)
EXTENDS Outbox, TLAPS

USE MaxMessagesAssumption, MaxFaultsAssumption

\* The rows whose claim happened: nothing but CommitMessage precedes it.
Claimed_(m) == row[m].status \in {"CLAIMED", "RETRY_SCHEDULED", "ACKNOWLEDGED"}

Busy(n) == pump[n] # IdleCall

\* A message is claimed only once its predecessors are settled, and an
\* acknowledged row never changes again.
PredecessorsSettled ==
  \A m \in Messages : Claimed_(m) =>
    \A k \in Earlier(m) : row[k].status = "ACKNOWLEDGED"

\* A node works on a claimed message, and past the transport call that
\* message was handed over.
CallsAreClaimed ==
  \A n \in Nodes : Busy(n) =>
    /\ Claimed_(pump[n].msg)
    /\ pump[n].pc \in {"sent", "returned"} => pump[n].msg \in sent

SentIsClaimed == \A m \in sent : Claimed_(m)

SettledWasSent == \A m \in Messages : row[m].status = "ACKNOWLEDGED" => m \in sent

OrderInv ==
  /\ TypeOK
  /\ PredecessorsSettled
  /\ CallsAreClaimed
  /\ SentIsClaimed
  /\ SettledWasSent

\* Every claim of a message has a token of its own.
TokensAreFresh ==
  /\ \A m \in Messages : row[m].token = row[m].attempt
  /\ \A n \in Nodes : Busy(n) => pump[n].token <= row[pump[n].msg].attempt
  /\ \A n1, n2 \in Nodes :
       Busy(n1) /\ Busy(n2) /\ pump[n1].msg = pump[n2].msg /\ n1 # n2
         => pump[n1].token # pump[n2].token

-------------------------------------------------------------------------------
(* Type correctness.                                                       *)

\* A busy pump's call is a full record.
LEMMA BusyCall ==
  ASSUME TypeOK, NEW n \in Nodes, Busy(n)
  PROVE  /\ pump[n] \in [pc : {"claimed", "sending", "sent", "returned", "failing"},
                         msg : Messages, attempt : Nat, token : Nat]
         /\ pump[n].msg \in Messages
BY DEF TypeOK, Calls, Busy

\* A pump whose control state is not "idle" is busy.
LEMMA WorkingIsBusy ==
  ASSUME NEW n \in Nodes, pump[n].pc # "idle"
  PROVE  Busy(n)
BY DEF Busy, IdleCall

\* A step of a busy call keeps it a call.
LEMMA GotoType ==
  ASSUME TypeOK, NEW n \in Nodes, Busy(n), NEW pc \in {"claimed", "sending", "sent", "returned", "failing"},
         Goto(n, pc)
  PROVE  pump' \in [Nodes -> Calls]
<1>1. [pump[n] EXCEPT !.pc = pc] \in Calls
  BY BusyCall DEF Calls
<1>2. pump' = [pump EXCEPT ![n] = [pump[n] EXCEPT !.pc = pc]]
  BY DEF Goto
<1> QED BY <1>1, <1>2 DEF TypeOK

\* Returning to idle keeps the pumps typed.
LEMMA FinishType ==
  ASSUME TypeOK, NEW n \in Nodes, Finish(n)
  PROVE  pump' \in [Nodes -> Calls]
BY DEF Finish, TypeOK, Calls

\* The rows an attempt journals are attempt rows.
LEMMA AttemptType ==
  ASSUME NEW m \in Messages, NEW a \in Nat, NEW s \in Stages, NEW e \in AttemptEvents
  PROVE  Attempt(m, a, s, e) \in AttemptRows
BY DEF Attempt, AttemptRows

\* Every variable keeps its type.
LEMMA TypeStep == TypeOK /\ [Next]_vars => TypeOK'
<1> SUFFICES ASSUME TypeOK, [Next]_vars PROVE TypeOK'
  OBVIOUS
<1>1. ASSUME NEW m \in Messages, CommitMessage(m) PROVE TypeOK'
  BY <1>1 DEF TypeOK, CommitMessage, DeliveryStates, Statuses
<1>2. ASSUME NEW m \in Messages, LeaseRunsOut(m) PROVE TypeOK'
  <2>1. [row[m] EXCEPT !.expired = TRUE] \in DeliveryStates
    BY DEF TypeOK, DeliveryStates
  <2>2. row' = [row EXCEPT ![m] = [row[m] EXCEPT !.expired = TRUE]]
    BY <1>2 DEF LeaseRunsOut
  <2>3. row' \in [Messages -> DeliveryStates]
    BY <2>1, <2>2 DEF TypeOK
  <2>4. faults' \in 0 .. MaxFaults
    <3>1. CASE HeldByNode(m)
      BY <1>2, <3>1 DEF LeaseRunsOut, Fault, TypeOK
    <3>2. CASE ~ HeldByNode(m)
      BY <1>2, <3>2 DEF LeaseRunsOut, TypeOK
    <3> QED BY <3>1, <3>2
  <2>5. UNCHANGED <<journal, pump, accepting, sent>>
    BY <1>2 DEF LeaseRunsOut
  <2> QED BY <2>3, <2>4, <2>5 DEF TypeOK
<1>3. ASSUME NEW n \in Nodes, NEW m \in Messages, ClaimOne(n, m) PROVE TypeOK'
  <2> DEFINE a == row[m].attempt + 1
  <2>1. a \in Nat
    BY DEF TypeOK, DeliveryStates
  <2>2. Attempt(m, a, 1, "CLAIM") \in AttemptRows
    BY <2>1, AttemptType DEF Stages, AttemptEvents
  <2>3. Claimed(m) \in DeliveryStates
    BY <2>1 DEF Claimed, FreshToken, DeliveryStates, Statuses
  <2>4. [pc |-> "claimed", msg |-> m, attempt |-> a, token |-> FreshToken(m)] \in Calls
    BY <2>1 DEF Calls, FreshToken
  <2> QED BY <1>3, <2>2, <2>3, <2>4 DEF TypeOK, ClaimOne
<1>4. ASSUME NEW n \in Nodes, SendStarted(n) PROVE TypeOK'
  <2>1. Busy(n)
    BY <1>4, WorkingIsBusy DEF SendStarted
  <2>2. Attempt(pump[n].msg, pump[n].attempt, 2, "SEND_STARTED") \in AttemptRows
    BY <2>1, BusyCall, AttemptType DEF Stages, AttemptEvents
  <2>3. pump' \in [Nodes -> Calls]
    BY <1>4, <2>1, GotoType, FinishType DEF SendStarted
  <2> QED BY <1>4, <2>2, <2>3 DEF TypeOK, SendStarted
<1>5. ASSUME NEW n \in Nodes, Send(n) PROVE TypeOK'
  <2>1. Busy(n)
    BY <1>5, WorkingIsBusy DEF Send
  <2>2. pump' \in [Nodes -> Calls]
    BY <1>5, <2>1, GotoType DEF Send
  <2> QED BY <1>5, <2>1, <2>2, BusyCall DEF TypeOK, Send
<1>6. ASSUME NEW n \in Nodes, SendReturned(n) PROVE TypeOK'
  <2>1. Busy(n)
    BY <1>6, WorkingIsBusy DEF SendReturned
  <2>2. Attempt(pump[n].msg, pump[n].attempt, 3, "SEND_RETURNED") \in AttemptRows
    BY <2>1, BusyCall, AttemptType DEF Stages, AttemptEvents
  <2>3. pump' \in [Nodes -> Calls]
    BY <1>6, <2>1, GotoType DEF SendReturned
  <2> QED BY <1>6, <2>2, <2>3 DEF TypeOK, SendReturned
<1>7. ASSUME NEW n \in Nodes, RecordFailure(n) PROVE TypeOK'
  <2>1. Busy(n)
    BY <1>7, WorkingIsBusy DEF RecordFailure
  <2>2. /\ Attempt(pump[n].msg, pump[n].attempt, 3, "FAIL") \in AttemptRows
        /\ Attempt(pump[n].msg, pump[n].attempt, 4, "RETRY_SCHEDULED") \in AttemptRows
    BY <2>1, BusyCall, AttemptType DEF Stages, AttemptEvents
  <2>3. pump' \in [Nodes -> Calls]
    BY <1>7, FinishType DEF RecordFailure
  <2>4. row' \in [Messages -> DeliveryStates]
    BY <1>7, <2>1, BusyCall DEF RecordFailure, TypeOK, DeliveryStates, Statuses
  <2> QED BY <1>7, <2>2, <2>3, <2>4 DEF TypeOK, RecordFailure
<1>8. ASSUME NEW n \in Nodes, Acknowledge(n) PROVE TypeOK'
  <2>1. Busy(n)
    BY <1>8, WorkingIsBusy DEF Acknowledge
  <2>2. Attempt(pump[n].msg, pump[n].attempt, 4, "ACK") \in AttemptRows
    BY <2>1, BusyCall, AttemptType DEF Stages, AttemptEvents
  <2>3. pump' \in [Nodes -> Calls]
    BY <1>8, FinishType DEF Acknowledge
  <2>4. row' \in [Messages -> DeliveryStates]
    BY <1>8, <2>1, BusyCall DEF Acknowledge, TypeOK, DeliveryStates, Statuses
  <2> QED BY <1>8, <2>2, <2>3, <2>4 DEF TypeOK, Acknowledge
<1>9. ASSUME NEW n \in Nodes, SendFails(n) PROVE TypeOK'
  <2>1. Busy(n)
    BY <1>9, WorkingIsBusy DEF SendFails
  <2>2. pump' \in [Nodes -> Calls]
    BY <1>9, <2>1, GotoType DEF SendFails
  <2> QED BY <1>9, <2>1, <2>2, BusyCall DEF TypeOK, SendFails, Fault
<1>10. ASSUME NEW n \in Nodes, SendReturnedFails(n) PROVE TypeOK'
  <2>1. Busy(n)
    BY <1>10, WorkingIsBusy DEF SendReturnedFails
  <2>2. Attempt(pump[n].msg, pump[n].attempt, 3, "SEND_RETURNED") \in AttemptRows
    BY <2>1, BusyCall, AttemptType DEF Stages, AttemptEvents
  <2>3. pump' \in [Nodes -> Calls]
    BY <1>10, <2>1, GotoType DEF SendReturnedFails
  <2> QED BY <1>10, <2>2, <2>3 DEF TypeOK, SendReturnedFails, Fault
<1>11. ASSUME NEW n \in Nodes, Abandon(n) PROVE TypeOK'
  BY <1>11, FinishType DEF TypeOK, Abandon, Fault
<1>12. ASSUME NEW n \in Nodes, DrainAndStop(n) PROVE TypeOK'
  BY <1>12 DEF TypeOK, DrainAndStop, Fault
<1>13. ASSUME NEW n \in Nodes, Restart(n) PROVE TypeOK'
  BY <1>13 DEF TypeOK, Restart
<1>14. ASSUME RecoverExpiredLeases PROVE TypeOK'
  <2> DEFINE Expired == {m \in Messages : row[m].status = "CLAIMED" /\ row[m].expired}
  <2>1. row' \in [Messages -> DeliveryStates]
    BY <1>14 DEF RecoverExpiredLeases, TypeOK, DeliveryStates, Statuses
  <2>2. PICK stage \in [Expired -> 1 .. 4] :
          journal' = journal \cup
            {Attempt(m, row[m].attempt, stage[m], "LEASE_EXPIRED") : m \in Expired} \cup
            {Attempt(m, row[m].attempt, stage[m] + 1, "RETRY_SCHEDULED") : m \in Expired}
    BY <1>14 DEF RecoverExpiredLeases
  <2>3. \A m \in Expired : /\ row[m].attempt \in Nat
                           /\ stage[m] \in Stages
                           /\ stage[m] + 1 \in Stages
    BY <2>2 DEF TypeOK, DeliveryStates, Stages
  <2>4. \A m \in Expired :
          /\ Attempt(m, row[m].attempt, stage[m], "LEASE_EXPIRED") \in AttemptRows
          /\ Attempt(m, row[m].attempt, stage[m] + 1, "RETRY_SCHEDULED") \in AttemptRows
    BY <2>3, AttemptType DEF AttemptEvents
  <2>5. journal' \subseteq AttemptRows
    BY <2>2, <2>4 DEF TypeOK
  <2> QED BY <1>14, <2>1, <2>5 DEF TypeOK, RecoverExpiredLeases
<1>15. CASE UNCHANGED vars
  BY <1>15 DEF TypeOK, vars
<1> QED
  BY <1>1, <1>2, <1>3, <1>4, <1>5, <1>6, <1>7, <1>8, <1>9, <1>10, <1>11, <1>12,
     <1>13, <1>14, <1>15 DEF Next, Deliver, PumpFault

\* Every reachable state is typed.
THEOREM TypeCorrect == Spec => []TypeOK
<1>1. Init => TypeOK
  BY DEF Init, TypeOK, DeliveryStates, Statuses, Calls, AttemptRows
<1> QED BY <1>1, TypeStep, PTL DEF Spec

-------------------------------------------------------------------------------
(* Order.                                                                  *)

\* What one step can do to the status of one row.
StatusStep(m) ==
  \/ row'[m].status = row[m].status
  \/ row[m].status = "ABSENT" /\ row'[m].status = "PENDING"
  \/ Claimable(m) /\ row'[m].status = "CLAIMED"
  \/ /\ Claimed_(m)
     /\ row[m].status # "ACKNOWLEDGED"
     /\ row'[m].status = "RETRY_SCHEDULED"
  \/ /\ row[m].status = "CLAIMED"
     /\ row'[m].status = "ACKNOWLEDGED"
     /\ m \in sent

\* What one step can do to the call of one node.
CallStep(n) ==
  \/ pump'[n] = pump[n]
  \/ pump'[n] = IdleCall
  \/ /\ Busy(n)
     /\ pump'[n] # IdleCall
     /\ pump'[n].msg = pump[n].msg
     /\ pump'[n].token = pump[n].token
     /\ \/ pump'[n].pc \in {"sending", "failing"}
        \/ pump'[n].pc = "sent" /\ pump[n].msg \in sent'
        \/ pump[n].pc = "sent" /\ pump'[n].pc = "returned"
  \/ \E m \in Messages :
       /\ ~ Busy(n)
       /\ row'[m].status = "CLAIMED"
       /\ pump'[n].msg = m
       /\ pump'[n].pc = "claimed"

\* Messages are only added to sent, by the busy node that holds them.
SentStep ==
  /\ sent \subseteq sent'
  /\ \A m \in sent' \ sent : \E n \in Nodes : Busy(n) /\ pump[n].msg = m

\* The three summaries hold of every step.
LEMMA StepSummary ==
  ASSUME OrderInv, [Next]_vars
  PROVE  /\ \A m \in Messages : StatusStep(m)
         /\ \A n \in Nodes : CallStep(n)
         /\ SentStep
<1> DEFINE Summary == /\ \A m \in Messages : StatusStep(m)
                      /\ \A n \in Nodes : CallStep(n)
                      /\ SentStep
<1> USE DEF StatusStep, CallStep, SentStep
<1>0. TypeOK
  BY DEF OrderInv
<1>1. ASSUME NEW m \in Messages, CommitMessage(m) PROVE Summary
  BY <1>0, <1>1 DEF TypeOK, CommitMessage, DeliveryStates
<1>2. ASSUME NEW m \in Messages, LeaseRunsOut(m) PROVE Summary
  BY <1>0, <1>2 DEF TypeOK, LeaseRunsOut, DeliveryStates
<1>3. ASSUME NEW n \in Nodes, NEW m \in Messages, ClaimOne(n, m) PROVE Summary
  <2>1. \A k \in Messages : StatusStep(k)
    BY <1>0, <1>3 DEF TypeOK, ClaimOne, Claimed
  <2>2. \A k \in Nodes : CallStep(k)
    BY <1>0, <1>3 DEF TypeOK, ClaimOne, Claimed, Busy
  <2> QED BY <1>3, <2>1, <2>2 DEF ClaimOne
<1>4. ASSUME NEW n \in Nodes, SendStarted(n) PROVE Summary
  <2>1. Busy(n)
    BY <1>4, WorkingIsBusy DEF SendStarted
  <2> QED BY <1>0, <1>4, <2>1, BusyCall DEF TypeOK, SendStarted, Goto, Finish, Busy, IdleCall
<1>5. ASSUME NEW n \in Nodes, Send(n) PROVE Summary
  <2>1. Busy(n)
    BY <1>5, WorkingIsBusy DEF Send
  <2> QED BY <1>0, <1>5, <2>1, BusyCall DEF TypeOK, Send, Goto, Busy, IdleCall
<1>6. ASSUME NEW n \in Nodes, SendReturned(n) PROVE Summary
  <2>1. Busy(n)
    BY <1>6, WorkingIsBusy DEF SendReturned
  <2> QED BY <1>0, <1>6, <2>1, BusyCall DEF TypeOK, SendReturned, Goto, Busy, IdleCall
<1>7. ASSUME NEW n \in Nodes, RecordFailure(n) PROVE Summary
  <2>1. Busy(n) /\ pump[n].msg \in Messages /\ Claimed_(pump[n].msg)
    BY <1>0, <1>7, WorkingIsBusy, BusyCall DEF RecordFailure, OrderInv, CallsAreClaimed
  <2>2. \A m \in Messages : StatusStep(m)
    BY <1>0, <1>7, <2>1 DEF TypeOK, RecordFailure, DeliveryStates
  <2> QED BY <1>0, <1>7, <2>2 DEF TypeOK, RecordFailure, Finish
<1>8. ASSUME NEW n \in Nodes, Acknowledge(n) PROVE Summary
  <2>1. Busy(n) /\ pump[n].msg \in Messages /\ pump[n].msg \in sent
    BY <1>0, <1>8, WorkingIsBusy, BusyCall DEF Acknowledge, OrderInv, CallsAreClaimed
  <2>2. \A m \in Messages : StatusStep(m)
    BY <1>0, <1>8, <2>1 DEF TypeOK, Acknowledge, DeliveryStates
  <2> QED BY <1>0, <1>8, <2>2 DEF TypeOK, Acknowledge, Finish
<1>9. ASSUME NEW n \in Nodes, SendFails(n) PROVE Summary
  <2>1. Busy(n)
    BY <1>9, WorkingIsBusy DEF SendFails
  <2> QED BY <1>0, <1>9, <2>1, BusyCall DEF TypeOK, SendFails, Goto, Busy, IdleCall
<1>10. ASSUME NEW n \in Nodes, SendReturnedFails(n) PROVE Summary
  <2>1. Busy(n)
    BY <1>10, WorkingIsBusy DEF SendReturnedFails
  <2> QED BY <1>0, <1>10, <2>1, BusyCall DEF TypeOK, SendReturnedFails, Goto, Busy, IdleCall
<1>11. ASSUME NEW n \in Nodes, Abandon(n) PROVE Summary
  BY <1>0, <1>11 DEF TypeOK, Abandon, Finish
<1>12. ASSUME NEW n \in Nodes, DrainAndStop(n) \/ Restart(n) PROVE Summary
  BY <1>0, <1>12 DEF TypeOK, DrainAndStop, Restart
<1>13. ASSUME RecoverExpiredLeases PROVE Summary
  BY <1>0, <1>13 DEF TypeOK, RecoverExpiredLeases, Claimed_, DeliveryStates
<1>14. CASE UNCHANGED vars
  BY <1>14 DEF vars
<1> QED
  BY <1>1, <1>2, <1>3, <1>4, <1>5, <1>6, <1>7, <1>8, <1>9, <1>10, <1>11, <1>12,
     <1>13, <1>14 DEF Next, Deliver, PumpFault

\* A settled row stays settled and a claimed row stays claimed.
LEMMA StatusesAdvance ==
  ASSUME OrderInv, [Next]_vars, NEW m \in Messages
  PROVE  /\ row[m].status = "ACKNOWLEDGED" => row'[m].status = "ACKNOWLEDGED"
         /\ Claimed_(m) => Claimed_(m)'
BY StepSummary DEF StatusStep, Claimed_, Claimable

\* The order invariant is inductive.
LEMMA OrderStep == OrderInv /\ [Next]_vars => OrderInv'
<1> SUFFICES ASSUME OrderInv, [Next]_vars PROVE OrderInv'
  OBVIOUS
<1>1. TypeOK'
  BY TypeStep DEF OrderInv
<1>2. PredecessorsSettled'
  <2> SUFFICES ASSUME NEW m \in Messages, Claimed_(m)', NEW k \in Earlier(m)
               PROVE  row'[k].status = "ACKNOWLEDGED"
    BY DEF PredecessorsSettled, Earlier, Messages
  <2>1. k \in Messages
    BY DEF Earlier
  <2>2. Claimed_(m) \/ Claimable(m)
    BY StepSummary DEF StatusStep, Claimed_
  <2>3. row[k].status = "ACKNOWLEDGED"
    BY <2>2 DEF OrderInv, PredecessorsSettled, Claimable
  <2> QED BY <2>1, <2>3, StatusesAdvance
<1>3. CallsAreClaimed'
  <2> SUFFICES ASSUME NEW n \in Nodes, pump'[n] # IdleCall
               PROVE  /\ Claimed_(pump[n].msg)'
                      /\ pump'[n].pc \in {"sent", "returned"} => pump'[n].msg \in sent'
    BY DEF CallsAreClaimed, Busy
  <2>1. CallStep(n) /\ sent \subseteq sent'
    BY StepSummary DEF SentStep
  <2>2. ASSUME Busy(n), pump'[n].msg = pump[n].msg PROVE Claimed_(pump[n].msg)'
    <3>1. pump[n].msg \in Messages /\ Claimed_(pump[n].msg)
      BY <2>2, BusyCall DEF OrderInv, CallsAreClaimed
    <3>2. row'[pump[n].msg].status \in {"CLAIMED", "RETRY_SCHEDULED", "ACKNOWLEDGED"}
      BY <3>1, StatusesAdvance DEF Claimed_
    <3> QED BY <2>2, <3>2 DEF Claimed_
  <2>3. CASE pump'[n] = pump[n]
    BY <2>1, <2>2, <2>3 DEF OrderInv, CallsAreClaimed, Busy
  <2>4. CASE /\ Busy(n)
             /\ pump'[n].msg = pump[n].msg
             /\ \/ pump'[n].pc \in {"sending", "failing"}
                \/ pump'[n].pc = "sent" /\ pump[n].msg \in sent'
                \/ pump[n].pc = "sent" /\ pump'[n].pc = "returned"
    BY <2>1, <2>2, <2>4 DEF OrderInv, CallsAreClaimed
  <2>5. CASE \E m \in Messages : /\ row'[m].status = "CLAIMED"
                                 /\ pump'[n].msg = m
                                 /\ pump'[n].pc = "claimed"
    BY <2>5 DEF Claimed_
  <2> QED BY <2>1, <2>3, <2>4, <2>5 DEF CallStep
<1>4. SentIsClaimed'
  <2> SUFFICES ASSUME NEW m \in sent' PROVE Claimed_(m)'
    BY DEF SentIsClaimed
  <2>1. m \in Messages
    BY <1>1 DEF TypeOK
  <2>2. Claimed_(m)
    BY StepSummary, BusyCall DEF SentStep, OrderInv, SentIsClaimed, CallsAreClaimed
  <2> QED BY <2>1, <2>2, StatusesAdvance
<1>5. SettledWasSent'
  BY StepSummary DEF SettledWasSent, OrderInv, StatusStep, SentStep
<1> QED BY <1>1, <1>2, <1>3, <1>4, <1>5 DEF OrderInv

\* The invariant holds initially.
LEMMA OrderInit == Init => OrderInv
<1> SUFFICES ASSUME Init PROVE OrderInv
  OBVIOUS
<1>1. TypeOK
  BY DEF Init, TypeOK, DeliveryStates, Statuses, Calls, AttemptRows
<1> QED
  BY <1>1 DEF Init, OrderInv, PredecessorsSettled, CallsAreClaimed, SentIsClaimed,
              SettledWasSent, Claimed_, Busy

\* The invariant holds of every reachable state.
THEOREM OrderCorrect == Spec => []OrderInv
BY OrderInit, OrderStep, PTL DEF Spec

\* claimOne, deliver and acknowledge never let the first hand-over of a
\* message overtake that of an earlier message of its game.
THEOREM InOrder == Spec => []FirstSendInOrder
<1>1. OrderInv => FirstSendInOrder
  <2> SUFFICES ASSUME OrderInv, NEW m \in sent, NEW k \in Earlier(m)
               PROVE  k \in sent
    BY DEF FirstSendInOrder
  <2>1. m \in Messages /\ k \in Messages
    BY DEF OrderInv, TypeOK, Earlier
  <2>2. row[k].status = "ACKNOWLEDGED"
    BY <2>1 DEF OrderInv, SentIsClaimed, PredecessorsSettled
  <2> QED BY <2>1, <2>2 DEF OrderInv, SettledWasSent
<1> QED BY <1>1, OrderCorrect, PTL

-------------------------------------------------------------------------------
(* Authority.                                                              *)

AuthorityInv == OrderInv /\ TokensAreFresh

\* Tokens stay fresh.
LEMMA TokenStep == AuthorityInv /\ [Next]_vars => TokensAreFresh'
<1> SUFFICES ASSUME AuthorityInv, [Next]_vars PROVE TokensAreFresh'
  OBVIOUS
<1> DEFINE RowsKept == \A m \in Messages : /\ row'[m].token = row[m].token
                                          /\ row'[m].attempt = row[m].attempt
           CallsKept == \A n \in Nodes : pump'[n] # IdleCall =>
                          /\ Busy(n)
                          /\ pump'[n].msg = pump[n].msg
                          /\ pump'[n].token = pump[n].token
<1>0. TypeOK /\ OrderInv /\ TokensAreFresh
  BY DEF AuthorityInv, OrderInv
<1>1. ASSUME NEW n \in Nodes, NEW m \in Messages, ClaimOne(n, m) PROVE TokensAreFresh'
  <2>1. /\ row'[m].token = row[m].attempt + 1
        /\ row'[m].attempt = row[m].attempt + 1
        /\ \A k \in Messages \ {m} : row'[k] = row[k]
        /\ row[m].attempt \in Nat
    BY <1>0, <1>1 DEF ClaimOne, Claimed, FreshToken, TypeOK, DeliveryStates
  <2>2. /\ ~ Busy(n)
        /\ pump'[n].msg = m
        /\ pump'[n].token = row[m].attempt + 1
        /\ \A k \in Nodes \ {n} : pump'[k] = pump[k]
    BY <1>0, <1>1 DEF ClaimOne, FreshToken, TypeOK, Busy
  <2>3. \A k \in Nodes \ {n} : Busy(k) =>
          /\ pump[k].msg \in Messages
          /\ pump[k].token \in Nat
          /\ pump[k].token <= row[pump[k].msg].attempt
    BY <1>0, BusyCall DEF TokensAreFresh
  <2>4. \A k \in Messages : row'[k].token = row'[k].attempt
    BY <1>0, <2>1 DEF TokensAreFresh
  <2>5. \A k \in Nodes : pump'[k] # IdleCall => pump'[k].token <= row'[pump'[k].msg].attempt
    <3> SUFFICES ASSUME NEW k \in Nodes, pump'[k] # IdleCall
                 PROVE  pump'[k].token <= row'[pump'[k].msg].attempt
      OBVIOUS
    <3>1. CASE k = n
      BY <2>1, <2>2, <3>1
    <3>2. CASE k # n
      <4>1. /\ pump'[k] = pump[k]
            /\ pump[k].msg \in Messages
            /\ pump[k].token \in Nat
            /\ pump[k].token <= row[pump[k].msg].attempt
        BY <2>2, <2>3, <3>2 DEF Busy
      <4>2. CASE pump[k].msg = m
        BY <2>1, <4>1, <4>2
      <4>3. CASE pump[k].msg # m
        BY <2>1, <4>1, <4>3
      <4> QED BY <4>2, <4>3
    <3> QED BY <3>1, <3>2
  <2>6. \A k \in Nodes \ {n} : pump'[k] # IdleCall /\ pump'[k].msg = m
          => pump'[k].token # pump'[n].token
    BY <2>1, <2>2, <2>3 DEF Busy
  <2>7. \A k1, k2 \in Nodes :
          pump'[k1] # IdleCall /\ pump'[k2] # IdleCall /\ pump'[k1].msg = pump'[k2].msg
          /\ k1 # k2 => pump'[k1].token # pump'[k2].token
    <3> SUFFICES ASSUME NEW k1 \in Nodes, NEW k2 \in Nodes, pump'[k1] # IdleCall,
                        pump'[k2] # IdleCall, pump'[k1].msg = pump'[k2].msg, k1 # k2
                 PROVE  pump'[k1].token # pump'[k2].token
      OBVIOUS
    <3>1. CASE k1 # n /\ k2 # n
      BY <1>0, <2>2, <3>1 DEF TokensAreFresh, Busy
    <3>2. CASE k1 = n
      BY <2>2, <2>6, <3>2
    <3>3. CASE k2 = n
      BY <2>2, <2>6, <3>3
    <3> QED BY <3>1, <3>2, <3>3
  <2> QED BY <2>4, <2>5, <2>7 DEF TokensAreFresh, Busy
<1>2. ASSUME RowsKept, CallsKept PROVE TokensAreFresh'
  <2>1. \A n \in Nodes : Busy(n) => pump[n].msg \in Messages
    BY <1>0, BusyCall
  <2> QED BY <1>0, <1>2, <2>1 DEF TokensAreFresh, Busy
<1>3. ASSUME NEW m \in Messages, CommitMessage(m) \/ LeaseRunsOut(m)
      PROVE  RowsKept /\ CallsKept
  BY <1>0, <1>3 DEF TypeOK, CommitMessage, LeaseRunsOut, DeliveryStates, Busy
<1>4. ASSUME NEW n \in Nodes, Deliver(n) \/ PumpFault(n) \/ Restart(n)
      PROVE  CallsKept
  <2>1. \A k \in Nodes \ {n} : pump'[k] = pump[k]
    BY <1>0, <1>4 DEF TypeOK, Deliver, PumpFault, SendStarted, Send, SendReturned, RecordFailure,
       Acknowledge, SendFails, SendReturnedFails, Abandon, DrainAndStop, Restart, Goto, Finish
  <2>2. ASSUME NEW pc \in {"claimed", "sending", "sent", "returned", "failing"}, Goto(n, pc), Busy(n)
        PROVE  pump'[n].msg = pump[n].msg /\ pump'[n].token = pump[n].token
    BY <1>0, <2>2, BusyCall DEF TypeOK, Goto
  <2>3. \/ pump'[n] = pump[n]
        \/ pump'[n] = IdleCall
        \/ Busy(n) /\ \E pc \in {"claimed", "sending", "sent", "returned", "failing"} : Goto(n, pc)
    <3>1. CASE Deliver(n)
      BY <1>0, <3>1, WorkingIsBusy DEF TypeOK, Deliver, SendStarted, Send, SendReturned,
         RecordFailure, Acknowledge, Finish
    <3>2. CASE PumpFault(n)
      BY <1>0, <3>2, WorkingIsBusy DEF TypeOK, PumpFault, SendFails, SendReturnedFails, Abandon,
         DrainAndStop, Finish
    <3>3. CASE Restart(n)
      BY <3>3 DEF Restart
    <3> QED BY <1>4, <3>1, <3>2, <3>3
  <2> QED BY <2>1, <2>2, <2>3 DEF Busy
<1>5. ASSUME NEW n \in Nodes, Deliver(n) \/ PumpFault(n) \/ Restart(n)
      PROVE  RowsKept
  <2>1. CASE RecordFailure(n) \/ Acknowledge(n)
    <3>1. pump[n].msg \in Messages
      BY <1>0, <2>1, WorkingIsBusy, BusyCall DEF RecordFailure, Acknowledge
    <3> QED BY <1>0, <2>1, <3>1 DEF TypeOK, RecordFailure, Acknowledge, DeliveryStates
  <2>2. CASE row' = row
    BY <2>2
  <2> QED
    BY <1>5, <2>1, <2>2 DEF Deliver, PumpFault, SendStarted, Send, SendReturned, SendFails,
       SendReturnedFails, Abandon, DrainAndStop, Restart
<1>6. ASSUME RecoverExpiredLeases PROVE RowsKept /\ CallsKept
  BY <1>0, <1>6 DEF TypeOK, RecoverExpiredLeases, DeliveryStates, Busy
<1>7. ASSUME UNCHANGED vars PROVE RowsKept /\ CallsKept
  BY <1>7 DEF vars, Busy
<1> QED BY <1>1, <1>2, <1>3, <1>4, <1>5, <1>6, <1>7 DEF Next

\* The tokens of claimOne leave at most one node able to settle or
\* reschedule a message, whatever leases expire.
THEOREM SingleAuthority == Spec => []OneAuthority
<1>1. Init => AuthorityInv
  BY OrderInit DEF AuthorityInv, TokensAreFresh, Init, Busy
<1>2. AuthorityInv /\ [Next]_vars => AuthorityInv'
  BY OrderStep, TokenStep DEF AuthorityInv
<1>3. AuthorityInv => OneAuthority
  BY DEF AuthorityInv, TokensAreFresh, OneAuthority, HoldsToken, Busy
<1> QED BY <1>1, <1>2, <1>3, PTL DEF Spec

-------------------------------------------------------------------------------
(* Refinement.                                                             *)

\* Initial states map to initial states.
LEMMA DeliveryInit == Init => Delivery!Init
BY DEF Init, Delivery!Init

\* Every step maps to a step of the abstract delivery, or to none.
LEMMA DeliveryStep == OrderInv /\ [Next]_vars => [Delivery!Next]_(Delivery!vars)
<1> SUFFICES ASSUME OrderInv, [Next]_vars PROVE [Delivery!Next]_(Delivery!vars)
  OBVIOUS
<1> DEFINE committed == {m \in Messages : row[m].status # "ABSENT"}
           acked == {m \in Messages : row[m].status = "ACKNOWLEDGED"}
<1> USE DEF Delivery!Messages, Delivery!Earlier, Messages, Earlier
<1>0. TypeOK
  BY DEF OrderInv
<1>1. ASSUME NEW m \in Messages, CommitMessage(m) PROVE Delivery!Commit(m)
  <2>1. m \notin committed /\ Earlier(m) \subseteq committed
    BY <1>1 DEF CommitMessage
  <2>2. committed' = committed \cup {m}
    BY <1>0, <1>1 DEF CommitMessage, TypeOK, DeliveryStates
  <2>3. acked' = acked
    BY <1>0, <1>1 DEF CommitMessage, TypeOK, DeliveryStates
  <2> QED BY <1>1, <2>1, <2>2, <2>3 DEF Delivery!Commit, CommitMessage
<1>2. ASSUME NEW n \in Nodes, Send(n) \/ SendFails(n)
      PROVE  (\E m \in Messages : Delivery!Send(m)) \/ UNCHANGED Delivery!vars
  <2>1. Busy(n)
    BY <1>2, WorkingIsBusy DEF Send, SendFails
  <2>2. pump[n].msg \in Messages /\ Claimed_(pump[n].msg)
    BY <2>1, BusyCall DEF OrderInv, CallsAreClaimed
  <2>3. pump[n].msg \in committed
    BY <2>2 DEF Claimed_
  <2>4. Earlier(pump[n].msg) \subseteq acked
    BY <2>2 DEF OrderInv, PredecessorsSettled
  <2>5. row' = row /\ (sent' = sent \cup {pump[n].msg} \/ sent' = sent)
    BY <1>2 DEF Send, SendFails
  <2> QED BY <2>3, <2>4, <2>5 DEF Delivery!Send, Delivery!vars
<1>3. ASSUME NEW n \in Nodes, Acknowledge(n)
      PROVE  (\E m \in Messages : Delivery!Acknowledge(m)) \/ UNCHANGED Delivery!vars
  <2>1. Busy(n) /\ pump[n].pc = "returned"
    BY <1>3, WorkingIsBusy DEF Acknowledge
  <2>2. pump[n].msg \in Messages /\ pump[n].msg \in sent
    BY <2>1, BusyCall DEF OrderInv, CallsAreClaimed
  <2>3. CASE row' = row
    BY <1>3, <2>3 DEF Delivery!vars, Acknowledge
  <2>4. CASE row[pump[n].msg].status = "CLAIMED" /\
             row' = [row EXCEPT ![pump[n].msg].status = "ACKNOWLEDGED",
                                ![pump[n].msg].expired = FALSE]
    <3>1. acked' = acked \cup {pump[n].msg} /\ committed' = committed
      BY <1>0, <2>2, <2>4 DEF TypeOK, DeliveryStates
    <3> QED BY <1>3, <2>2, <3>1 DEF Delivery!Acknowledge, Acknowledge
  <2> QED BY <1>3, <2>3, <2>4 DEF Acknowledge
<1>4. ASSUME sent' = sent,
             \A m \in Messages : /\ row'[m].status = "ABSENT" <=> row[m].status = "ABSENT"
                                 /\ row'[m].status = "ACKNOWLEDGED" <=> row[m].status = "ACKNOWLEDGED"
      PROVE  UNCHANGED Delivery!vars
  BY <1>4 DEF Delivery!vars
<1>5. ASSUME NEW n \in Nodes, NEW m \in Messages, ClaimOne(n, m) PROVE UNCHANGED Delivery!vars
  BY <1>0, <1>4, <1>5 DEF ClaimOne, Claimed, Claimable, TypeOK, DeliveryStates
<1>6. ASSUME NEW n \in Nodes, RecordFailure(n) PROVE UNCHANGED Delivery!vars
  <2>1. pump[n].msg \in Messages /\ Claimed_(pump[n].msg)
    BY <1>6, WorkingIsBusy, BusyCall DEF RecordFailure, OrderInv, CallsAreClaimed
  <2> QED BY <1>0, <1>4, <1>6, <2>1 DEF RecordFailure, Claimed_, TypeOK, DeliveryStates
<1>7. ASSUME NEW n \in Nodes,
             \/ SendStarted(n) \/ SendReturned(n) \/ SendReturnedFails(n)
             \/ Abandon(n) \/ DrainAndStop(n) \/ Restart(n)
      PROVE  UNCHANGED Delivery!vars
  BY <1>7 DEF Delivery!vars, SendStarted, SendReturned, SendReturnedFails, Abandon,
     DrainAndStop, Restart
<1>8. ASSUME NEW m \in Messages, LeaseRunsOut(m) PROVE UNCHANGED Delivery!vars
  BY <1>0, <1>4, <1>8 DEF LeaseRunsOut, TypeOK, DeliveryStates
<1>9. ASSUME RecoverExpiredLeases PROVE UNCHANGED Delivery!vars
  BY <1>0, <1>4, <1>9 DEF RecoverExpiredLeases, TypeOK, DeliveryStates
<1>10. ASSUME UNCHANGED vars PROVE UNCHANGED Delivery!vars
  BY <1>10 DEF vars, Delivery!vars
<1>11. CASE \E m \in Messages : CommitMessage(m) \/ LeaseRunsOut(m)
  BY <1>1, <1>8, <1>11 DEF Delivery!Next
<1>12. CASE \E n \in Nodes : Send(n) \/ SendFails(n) \/ Acknowledge(n)
  BY <1>2, <1>3, <1>12 DEF Delivery!Next
<1>13. CASE \E n \in Nodes :
              \/ SendStarted(n) \/ SendReturned(n) \/ SendReturnedFails(n)
              \/ Abandon(n) \/ DrainAndStop(n) \/ Restart(n) \/ RecordFailure(n)
  BY <1>6, <1>7, <1>13
<1>14. CASE \E n \in Nodes, m \in Messages : ClaimOne(n, m)
  BY <1>5, <1>14
<1> QED
  BY <1>9, <1>10, <1>11, <1>12, <1>13, <1>14 DEF Next, Deliver, PumpFault

\* The outbox with its leases, attempts and racing nodes implements the
\* in-order, at-least-once delivery.
THEOREM OutboxImplementsDelivery == Spec => ImplementsDelivery
<1>1. Spec => Delivery!Spec
  BY OrderCorrect, DeliveryInit, DeliveryStep, PTL DEF Spec, Delivery!Spec
<1> QED BY <1>1 DEF ImplementsDelivery

-------------------------------------------------------------------------------
(* The journal.                                                            *)

\* Every row a busy node wrote for its own attempt is there.
CallsJournalled ==
  \A n \in Nodes : Busy(n) =>
    /\ pump[n].token = pump[n].attempt
    /\ Attempt(pump[n].msg, pump[n].attempt, 1, "CLAIM") \in journal
    /\ pump[n].pc # "claimed" =>
         Attempt(pump[n].msg, pump[n].attempt, 2, "SEND_STARTED") \in journal
    /\ pump[n].pc = "returned" =>
         Attempt(pump[n].msg, pump[n].attempt, 3, "SEND_RETURNED") \in journal

\* No attempt is journalled before it is claimed, and a claim is journalled.
HeadsJournalled ==
  /\ \A r \in journal : r.attempt <= row[r.msg].attempt
  /\ \A m \in Messages : row[m].attempt > 0 =>
       Attempt(m, row[m].attempt, 1, "CLAIM") \in journal

SettledJournalled ==
  \A m \in Messages : row[m].status = "ACKNOWLEDGED" =>
    /\ Attempt(m, row[m].attempt, 1, "CLAIM") \in journal
    /\ Attempt(m, row[m].attempt, 2, "SEND_STARTED") \in journal
    /\ Attempt(m, row[m].attempt, 3, "SEND_RETURNED") \in journal
    /\ Attempt(m, row[m].attempt, 4, "ACK") \in journal

\* The stages of each attempt of J are numbered from one, each with one event.
TakenIn(J, m, a, s) == \E r \in J : r.msg = m /\ r.attempt = a /\ r.stage = s

WellStaged(J) ==
  \A r \in J :
    /\ \A q \in J : q.msg = r.msg /\ q.attempt = r.attempt /\ q.stage = r.stage => q = r
    /\ r.stage > 1 => TakenIn(J, r.msg, r.attempt, r.stage - 1)

JournalInv ==
  /\ AuthorityInv
  /\ CallsJournalled
  /\ HeadsJournalled
  /\ SettledJournalled
  /\ WellStaged(journal)

\* One row more keeps the stages in order, when its stage is free and follows.
LEMMA InsertStage ==
  ASSUME NEW J \in SUBSET AttemptRows, WellStaged(J), NEW m \in Messages, NEW a \in Nat,
         NEW s \in Stages, NEW e \in AttemptEvents,
         ~ TakenIn(J, m, a, s), s > 1 => TakenIn(J, m, a, s - 1)
  PROVE  /\ WellStaged(J \cup {Attempt(m, a, s, e)})
         /\ J \cup {Attempt(m, a, s, e)} \subseteq AttemptRows
         /\ TakenIn(J \cup {Attempt(m, a, s, e)}, m, a, s)
         /\ \A k \in Stages : k # s => (TakenIn(J \cup {Attempt(m, a, s, e)}, m, a, k) <=> TakenIn(J, m, a, k))
<1> DEFINE x == Attempt(m, a, s, e)
           K == J \cup {x}
<1>1. x \in AttemptRows /\ x.msg = m /\ x.attempt = a /\ x.stage = s
  BY AttemptType DEF Attempt
<1> HIDE DEF x
<1>2. \A r \in K : \A q \in K :
        q.msg = r.msg /\ q.attempt = r.attempt /\ q.stage = r.stage => q = r
  <2> SUFFICES ASSUME NEW r \in K, NEW q \in K,
                      q.msg = r.msg, q.attempt = r.attempt, q.stage = r.stage
               PROVE  q = r
    OBVIOUS
  <2>1. CASE r = x \/ q = x
    BY <1>1, <2>1 DEF TakenIn
  <2>2. CASE r \in J /\ q \in J
    BY <2>2 DEF WellStaged
  <2> QED BY <2>1, <2>2
<1>3. \A r \in K : r.stage > 1 => TakenIn(K, r.msg, r.attempt, r.stage - 1)
  <2> SUFFICES ASSUME NEW r \in K, r.stage > 1
               PROVE  TakenIn(K, r.msg, r.attempt, r.stage - 1)
    OBVIOUS
  <2>1. CASE r = x
    BY <1>1, <2>1 DEF TakenIn
  <2>2. CASE r \in J
    BY <2>2 DEF WellStaged, TakenIn
  <2> QED BY <2>1, <2>2
<1>4. WellStaged(K)
  BY <1>2, <1>3 DEF WellStaged
<1>5. /\ TakenIn(K, m, a, s)
      /\ \A k \in Stages : k # s => (TakenIn(K, m, a, k) <=> TakenIn(J, m, a, k))
  BY <1>1 DEF TakenIn
<1> QED BY <1>1, <1>4, <1>5 DEF x

\* The stages and events the publisher writes.
LEMMA StagesAndEvents ==
  /\ {1, 2, 3, 4} \subseteq Stages
  /\ {"CLAIM", "SEND_STARTED", "SEND_RETURNED", "ACK", "FAIL", "RETRY_SCHEDULED"} \subseteq AttemptEvents
BY DEF Stages, AttemptEvents

\* A stage is taken in the journal.
LEMMA TakenInJournal ==
  \A m, a, s : TakenIn(journal, m, a, s) <=> StageTaken(m, a, s)
BY DEF TakenIn, StageTaken

\* A row of the journal takes its stage.
LEMMA RowTakesStage ==
  ASSUME NEW m, NEW a, NEW s, NEW e, Attempt(m, a, s, e) \in journal
  PROVE  StageTaken(m, a, s)
BY DEF StageTaken, Attempt

\* What one step does to the calls, as far as the journal goes.
CallJournalStep(n) ==
  pump'[n] # IdleCall =>
    \/ /\ Busy(n)
       /\ pump'[n].msg = pump[n].msg
       /\ pump'[n].attempt = pump[n].attempt
       /\ pump'[n].token = pump[n].token
       /\ \/ pump'[n].pc = pump[n].pc
          \/ /\ pump[n].pc = "claimed" /\ pump'[n].pc = "sending"
             /\ Attempt(pump[n].msg, pump[n].attempt, 2, "SEND_STARTED") \in journal'
          \/ pump[n].pc \in {"sending", "sent"} /\ pump'[n].pc \in {"sent", "failing"}
          \/ /\ pump[n].pc = "sent" /\ pump'[n].pc = "returned"
             /\ Attempt(pump[n].msg, pump[n].attempt, 3, "SEND_RETURNED") \in journal'
    \/ /\ pump'[n].pc = "claimed"
       /\ pump'[n].token = pump'[n].attempt
       /\ Attempt(pump'[n].msg, pump'[n].attempt, 1, "CLAIM") \in journal'

\* A row's attempt is kept, or claimed anew and journalled.
AttemptStep(m) ==
  \/ row'[m].attempt = row[m].attempt
  \/ /\ row'[m].attempt = row[m].attempt + 1
     /\ Attempt(m, row'[m].attempt, 1, "CLAIM") \in journal'
     /\ row'[m].status # "ACKNOWLEDGED"

\* A message is settled with all of its last attempt journalled.
SettleStep(m) ==
  row'[m].status = "ACKNOWLEDGED" =>
    \/ row[m].status = "ACKNOWLEDGED"
    \/ /\ Attempt(m, row'[m].attempt, 1, "CLAIM") \in journal'
       /\ Attempt(m, row'[m].attempt, 2, "SEND_STARTED") \in journal'
       /\ Attempt(m, row'[m].attempt, 3, "SEND_RETURNED") \in journal'
       /\ Attempt(m, row'[m].attempt, 4, "ACK") \in journal'

JournalStep ==
  /\ journal \subseteq journal'
  /\ \A r \in journal' : r \in journal \/ r.attempt <= row'[r.msg].attempt
  /\ WellStaged(journal')
  /\ \A m \in Messages : AttemptStep(m) /\ SettleStep(m)
  /\ \A n \in Nodes : CallJournalStep(n)

\* The journalled stages of a busy call, and its place below the row's attempt.
LEMMA BusyJournalled ==
  ASSUME JournalInv, NEW n \in Nodes, Busy(n)
  PROVE  /\ pump[n].msg \in Messages
         /\ pump[n].attempt \in Nat
         /\ pump[n].token = pump[n].attempt
         /\ pump[n].attempt <= row[pump[n].msg].attempt
         /\ row[pump[n].msg].attempt \in Nat
         /\ row[pump[n].msg].token = row[pump[n].msg].attempt
         /\ StageTaken(pump[n].msg, pump[n].attempt, 1)
         /\ pump[n].pc # "claimed" => StageTaken(pump[n].msg, pump[n].attempt, 2)
         /\ pump[n].pc = "returned" => StageTaken(pump[n].msg, pump[n].attempt, 3)
<1>1. TypeOK
  BY DEF JournalInv, AuthorityInv, OrderInv
<1>2. pump[n].msg \in Messages /\ pump[n].attempt \in Nat
  BY <1>1, BusyCall
<1>3. row[pump[n].msg].attempt \in Nat
  BY <1>1, <1>2 DEF TypeOK, DeliveryStates
<1>4. /\ pump[n].token = pump[n].attempt
      /\ pump[n].attempt <= row[pump[n].msg].attempt
      /\ row[pump[n].msg].token = row[pump[n].msg].attempt
  BY <1>2 DEF JournalInv, CallsJournalled, AuthorityInv, TokensAreFresh
<1> QED BY <1>2, <1>3, <1>4, RowTakesStage DEF JournalInv, CallsJournalled

\* A step that writes one row of a busy node's own attempt.
LEMMA OwnRow ==
  ASSUME JournalInv, NEW n \in Nodes, Busy(n), NEW s \in Stages, s > 1, NEW e \in AttemptEvents,
         ~ StageTaken(pump[n].msg, pump[n].attempt, s),
         StageTaken(pump[n].msg, pump[n].attempt, s - 1),
         journal' = journal \cup {Attempt(pump[n].msg, pump[n].attempt, s, e)},
         \A m \in Messages : row'[m].attempt = row[m].attempt
  PROVE  /\ journal \subseteq journal'
         /\ \A r \in journal' : r \in journal \/ r.attempt <= row'[r.msg].attempt
         /\ WellStaged(journal')
<1>1. journal \in SUBSET AttemptRows /\ WellStaged(journal)
  BY DEF JournalInv, AuthorityInv, OrderInv, TypeOK
<1>2. pump[n].msg \in Messages /\ pump[n].attempt \in Nat
      /\ pump[n].attempt <= row[pump[n].msg].attempt
  BY BusyJournalled
<1>3. WellStaged(journal')
  BY <1>1, <1>2, InsertStage, TakenInJournal
<1> QED BY <1>2, <1>3 DEF Attempt

\* Moving a busy node's call on keeps what the call is about.
LEMMA GotoKeeps ==
  ASSUME TypeOK, NEW n \in Nodes, Busy(n),
         NEW pc \in {"claimed", "sending", "sent", "returned", "failing"}, Goto(n, pc)
  PROVE  /\ pump'[n].pc = pc
         /\ pump'[n].msg = pump[n].msg
         /\ pump'[n].attempt = pump[n].attempt
         /\ pump'[n].token = pump[n].token
         /\ \A k \in Nodes : k # n => pump'[k] = pump[k]
<1>1. pump[n] \in [pc : {"claimed", "sending", "sent", "returned", "failing"},
                   msg : Messages, attempt : Nat, token : Nat]
  BY BusyCall
<1>2. pump' = [pump EXCEPT ![n] = [pump[n] EXCEPT !.pc = pc]] /\ pump \in [Nodes -> Calls]
  BY DEF Goto, TypeOK
<1> QED BY <1>1, <1>2

\* A step that leaves the journal and the rows' attempts alone, and settles none.
LEMMA JournalKept ==
  ASSUME JournalInv, UNCHANGED journal,
         \A m \in Messages : /\ row'[m].attempt = row[m].attempt
                             /\ row'[m].status = "ACKNOWLEDGED" => row[m].status = "ACKNOWLEDGED"
  PROVE  /\ journal \subseteq journal'
         /\ \A r \in journal' : r \in journal \/ r.attempt <= row'[r.msg].attempt
         /\ WellStaged(journal')
         /\ \A m \in Messages : AttemptStep(m) /\ SettleStep(m)
<1>1. WellStaged(journal')
  BY DEF JournalInv
<1>2. \A m \in Messages : AttemptStep(m) /\ SettleStep(m)
  BY DEF AttemptStep, SettleStep
<1> QED BY <1>1, <1>2

\* claimOne starts an attempt that nothing is journalled of.
LEMMA ClaimJournal ==
  ASSUME JournalInv, NEW n \in Nodes, NEW m \in Messages, ClaimOne(n, m)
  PROVE  JournalStep
<1> DEFINE a == row[m].attempt + 1
<1>0. TypeOK
  BY DEF JournalInv, AuthorityInv, OrderInv
<1>1. /\ row[m].attempt \in Nat /\ a \in Nat
      /\ row'[m].attempt = a /\ row'[m].status = "CLAIMED"
      /\ \A k \in Messages : k # m => row'[k] = row[k]
  BY <1>0 DEF ClaimOne, Claimed, TypeOK, DeliveryStates
<1>2. /\ journal' = journal \cup {Attempt(m, a, 1, "CLAIM")}
      /\ ~ StageTaken(m, a, 1)
  BY DEF ClaimOne
<1>3. /\ pump'[n] = [pc |-> "claimed", msg |-> m, attempt |-> a, token |-> a]
      /\ \A k \in Nodes : k # n => pump'[k] = pump[k]
  BY <1>0 DEF ClaimOne, FreshToken, TypeOK
<1>4. WellStaged(journal')
  <2>1. journal \in SUBSET AttemptRows /\ WellStaged(journal)
    BY <1>0 DEF JournalInv, TypeOK
  <2>2. ~ TakenIn(journal, m, a, 1) /\ 1 \in Stages /\ "CLAIM" \in AttemptEvents
    BY <1>2, TakenInJournal, StagesAndEvents
  <2>3. ~ (1 > 1)
    OBVIOUS
  <2> QED BY <1>1, <1>2, <2>1, <2>2, <2>3, InsertStage
<1>5. \A r \in journal' : r \in journal \/ r.attempt <= row'[r.msg].attempt
  BY <1>1, <1>2 DEF Attempt
<1>6. \A k \in Messages : AttemptStep(k) /\ SettleStep(k)
  BY <1>1, <1>2 DEF AttemptStep, SettleStep
<1>7. \A k \in Nodes : CallJournalStep(k)
  BY <1>2, <1>3 DEF CallJournalStep, Busy
<1> QED BY <1>2, <1>4, <1>5, <1>6, <1>7 DEF JournalStep

\* The first transaction of deliver.
LEMMA SendStartedJournal ==
  ASSUME JournalInv, NEW n \in Nodes, SendStarted(n)
  PROVE  JournalStep
<1> DEFINE m == pump[n].msg
           a == pump[n].attempt
<1>0. TypeOK /\ Busy(n) /\ pump[n].pc = "claimed"
  BY WorkingIsBusy DEF JournalInv, AuthorityInv, OrderInv, SendStarted
<1>1. CASE StageTaken(m, a, 2)
  <2>1. Finish(n) /\ UNCHANGED <<journal, row>>
    BY <1>1 DEF SendStarted
  <2>2. \A k \in Nodes : CallJournalStep(k)
    BY <1>0, <2>1 DEF Finish, TypeOK, CallJournalStep, Busy
  <2> QED BY <2>1, <2>2, JournalKept DEF JournalStep
<1>2. CASE ~ StageTaken(m, a, 2)
  <2>1. /\ Goto(n, "sending") /\ row' = row
        /\ journal' = journal \cup {Attempt(m, a, 2, "SEND_STARTED")}
    BY <1>2 DEF SendStarted
  <2>2. /\ journal \subseteq journal'
        /\ \A r \in journal' : r \in journal \/ r.attempt <= row'[r.msg].attempt
        /\ WellStaged(journal')
    <3>1. StageTaken(m, a, 1)
      BY <1>0, BusyJournalled
    <3>2. 2 \in Stages /\ 2 > 1 /\ 2 - 1 = 1 /\ "SEND_STARTED" \in AttemptEvents
      BY StagesAndEvents
    <3>3. \A k \in Messages : row'[k].attempt = row[k].attempt
      BY <2>1
    <3> QED BY <1>0, <1>2, <2>1, <3>1, <3>2, <3>3, OwnRow
  <2>3. \A k \in Messages : AttemptStep(k) /\ SettleStep(k)
    BY <2>1 DEF AttemptStep, SettleStep
  <2>4. \A k \in Nodes : CallJournalStep(k)
    BY <1>0, <2>1, GotoKeeps DEF CallJournalStep, Busy
  <2> QED BY <2>2, <2>3, <2>4 DEF JournalStep
<1> QED BY <1>1, <1>2

\* The transport call, whether it succeeds or not.
LEMMA SendJournal ==
  ASSUME JournalInv, NEW n \in Nodes, Send(n) \/ SendFails(n)
  PROVE  JournalStep
<1>0. TypeOK /\ Busy(n) /\ pump[n].pc = "sending"
  BY WorkingIsBusy DEF JournalInv, AuthorityInv, OrderInv, Send, SendFails
<1>1. UNCHANGED <<journal, row>> /\ (Goto(n, "sent") \/ Goto(n, "failing"))
  BY DEF Send, SendFails
<1>2. \A k \in Nodes : CallJournalStep(k)
  BY <1>0, <1>1, GotoKeeps DEF CallJournalStep, Busy
<1> QED BY <1>1, <1>2, JournalKept DEF JournalStep

\* The transaction after the sender returned, and its failure.
LEMMA SendReturnedJournal ==
  ASSUME JournalInv, NEW n \in Nodes, SendReturned(n) \/ SendReturnedFails(n)
  PROVE  JournalStep
<1> DEFINE m == pump[n].msg
           a == pump[n].attempt
<1>0. TypeOK /\ Busy(n) /\ pump[n].pc = "sent" /\ row' = row
  BY WorkingIsBusy DEF JournalInv, AuthorityInv, OrderInv, SendReturned, SendReturnedFails
<1>1. \/ UNCHANGED journal /\ Goto(n, "failing")
      \/ /\ ~ StageTaken(m, a, 3)
         /\ journal' = journal \cup {Attempt(m, a, 3, "SEND_RETURNED")}
         /\ Goto(n, "failing") \/ Goto(n, "returned")
  BY DEF SendReturned, SendReturnedFails
<1>2. CASE UNCHANGED journal /\ Goto(n, "failing")
  <2>1. \A k \in Nodes : CallJournalStep(k)
    BY <1>0, <1>2, GotoKeeps DEF CallJournalStep, Busy
  <2> QED BY <1>0, <1>2, <2>1, JournalKept DEF JournalStep
<1>3. CASE /\ ~ StageTaken(m, a, 3)
           /\ journal' = journal \cup {Attempt(m, a, 3, "SEND_RETURNED")}
           /\ Goto(n, "failing") \/ Goto(n, "returned")
  <2>1. StageTaken(m, a, 3 - 1)
    BY <1>0, BusyJournalled
  <2>2. 3 \in Stages /\ 3 > 1 /\ "SEND_RETURNED" \in AttemptEvents
    BY DEF Stages, AttemptEvents
  <2>3. \A k \in Messages : row'[k].attempt = row[k].attempt
    BY <1>0
  <2>4. /\ journal \subseteq journal'
        /\ \A r \in journal' : r \in journal \/ r.attempt <= row'[r.msg].attempt
        /\ WellStaged(journal')
    BY <1>0, <1>3, <2>1, <2>2, <2>3, OwnRow
  <2>5. \A k \in Messages : AttemptStep(k) /\ SettleStep(k)
    BY <1>0 DEF AttemptStep, SettleStep
  <2>6. \A k \in Nodes : CallJournalStep(k)
    BY <1>0, <1>3, GotoKeeps DEF CallJournalStep, Busy
  <2> QED BY <2>4, <2>5, <2>6 DEF JournalStep
<1> QED BY <1>1, <1>2, <1>3

\* The FAIL transaction writes two stages, or none.
LEMMA RecordFailureJournal ==
  ASSUME JournalInv, NEW n \in Nodes, RecordFailure(n)
  PROVE  JournalStep
<1> DEFINE m == pump[n].msg
           a == pump[n].attempt
<1>0. /\ TypeOK /\ Busy(n) /\ pump[n].pc = "failing"
      /\ journal \in SUBSET AttemptRows /\ WellStaged(journal)
  BY WorkingIsBusy DEF JournalInv, AuthorityInv, OrderInv, RecordFailure, TypeOK
<1>1. \A k \in Nodes : CallJournalStep(k)
  BY <1>0 DEF RecordFailure, Finish, TypeOK, CallJournalStep, Busy
<1>2. m \in Messages /\ a \in Nat /\ a <= row[m].attempt /\ StageTaken(m, a, 2)
  BY <1>0, BusyJournalled
<1>3. CASE UNCHANGED <<row, journal>>
  BY <1>1, <1>3, JournalKept DEF JournalStep
<1>4. CASE /\ ~ StageTaken(m, a, 3) /\ ~ StageTaken(m, a, 4)
           /\ journal' = journal \cup {Attempt(m, a, 3, "FAIL"), Attempt(m, a, 4, "RETRY_SCHEDULED")}
           /\ row' = IF HoldsToken(n) THEN [row EXCEPT ![m].status = "RETRY_SCHEDULED"] ELSE row
  <2> DEFINE J == journal \cup {Attempt(m, a, 3, "FAIL")}
             K == J \cup {Attempt(m, a, 4, "RETRY_SCHEDULED")}
  <2>1. /\ WellStaged(J) /\ J \subseteq AttemptRows
        /\ TakenIn(J, m, a, 3) /\ ~ TakenIn(J, m, a, 4)
    <3>1. /\ ~ TakenIn(journal, m, a, 3) /\ ~ TakenIn(journal, m, a, 4)
          /\ TakenIn(journal, m, a, 3 - 1)
      BY <1>2, <1>4, TakenInJournal
    <3>2. 3 \in Stages /\ 4 \in Stages /\ 4 # 3 /\ "FAIL" \in AttemptEvents
      BY StagesAndEvents
    <3> QED BY <1>0, <1>2, <3>1, <3>2, InsertStage
  <2> HIDE DEF J
  <2>2. WellStaged(K)
    <3>1. 4 \in Stages /\ "RETRY_SCHEDULED" \in AttemptEvents
      BY StagesAndEvents
    <3>2. J \in SUBSET AttemptRows /\ WellStaged(J) /\ ~ TakenIn(J, m, a, 4)
      BY <2>1
    <3>3. TakenIn(J, m, a, 4 - 1)
      BY <2>1
    <3>4. m \in Messages /\ a \in Nat
      BY <1>2
    <3> HIDE DEF m, a
    <3> QED BY <3>1, <3>2, <3>3, <3>4, InsertStage
  <2>3. journal' = K
    BY <1>4 DEF J
  <2>4. \A k \in Messages : /\ row'[k].attempt = row[k].attempt
                            /\ row'[k].status = "ACKNOWLEDGED" => row[k].status = "ACKNOWLEDGED"
    BY <1>0, <1>2, <1>4 DEF TypeOK, DeliveryStates
  <2>5. \A r \in journal' : r \in journal \/ r.attempt <= row'[r.msg].attempt
    BY <1>2, <1>4, <2>4 DEF Attempt
  <2>6. \A k \in Messages : AttemptStep(k) /\ SettleStep(k)
    BY <2>4 DEF AttemptStep, SettleStep
  <2> QED BY <1>1, <1>4, <2>2, <2>3, <2>5, <2>6 DEF JournalStep
<1> QED BY <1>3, <1>4 DEF RecordFailure

\* acknowledge completes the attempt of the row, which is the node's own.
LEMMA AcknowledgeJournal ==
  ASSUME JournalInv, NEW n \in Nodes, Acknowledge(n)
  PROVE  JournalStep
<1> DEFINE m == pump[n].msg
           a == pump[n].attempt
<1>0. /\ TypeOK /\ Busy(n) /\ pump[n].pc = "returned"
  BY WorkingIsBusy DEF JournalInv, AuthorityInv, OrderInv, Acknowledge
<1>1. \A k \in Nodes : CallJournalStep(k)
  BY <1>0 DEF Acknowledge, Finish, TypeOK, CallJournalStep, Busy
<1>2. m \in Messages /\ StageTaken(m, a, 4 - 1)
  BY <1>0, BusyJournalled
<1>3. CASE UNCHANGED <<row, journal>>
  BY <1>1, <1>3, JournalKept DEF JournalStep
<1>4. CASE /\ HoldsToken(n) /\ ~ StageTaken(m, a, 4)
           /\ row' = [row EXCEPT ![m].status = "ACKNOWLEDGED", ![m].expired = FALSE]
           /\ journal' = journal \cup {Attempt(m, a, 4, "ACK")}
  <2>1. /\ \A k \in Messages : row'[k].attempt = row[k].attempt
        /\ \A k \in Messages : k # m => row'[k] = row[k]
    BY <1>0, <1>2, <1>4 DEF TypeOK, DeliveryStates
  <2>2. row'[m].attempt = a
    BY <1>0, <1>2, <1>4, <2>1, BusyJournalled DEF HoldsToken
  <2>3. /\ journal \subseteq journal'
        /\ \A r \in journal' : r \in journal \/ r.attempt <= row'[r.msg].attempt
        /\ WellStaged(journal')
    <3>1. 4 \in Stages /\ 4 > 1 /\ "ACK" \in AttemptEvents
      BY StagesAndEvents
    <3> QED BY <1>0, <1>2, <1>4, <2>1, <3>1, OwnRow
  <2>4. /\ Attempt(m, a, 1, "CLAIM") \in journal
        /\ Attempt(m, a, 2, "SEND_STARTED") \in journal
        /\ Attempt(m, a, 3, "SEND_RETURNED") \in journal
    BY <1>0 DEF JournalInv, CallsJournalled
  <2>5. \A k \in Messages : AttemptStep(k) /\ SettleStep(k)
    <3>1. \A k \in Messages : AttemptStep(k)
      BY <2>1 DEF AttemptStep
    <3>2. SettleStep(m)
      BY <1>4, <2>2, <2>4 DEF SettleStep
    <3>3. \A k \in Messages : k # m => SettleStep(k)
      BY <2>1 DEF SettleStep
    <3> QED BY <3>1, <3>2, <3>3
  <2> QED BY <1>1, <2>3, <2>5 DEF JournalStep
<1> QED BY <1>3, <1>4 DEF Acknowledge

\* recoverExpiredLeases writes the next two stages of each expired attempt.
LEMMA RecoverJournal ==
  ASSUME JournalInv, RecoverExpiredLeases
  PROVE  JournalStep
<1> DEFINE Expired == {m \in Messages : row[m].status = "CLAIMED" /\ row[m].expired}
           First(st) == {Attempt(m, row[m].attempt, st[m], "LEASE_EXPIRED") : m \in Expired}
           Second(st) == {Attempt(m, row[m].attempt, st[m] + 1, "RETRY_SCHEDULED") : m \in Expired}
<1>0. TypeOK
  BY DEF JournalInv, AuthorityInv, OrderInv
<1>1. PICK st \in [Expired -> 1 .. 4] :
        /\ \A m \in Expired : IsNextStage(m, row[m].attempt, st[m])
        /\ journal' = journal \cup First(st) \cup Second(st)
  BY DEF RecoverExpiredLeases
<1>2. \A m \in Messages : /\ row'[m].attempt = row[m].attempt
                          /\ row'[m].status = "ACKNOWLEDGED" => row[m].status = "ACKNOWLEDGED"
  BY <1>0 DEF RecoverExpiredLeases, TypeOK, DeliveryStates
<1>3. \A r \in journal' :
        \/ r \in journal
        \/ \E m \in Expired : r = Attempt(m, row[m].attempt, st[m], "LEASE_EXPIRED")
        \/ \E m \in Expired : r = Attempt(m, row[m].attempt, st[m] + 1, "RETRY_SCHEDULED")
  BY <1>1
<1>4. \A m \in Expired : /\ m \in Messages /\ st[m] \in 1 .. 4 /\ row[m].attempt \in Nat
                         /\ \A r \in journal : r.msg = m /\ r.attempt = row[m].attempt
                              => r.stage \in Nat /\ r.stage < st[m]
                         /\ st[m] = 1 \/ StageTaken(m, row[m].attempt, st[m] - 1)
  BY <1>0, <1>1 DEF IsNextStage, TypeOK, DeliveryStates, AttemptRows, Stages
<1>5. ASSUME NEW r \in journal', NEW q \in journal',
             q.msg = r.msg, q.attempt = r.attempt, q.stage = r.stage
      PROVE  q = r
  <2>1. CASE r \in journal /\ q \in journal
    BY <1>5, <2>1 DEF JournalInv, WellStaged
  <2>2. CASE r \in journal /\ q \notin journal
    BY <1>3, <1>4, <1>5, <2>2 DEF Attempt
  <2>3. CASE r \notin journal /\ q \in journal
    BY <1>3, <1>4, <1>5, <2>3 DEF Attempt
  <2>4. CASE r \notin journal /\ q \notin journal
    BY <1>3, <1>4, <1>5, <2>4 DEF Attempt
  <2> QED BY <2>1, <2>2, <2>3, <2>4
<1>6. ASSUME NEW r \in journal', r.stage > 1
      PROVE  TakenIn(journal', r.msg, r.attempt, r.stage - 1)
  <2>1. CASE r \in journal
    <3>1. TakenIn(journal, r.msg, r.attempt, r.stage - 1)
      BY <1>6, <2>1 DEF JournalInv, WellStaged
    <3> QED BY <1>1, <3>1 DEF TakenIn
  <2>2. ASSUME NEW m \in Expired, r = Attempt(m, row[m].attempt, st[m], "LEASE_EXPIRED")
        PROVE  TakenIn(journal', r.msg, r.attempt, r.stage - 1)
    <3>1. StageTaken(m, row[m].attempt, st[m] - 1)
      BY <1>4, <1>6, <2>2 DEF Attempt
    <3> QED BY <1>1, <2>2, <3>1 DEF TakenIn, StageTaken, Attempt
  <2>3. ASSUME NEW m \in Expired, r = Attempt(m, row[m].attempt, st[m] + 1, "RETRY_SCHEDULED")
        PROVE  TakenIn(journal', r.msg, r.attempt, r.stage - 1)
    <3> DEFINE q == Attempt(m, row[m].attempt, st[m], "LEASE_EXPIRED")
    <3>1. q \in journal'
      BY <1>1
    <3>2. q.msg = r.msg /\ q.attempt = r.attempt /\ q.stage = r.stage - 1
      BY <1>4, <2>3 DEF Attempt
    <3> QED BY <3>1, <3>2 DEF TakenIn
  <2> QED BY <1>3, <2>1, <2>2, <2>3
<1>7. WellStaged(journal')
  BY <1>5, <1>6 DEF WellStaged
<1>8. \A r \in journal' : r \in journal \/ r.attempt <= row'[r.msg].attempt
  BY <1>2, <1>3, <1>4 DEF Attempt
<1>9. \A m \in Messages : AttemptStep(m) /\ SettleStep(m)
  BY <1>2 DEF AttemptStep, SettleStep
<1>10. \A n \in Nodes : CallJournalStep(n)
  BY DEF RecoverExpiredLeases, CallJournalStep, Busy
<1> QED BY <1>1, <1>7, <1>8, <1>9, <1>10 DEF JournalStep

\* Every step keeps to the journal's rules.
LEMMA JournalSteps ==
  ASSUME JournalInv, [Next]_vars
  PROVE  JournalStep
<1>0. TypeOK
  BY DEF JournalInv, AuthorityInv, OrderInv
<1>1. ASSUME NEW m \in Messages, CommitMessage(m) \/ LeaseRunsOut(m) PROVE JournalStep
  <2>1. \A k \in Messages : /\ row'[k].attempt = row[k].attempt
                            /\ row'[k].status = "ACKNOWLEDGED" => row[k].status = "ACKNOWLEDGED"
    BY <1>0, <1>1 DEF CommitMessage, LeaseRunsOut, TypeOK, DeliveryStates
  <2>2. UNCHANGED <<journal, pump>>
    BY <1>1 DEF CommitMessage, LeaseRunsOut
  <2>3. \A n \in Nodes : CallJournalStep(n)
    BY <2>2 DEF CallJournalStep, Busy
  <2> QED BY <2>1, <2>2, <2>3, JournalKept DEF JournalStep
<1>2. ASSUME NEW n \in Nodes, Abandon(n) \/ DrainAndStop(n) \/ Restart(n) PROVE JournalStep
  <2>1. UNCHANGED <<row, journal>>
    BY <1>2 DEF Abandon, DrainAndStop, Restart
  <2>2. \A k \in Nodes : CallJournalStep(k)
    BY <1>0, <1>2 DEF Abandon, DrainAndStop, Restart, Finish, TypeOK, CallJournalStep, Busy
  <2> QED BY <2>1, <2>2, JournalKept DEF JournalStep
<1>3. CASE UNCHANGED vars
  <2>1. UNCHANGED <<row, journal, pump>>
    BY <1>3 DEF vars
  <2>2. \A k \in Nodes : CallJournalStep(k)
    BY <2>1 DEF CallJournalStep, Busy
  <2> QED BY <2>1, <2>2, JournalKept DEF JournalStep
<1>4. CASE Next
  BY <1>1, <1>2, <1>4, ClaimJournal, SendStartedJournal, SendJournal, SendReturnedJournal,
     RecordFailureJournal, AcknowledgeJournal, RecoverJournal
     DEF Next, Deliver, PumpFault
<1> QED BY <1>3, <1>4

\* Every step keeps the journal true.
LEMMA JournalInvStep == JournalInv /\ [Next]_vars => JournalInv'
<1> SUFFICES ASSUME JournalInv, [Next]_vars PROVE JournalInv'
  OBVIOUS
<1>0. JournalStep /\ TypeOK /\ OrderInv /\ AuthorityInv
  BY JournalSteps DEF JournalInv, AuthorityInv, OrderInv
<1>1. AuthorityInv'
  BY <1>0, OrderStep, TokenStep DEF AuthorityInv
<1>2. CallsJournalled'
  <2> SUFFICES ASSUME NEW n \in Nodes, pump'[n] # IdleCall
               PROVE  /\ pump'[n].token = pump'[n].attempt
                      /\ Attempt(pump'[n].msg, pump'[n].attempt, 1, "CLAIM") \in journal'
                      /\ pump'[n].pc # "claimed" =>
                           Attempt(pump'[n].msg, pump'[n].attempt, 2, "SEND_STARTED") \in journal'
                      /\ pump'[n].pc = "returned" =>
                           Attempt(pump'[n].msg, pump'[n].attempt, 3, "SEND_RETURNED") \in journal'
    BY DEF CallsJournalled, Busy, Attempt
  <2>1. CallJournalStep(n) /\ journal \subseteq journal'
    BY <1>0 DEF JournalStep
  <2>2. CASE /\ pump'[n].pc = "claimed"
             /\ pump'[n].token = pump'[n].attempt
             /\ Attempt(pump'[n].msg, pump'[n].attempt, 1, "CLAIM") \in journal'
    BY <2>2
  <2>3. CASE Busy(n)
    BY <2>1, <2>2, <2>3 DEF CallJournalStep, JournalInv, CallsJournalled
  <2> QED BY <2>1, <2>2, <2>3 DEF CallJournalStep
<1>3. HeadsJournalled'
  <2>1. \A m \in Messages : row[m].attempt \in Nat
    BY <1>0 DEF TypeOK, DeliveryStates
  <2>2. \A m \in Messages : AttemptStep(m)
    BY <1>0 DEF JournalStep
  <2>3. ASSUME NEW r \in journal' PROVE r.attempt <= row'[r.msg].attempt
    <3>1. CASE r \in journal
      <4>1. r.msg \in Messages /\ r.attempt \in Nat
        BY <1>0, <3>1 DEF TypeOK, AttemptRows
      <4>2. r.attempt <= row[r.msg].attempt
        BY <3>1 DEF JournalInv, HeadsJournalled
      <4> QED BY <2>1, <2>2, <4>1, <4>2 DEF AttemptStep
    <3> QED BY <1>0, <3>1 DEF JournalStep
  <2>4. ASSUME NEW m \in Messages, row'[m].attempt > 0
        PROVE  Attempt(m, row'[m].attempt, 1, "CLAIM") \in journal'
    BY <1>0, <2>2, <2>4 DEF AttemptStep, JournalStep, JournalInv, HeadsJournalled
  <2> QED BY <2>3, <2>4 DEF HeadsJournalled, Attempt
<1>4. SettledJournalled'
  <2> SUFFICES ASSUME NEW m \in Messages, row'[m].status = "ACKNOWLEDGED"
               PROVE  /\ Attempt(m, row'[m].attempt, 1, "CLAIM") \in journal'
                      /\ Attempt(m, row'[m].attempt, 2, "SEND_STARTED") \in journal'
                      /\ Attempt(m, row'[m].attempt, 3, "SEND_RETURNED") \in journal'
                      /\ Attempt(m, row'[m].attempt, 4, "ACK") \in journal'
    BY DEF SettledJournalled, Attempt
  <2>1. AttemptStep(m) /\ SettleStep(m) /\ journal \subseteq journal'
    BY <1>0 DEF JournalStep
  <2>2. row[m].attempt = row'[m].attempt
    BY <2>1 DEF AttemptStep
  <2> QED BY <2>1, <2>2 DEF SettleStep, JournalInv, SettledJournalled
<1>5. WellStaged(journal)'
  BY <1>0 DEF JournalStep, WellStaged, TakenIn
<1> QED BY <1>1, <1>2, <1>3, <1>4, <1>5 DEF JournalInv

\* The journal of outbox_delivery_attempts tells what happened, whatever nodes,
\* expired leases, recoveries and failures race for the next stage of an attempt.
THEOREM JournalIsTrue == Spec => []JournalTellsTheTruth
<1>1. Init => JournalInv
  <2> SUFFICES ASSUME Init PROVE JournalInv
    OBVIOUS
  <2>1. AuthorityInv
    BY OrderInit DEF AuthorityInv, TokensAreFresh, Init, Busy
  <2>2. CallsJournalled /\ HeadsJournalled /\ SettledJournalled /\ WellStaged(journal)
    BY DEF Init, CallsJournalled, HeadsJournalled, SettledJournalled, WellStaged, Busy
  <2> QED BY <2>1, <2>2 DEF JournalInv
<1>2. JournalInv => JournalTellsTheTruth
  <2> SUFFICES ASSUME JournalInv PROVE JournalTellsTheTruth
    OBVIOUS
  <2>1. ASSUME NEW m \in Messages, row[m].status = "ACKNOWLEDGED"
        PROVE  /\ m \in sent
               /\ \A s \in 1 .. 4 :
                    Attempt(m, row[m].attempt, s,
                            <<"CLAIM", "SEND_STARTED", "SEND_RETURNED", "ACK">>[s]) \in journal
    <3>1. m \in sent
      BY <2>1 DEF JournalInv, AuthorityInv, OrderInv, SettledWasSent
    <3>2. /\ Attempt(m, row[m].attempt, 1, "CLAIM") \in journal
          /\ Attempt(m, row[m].attempt, 2, "SEND_STARTED") \in journal
          /\ Attempt(m, row[m].attempt, 3, "SEND_RETURNED") \in journal
          /\ Attempt(m, row[m].attempt, 4, "ACK") \in journal
      BY <2>1 DEF JournalInv, SettledJournalled
    <3>3. \A s \in 1 .. 4 : s = 1 \/ s = 2 \/ s = 3 \/ s = 4
      OBVIOUS
    <3> QED BY <3>1, <3>2, <3>3
  <2>2. \A m \in Messages :
          /\ \A r \in journal : r.msg = m => r.attempt <= row[m].attempt
          /\ row[m].attempt > 0 => \E r \in journal : r.msg = m /\ r.attempt = row[m].attempt
    BY DEF JournalInv, HeadsJournalled, Attempt
  <2>3. \A r \in journal :
          /\ \A q \in journal : q.msg = r.msg /\ q.attempt = r.attempt /\ q.stage = r.stage => q = r
          /\ r.stage > 1 => StageTaken(r.msg, r.attempt, r.stage - 1)
    BY TakenInJournal DEF JournalInv, WellStaged
  <2> QED BY <2>1, <2>2, <2>3 DEF JournalTellsTheTruth
<1> QED BY <1>1, <1>2, JournalInvStep, PTL DEF Spec

===============================================================================
