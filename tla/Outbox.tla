-------------------------------- MODULE Outbox --------------------------------
(***************************************************************************)
(* The durable outbox of packages/persistence/src/outbox.ts and the pump   *)
(* of apps/server/src/realtime-postgres.ts that drives it, one pump per    *)
(* server node, all sharing the two tables                                 *)
(*   outbox_delivery_states    row       (mutable, one row per message)    *)
(*   outbox_delivery_attempts  journal   (append-only)                     *)
(*                                                                         *)
(* Each database transaction is one action; everything between two         *)
(* transactions of a node (the transport call included) may interleave     *)
(* with the other nodes.  A pump's call is the control state pump[n].pc:   *)
(*   "idle" -claimOne-> "claimed" -SEND_STARTED-> "sending" -sender->      *)
(*   "sent" -SEND_RETURNED-> "returned" -acknowledge-> "idle"              *)
(* with "failing" before the FAIL transaction of deliver.                  *)
(*                                                                         *)
(* Time is the flag row[m].expired: claim_expires_at is in the past.       *)
(* next_attempt_at is always set to the current time, so a PENDING or      *)
(* RETRY_SCHEDULED row is due at once and the column is not modelled.      *)
(* MaxFaults bounds how often the environment slows a node beyond its      *)
(* lease, fails a call or kills a node.                                    *)
(***************************************************************************)
EXTENDS Integers, FiniteSets

CONSTANTS Games,        \* games that publish messages
          MaxMessages,  \* bound on the messages of one game
          Nodes,        \* server nodes, each with one outbox pump
          MaxFaults     \* bound on environment faults

ASSUME MaxMessagesAssumption == MaxMessages \in Nat \ {0}
ASSUME MaxFaultsAssumption == MaxFaults \in Nat

Messages == Games \X (1 .. MaxMessages)

Earlier(m) == {k \in Messages : k[1] = m[1] /\ k[2] < m[2]}

Statuses == {"ABSENT", "PENDING", "CLAIMED", "RETRY_SCHEDULED", "ACKNOWLEDGED"}

AttemptEvents == {"CLAIM", "SEND_STARTED", "SEND_RETURNED", "ACK", "FAIL",
                  "LEASE_EXPIRED", "RETRY_SCHEDULED"}

Stages == 1 .. 5

VARIABLES
  row,        \* [Messages -> delivery state]; "ABSENT" before the commit
  journal,    \* attempt rows, UNIQUE(message, attempt, stage)
  pump,       \* [Nodes -> the call in progress]
  accepting,  \* [Nodes -> BOOLEAN], #acceptingClaims
  sent,       \* history: messages handed to the transport
  faults      \* environment faults so far

vars == <<row, journal, pump, accepting, sent, faults>>

DeliveryStates ==
  [status : Statuses, attempt : Nat, token : Nat, expired : BOOLEAN]

AttemptRows ==
  [msg : Messages, attempt : Nat, stage : Stages, event : AttemptEvents]

IdleCall == [pc |-> "idle"]

Calls ==
  {IdleCall} \cup
  [pc : {"claimed", "sending", "sent", "returned", "failing"},
   msg : Messages, attempt : Nat, token : Nat]

TypeOK ==
  /\ row \in [Messages -> DeliveryStates]
  /\ journal \subseteq AttemptRows
  /\ pump \in [Nodes -> Calls]
  /\ accepting \in [Nodes -> BOOLEAN]
  /\ sent \subseteq Messages
  /\ faults \in 0 .. MaxFaults

Init ==
  /\ row = [m \in Messages |->
              [status |-> "ABSENT", attempt |-> 0, token |-> 0, expired |-> FALSE]]
  /\ journal = {}
  /\ pump = [n \in Nodes |-> IdleCall]
  /\ accepting = [n \in Nodes |-> TRUE]
  /\ sent = {}
  /\ faults = 0

-------------------------------------------------------------------------------
(* Vocabulary of the transactions.                                         *)

Attempt(m, a, s, e) == [msg |-> m, attempt |-> a, stage |-> s, event |-> e]

\* UNIQUE (outbox_message_id, attempt_ordinal, stage_ordinal)
StageTaken(m, a, s) ==
  \E r \in journal : r.msg = m /\ r.attempt = a /\ r.stage = s

\* COALESCE(max(stage_ordinal),0)+1
IsNextStage(m, a, s) ==
  /\ \A r \in journal : r.msg = m /\ r.attempt = a => r.stage < s
  /\ s = 1 \/ StageTaken(m, a, s - 1)

\* Mutated form: one token per message, not per claim.
MessageToken(m) == 1

\* randomUUID(): a value no other claim of the message holds.
FreshToken(m) == row[m].attempt + 1

\* The delivery state claimOne writes.
Claimed(m) ==
  [status |-> "CLAIMED", attempt |-> row[m].attempt + 1,
   token |-> FreshToken(m), expired |-> FALSE]

\* Mutated form: the NOT EXISTS clause is dropped.
ClaimableOutOfOrder(m) ==
  \/ row[m].status \in {"PENDING", "RETRY_SCHEDULED"}
  \/ row[m].status = "CLAIMED" /\ row[m].expired

\* Mutated form: an expired claim is left to recoverExpiredLeases.
ClaimableUnlessClaimed(m) ==
  /\ row[m].status \in {"PENDING", "RETRY_SCHEDULED"}
  /\ \A k \in Earlier(m) : row[k].status = "ACKNOWLEDGED"

\* The WHERE clause of claimOne.
Claimable(m) ==
  /\ \/ row[m].status \in {"PENDING", "RETRY_SCHEDULED"}
     \/ row[m].status = "CLAIMED" /\ row[m].expired
  /\ \A k \in Earlier(m) : row[k].status = "ACKNOWLEDGED"

\* WHERE outbox_message_id = .. AND claim_token_digest = ..
HoldsToken(n) == row[pump[n].msg].token = pump[n].token

Goto(n, pc) == pump' = [pump EXCEPT ![n].pc = pc]

\* Mutated form: the pump forgets to clear its active call.
FinishWithoutClearing(n) == pump' = [pump EXCEPT ![n].pc = "idle"]

Finish(n) == pump' = [pump EXCEPT ![n] = IdleCall]

Fault ==
  /\ faults < MaxFaults
  /\ faults' = faults + 1

-------------------------------------------------------------------------------
(* The producer and the publisher's operations.                            *)

\* A game transition commits its message and a PENDING delivery state.
CommitMessage(m) ==
  /\ row[m].status = "ABSENT"
  /\ \A k \in Earlier(m) : row[k].status # "ABSENT"
  /\ row' = [row EXCEPT ![m].status = "PENDING"]
  /\ UNCHANGED <<journal, pump, accepting, sent, faults>>

\* claimOne.  Rows locked by another transaction are skipped, so any
\* claimable row may be the first one the query returns.
ClaimOne(n, m) ==
  /\ pump[n] = IdleCall
  /\ accepting[n]
  /\ Claimable(m)
  /\ LET a == row[m].attempt + 1
     IN  /\ ~ StageTaken(m, a, 1)
         /\ row' = [row EXCEPT ![m] = Claimed(m)]
         /\ journal' = journal \cup {Attempt(m, a, 1, "CLAIM")}
         /\ pump' = [pump EXCEPT ![n] = [pc |-> "claimed", msg |-> m, attempt |-> a,
                                         token |-> FreshToken(m)]]
  /\ UNCHANGED <<accepting, sent, faults>>

\* deliver, first transaction.  It is outside deliver's try block: when
\* the stage is taken the call fails and nothing else is written.
SendStarted(n) ==
  /\ pump[n].pc = "claimed"
  /\ LET m == pump[n].msg
         a == pump[n].attempt
     IN  IF StageTaken(m, a, 2)
         THEN Finish(n) /\ UNCHANGED journal
         ELSE /\ Goto(n, "sending")
              /\ journal' = journal \cup {Attempt(m, a, 2, "SEND_STARTED")}
  /\ UNCHANGED <<row, accepting, sent, faults>>

\* The sender: pg_notify in a transaction of its own.
Send(n) ==
  /\ pump[n].pc = "sending"
  /\ sent' = sent \cup {pump[n].msg}
  /\ Goto(n, "sent")
  /\ UNCHANGED <<row, journal, accepting, faults>>

\* Mutated form: the pump swallows the sender's error.
SendFailureSwallowed(n) ==
  /\ pump[n].pc = "sending"
  /\ Fault
  /\ Goto(n, "sent")
  /\ UNCHANGED <<row, journal, accepting, sent>>

\* The sender throws; the notification may have been committed before.
SendFails(n) ==
  /\ pump[n].pc = "sending"
  /\ Fault
  /\ sent' \in {sent, sent \cup {pump[n].msg}}
  /\ Goto(n, "failing")
  /\ UNCHANGED <<row, journal, accepting>>

\* deliver, after the sender returned.  An error, the UNIQUE constraint
\* included, is caught and leads to the FAIL transaction.
SendReturned(n) ==
  /\ pump[n].pc = "sent"
  /\ LET m == pump[n].msg
         a == pump[n].attempt
     IN  IF StageTaken(m, a, 3)
         THEN Goto(n, "failing") /\ UNCHANGED journal
         ELSE /\ Goto(n, "returned")
              /\ journal' = journal \cup {Attempt(m, a, 3, "SEND_RETURNED")}
  /\ UNCHANGED <<row, accepting, sent, faults>>

\* The insert of SEND_RETURNED fails in the database, before or (the
\* answer is lost) after its commit.
SendReturnedFails(n) ==
  /\ pump[n].pc = "sent"
  /\ Fault
  /\ Goto(n, "failing")
  /\ LET m == pump[n].msg
         a == pump[n].attempt
     IN  \/ UNCHANGED journal
         \/ /\ ~ StageTaken(m, a, 3)
            /\ journal' = journal \cup {Attempt(m, a, 3, "SEND_RETURNED")}
  /\ UNCHANGED <<row, accepting, sent>>

\* deliver's catch block: one transaction that journals FAIL and
\* RETRY_SCHEDULED and reschedules the row when the token still matches.
\* A taken stage, or a row already acknowledged (its CHECK constraint
\* ties acknowledged_at to the status), rolls all of it back.
RecordFailure(n) ==
  /\ pump[n].pc = "failing"
  /\ Finish(n)
  /\ LET m == pump[n].msg
         a == pump[n].attempt
     IN  IF \/ StageTaken(m, a, 3)
            \/ StageTaken(m, a, 4)
            \/ HoldsToken(n) /\ row[m].status = "ACKNOWLEDGED"
         THEN UNCHANGED <<row, journal>>
         ELSE /\ journal' = journal \cup {Attempt(m, a, 3, "FAIL"),
                                          Attempt(m, a, 4, "RETRY_SCHEDULED")}
              /\ row' = IF HoldsToken(n)
                        THEN [row EXCEPT ![m].status = "RETRY_SCHEDULED"]
                        ELSE row
  /\ UNCHANGED <<accepting, sent, faults>>

\* acknowledge: only the holder of the current claim settles the message.
Acknowledge(n) ==
  /\ pump[n].pc = "returned"
  /\ Finish(n)
  /\ LET m == pump[n].msg
         a == pump[n].attempt
     IN  IF /\ HoldsToken(n)
            /\ row[m].status = "CLAIMED"
            /\ ~ StageTaken(m, a, 4)
         THEN /\ row' = [row EXCEPT ![m].status = "ACKNOWLEDGED",
                                    ![m].expired = FALSE]
              /\ journal' = journal \cup {Attempt(m, a, 4, "ACK")}
         ELSE UNCHANGED <<row, journal>>
  /\ UNCHANGED <<accepting, sent, faults>>

\* recoverExpiredLeases: every expired claim, in one transaction.  The
\* token stays; the two rows follow whatever stage the attempt reached.
RecoverExpiredLeases ==
  LET Expired == {m \in Messages : row[m].status = "CLAIMED" /\ row[m].expired}
  IN  /\ Expired # {}
      /\ row' = [m \in Messages |->
                   IF m \in Expired THEN [row[m] EXCEPT !.status = "RETRY_SCHEDULED"]
                   ELSE row[m]]
      /\ \E stage \in [Expired -> 1 .. 4] :
           /\ \A m \in Expired : IsNextStage(m, row[m].attempt, stage[m])
           /\ journal' = journal \cup
                {Attempt(m, row[m].attempt, stage[m], "LEASE_EXPIRED") : m \in Expired} \cup
                {Attempt(m, row[m].attempt, stage[m] + 1, "RETRY_SCHEDULED") : m \in Expired}
      /\ UNCHANGED <<pump, accepting, sent, faults>>

-------------------------------------------------------------------------------
(* The environment and the life of a node.                                 *)

\* A node is working on the claim recorded in the row.
HeldByNode(m) ==
  \E n \in Nodes : pump[n] # IdleCall /\ pump[n].msg = m /\ HoldsToken(n)

\* The lease runs out: for free when its holder is gone, as a fault when
\* the holder is merely slow.
LeaseRunsOut(m) ==
  /\ row[m].status = "CLAIMED"
  /\ ~ row[m].expired
  /\ row' = [row EXCEPT ![m].expired = TRUE]
  /\ IF HeldByNode(m) THEN Fault ELSE UNCHANGED faults
  /\ UNCHANGED <<journal, pump, accepting, sent>>

\* The node dies, or a database error ends its call: the call's memory
\* is gone, the rows stay as they are.
Abandon(n) ==
  /\ pump[n] # IdleCall
  /\ Fault
  /\ Finish(n)
  /\ UNCHANGED <<row, journal, accepting, sent>>

\* drainAndStop: no new claims, the active call runs to its end.
DrainAndStop(n) ==
  /\ accepting[n]
  /\ Fault
  /\ accepting' = [accepting EXCEPT ![n] = FALSE]
  /\ UNCHANGED <<row, journal, pump, sent>>

\* A new process with a fresh pump takes the place of a drained one.
Restart(n) ==
  /\ ~ accepting[n]
  /\ pump[n] = IdleCall
  /\ accepting' = [accepting EXCEPT ![n] = TRUE]
  /\ UNCHANGED <<row, journal, pump, sent, faults>>

Deliver(n) ==
  \/ SendStarted(n) \/ Send(n) \/ SendReturned(n)
  \/ RecordFailure(n) \/ Acknowledge(n)

PumpFault(n) ==
  SendFails(n) \/ SendReturnedFails(n) \/ Abandon(n) \/ DrainAndStop(n)

Next ==
  \/ \E m \in Messages : CommitMessage(m) \/ LeaseRunsOut(m)
  \/ \E n \in Nodes : Deliver(n) \/ PumpFault(n) \/ Restart(n)
  \/ \E n \in Nodes, m \in Messages : ClaimOne(n, m)
  \/ RecoverExpiredLeases

Spec == Init /\ [][Next]_vars

\* The publisher timer fires for ever (setInterval), a node that answers
\* runs its call to the end, a replaced node starts, and time passes.
\* Nothing is assumed of recoverExpiredLeases, which no timer calls.
Fairness ==
  /\ \A n \in Nodes :
       /\ WF_vars(\E m \in Messages : ClaimOne(n, m))
       /\ WF_vars(Deliver(n))
       /\ WF_vars(Restart(n))
  /\ \A m \in Messages : WF_vars(LeaseRunsOut(m))

FairSpec == Spec /\ Fairness

-------------------------------------------------------------------------------
(* Properties.                                                             *)

\* The first hand-over of a message comes after the first hand-over of
\* every earlier message of its game, whatever leases expire and whichever
\* nodes race (claimOne's NOT EXISTS clause with acknowledge's guard).
FirstSendInOrder ==
  \A m \in sent : Earlier(m) \subseteq sent

\* At most one node can still settle or reschedule a message: a node that
\* lost its lease to another has lost the token with it.
OneAuthority ==
  \A n1, n2 \in Nodes :
    /\ pump[n1] # IdleCall
    /\ pump[n2] # IdleCall
    /\ pump[n1].msg = pump[n2].msg
    /\ HoldsToken(n1)
    /\ HoldsToken(n2)
    => n1 = n2

\* What the journal says of a message is what happened to it.  A settled message
\* was really handed over and its last attempt says so: claimed, started,
\* returned, acknowledged.  The attempt of the state is the last one journalled
\* (bad_attempt_head of reconciliation).  And no attempt has a hole or two events
\* for a stage, however the node, the recovery of its lease and a failure race
\* for the next one.
JournalTellsTheTruth ==
  /\ \A m \in Messages : row[m].status = "ACKNOWLEDGED" =>
       /\ m \in sent
       /\ \A s \in 1 .. 4 :
            Attempt(m, row[m].attempt, s,
                    <<"CLAIM", "SEND_STARTED", "SEND_RETURNED", "ACK">>[s]) \in journal
  /\ \A m \in Messages :
       /\ \A r \in journal : r.msg = m => r.attempt <= row[m].attempt
       /\ row[m].attempt > 0 => \E r \in journal : r.msg = m /\ r.attempt = row[m].attempt
  /\ \A r \in journal :
       /\ \A q \in journal : q.msg = r.msg /\ q.attempt = r.attempt /\ q.stage = r.stage => q = r
       /\ r.stage > 1 => StageTaken(r.msg, r.attempt, r.stage - 1)

\* Every committed message is acknowledged in the end.
EveryMessageIsAcknowledged ==
  \A m \in Messages :
    row[m].status = "PENDING" ~> row[m].status = "ACKNOWLEDGED"

\* The abstract promise, under the mapping that forgets leases, attempts
\* and nodes.
Delivery ==
  INSTANCE OutboxDelivery WITH
    committed <- {m \in Messages : row[m].status # "ABSENT"},
    acked <- {m \in Messages : row[m].status = "ACKNOWLEDGED"}

\* Every step of the outbox is a step of the abstract delivery, or none.
ImplementsDelivery == Delivery!Spec
===============================================================================
