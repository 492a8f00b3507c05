---------------------------- MODULE OutboxDelivery ----------------------------
(***************************************************************************)
(* What the durable outbox promises to the rest of the system, with no     *)
(* leases, attempts, tokens or publishers: the messages of a game are      *)
(* committed in sequence, each is handed to the transport at least once,   *)
(* only after every earlier message of its game was acknowledged, and an   *)
(* acknowledgement is final and follows a hand-over.                       *)
(*                                                                         *)
(* Outbox implements this specification (OutboxProofs, and the runs of     *)
(* MCOutbox).                                                              *)
(***************************************************************************)
EXTENDS Integers

CONSTANTS Games, MaxMessages

Messages == Games \X (1 .. MaxMessages)

Earlier(m) == {k \in Messages : k[1] = m[1] /\ k[2] < m[2]}

VARIABLES committed,  \* messages written by a committed game transition
          sent,       \* messages handed to the transport at least once
          acked       \* messages whose delivery is settled

vars == <<committed, sent, acked>>

Init == committed = {} /\ sent = {} /\ acked = {}

Commit(m) ==
  /\ m \notin committed
  /\ Earlier(m) \subseteq committed
  /\ committed' = committed \cup {m}
  /\ UNCHANGED <<sent, acked>>

\* At least once: a message may be handed over again, even after its
\* acknowledgement (a publisher that lost its lease does not know).
Send(m) ==
  /\ m \in committed
  /\ Earlier(m) \subseteq acked
  /\ sent' = sent \cup {m}
  /\ UNCHANGED <<committed, acked>>

Acknowledge(m) ==
  /\ m \in sent
  /\ acked' = acked \cup {m}
  /\ UNCHANGED <<committed, sent>>

Next == \E m \in Messages : Commit(m) \/ Send(m) \/ Acknowledge(m)

Spec == Init /\ [][Next]_vars
===============================================================================
