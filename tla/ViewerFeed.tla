----------------------------- MODULE ViewerFeed -----------------------------
(***************************************************************************)
(* What the realtime side promises one viewer of one game, with no         *)
(* sockets, sessions, notifications, subscriptions or batches: the viewer  *)
(* takes a full synchronisation of the game at some point of its event log *)
(* and from there on hears of the events it is authorised to see, in log   *)
(* order and with none left out.  What it has heard is always exactly the  *)
(* visible events between that point and some later point of the log.      *)
(*                                                                         *)
(* Realtime implements this specification (ImplementsFeed, checked by the  *)
(* runs of MCRealtime).                                                    *)
(***************************************************************************)
EXTENDS Integers, Sequences

CONSTANTS MaxEvents

VARIABLES log,    \* one BOOLEAN per event: may the viewer see it?
          start,  \* the last event the viewer's synchronisation includes
          heard   \* the events delivered to it since

vars == <<log, start, heard>>

\* The events after a and up to b that the viewer may see.
Visible(a, b) == {i \in (a + 1) .. b : log[i]}

Init ==
  /\ log \in [1 .. 1 -> BOOLEAN]
  /\ start = 0
  /\ heard = {}

\* A committed transition appends its events to the log.
Publish ==
  \E more \in UNION {[1 .. k -> BOOLEAN] : k \in 1 .. (MaxEvents - Len(log))} :
    /\ log' = log \o more
    /\ UNCHANGED <<start, heard>>

\* A synchronisation never takes the viewer back to an earlier state.
Synchronise ==
  /\ \E n \in start .. Len(log) : start' = n
  /\ heard' = {}
  /\ UNCHANGED log

\* A delivery extends what was heard up to some later point of the log.
Deliver ==
  /\ \E n \in start .. Len(log) :
       /\ heard \subseteq Visible(start, n)
       /\ heard' = Visible(start, n)
  /\ UNCHANGED <<log, start>>

Next == Publish \/ Synchronise \/ Deliver

Spec == Init /\ [][Next]_vars
=============================================================================
