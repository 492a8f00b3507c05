------------------------------ MODULE CommandLog ------------------------------
(***************************************************************************)
(* What durable command execution promises to clients, with no nodes,      *)
(* locks, snapshots or random cursors: one game has one log of accepted    *)
(* commands, nothing in it is ever changed or removed, an idempotency key  *)
(* is executed at most once, and a client is told that its command was     *)
(* accepted only when that command (key and payload) is in the log.        *)
(* Facilitator overrides carry no key and may appear any number of times.  *)
(*                                                                         *)
(* DurableCommand implements this specification.                           *)
(***************************************************************************)
EXTENDS Sequences

CONSTANTS Keys, Prints, Override

VARIABLES log,   \* accepted commands, in the order of their game versions
          told   \* <<key, print>> pairs some client was told were accepted

vars == <<log, told>>

Init == log = <<>> /\ told = {}

Executed(k) == \E i \in DOMAIN log : log[i].key = k

Execute(k, p) ==
  /\ ~Executed(k)
  /\ log' = Append(log, [key |-> k, print |-> p])
  /\ UNCHANGED told

RecordOverride ==
  /\ log' = Append(log, [key |-> Override, print |-> Override])
  /\ UNCHANGED told

Tell(k, p) ==
  /\ \E i \in DOMAIN log : log[i] = [key |-> k, print |-> p]
  /\ told' = told \cup {<<k, p>>}
  /\ UNCHANGED log

Next ==
  \/ \E k \in Keys, p \in Prints : Execute(k, p) \/ Tell(k, p)
  \/ RecordOverride

Spec == Init /\ [][Next]_vars
===============================================================================
