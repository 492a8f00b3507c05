------------------------------ MODULE MCSessions ------------------------------
(* Instances of Sessions for TLC. *)
EXTENDS Sessions

CONSTANTS n1, n2

TwoNodes == {n1, n2}

Budget(opens, outages, logouts, stops) ==
  [opens |-> opens, outages |-> outages, logouts |-> logouts, stops |-> stops]

\* Two connections with a logout, or with a stop; one with an outage or a logout
\* before, during or after a stop, or with two logouts and two outages.
Mixed == {Budget(2, 0, 1, {}), Budget(2, 0, 0, {n1}), Budget(1, 1, 0, {n1}),
          Budget(1, 0, 1, {n1}), Budget(1, 2, 2, {})}
===============================================================================
