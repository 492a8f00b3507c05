------------------------------ MODULE MCRealtime ------------------------------
(* Instances of Realtime for TLC. *)
EXTENDS Realtime

\* One event the viewer sees, one it does not, and two of them at once.
MixedShapes == {<<TRUE>>, <<FALSE>>, <<TRUE, TRUE>>}
VisibleShapes == {<<TRUE>>, <<TRUE, TRUE>>}
OneShape == {<<TRUE>>}

\* A behaviour has requests of the client, or an override and a failing read.
Apart == spent.requests = 0 \/ spent.overrides + spent.faults = 0
===============================================================================
