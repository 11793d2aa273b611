------------------------------ MODULE MCGather ------------------------------
(***************************************************************************)
(* Gather for two clusters and lists of up to two events: two of ours with *)
(* different reasons, and one of another application with a reason of      *)
(* ours, which a list can end with.                                        *)
(***************************************************************************)
EXTENDS Gather

Event(reason, ours) == [reason |-> reason, ours |-> ours]

MCEvents == {Event("BackOff", TRUE), Event("Failed", TRUE), Event("Failed", FALSE)}
=============================================================================
