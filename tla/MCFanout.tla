------------------------------ MODULE MCFanout ------------------------------
(***************************************************************************)
(* Fanout over three clusters: one goroutine may be blocked on errCh while *)
(* the collector appends the error of a second and a third has not         *)
(* started, so every order of two senders against an exit occurs.          *)
(***************************************************************************)
EXTENDS Fanout
=============================================================================
