------------------------------- MODULE MCRelay -------------------------------
(* Model-checking instance of Relay: two paths, two processes. *)
EXTENDS Relay

=============================================================================
