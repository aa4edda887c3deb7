----------------------------- MODULE MCDramRead -----------------------------
(* Model-checking instance of DramRead: two readers, one writer.          *)
EXTENDS DramRead

=============================================================================
