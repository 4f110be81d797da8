--------------------------- MODULE MCWorkspaceLease ---------------------------
(* Three threads: one that holds an effect, a helper or a second effect, and *)
(* one that closes or waits for exclusivity.                                 *)
EXTENDS WorkspaceLease
=============================================================================
