----------------------------- MODULE MCShutdown -----------------------------
(* Instances of Shutdown, and of Pool under it, for TLC. *)
EXTENDS Shutdown
=============================================================================
