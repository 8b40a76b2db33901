----------------------------- MODULE MCStartup -----------------------------
(* Startup on small instances. *)
EXTENDS Startup, TLC

CONSTANTS m1, m2
=============================================================================
