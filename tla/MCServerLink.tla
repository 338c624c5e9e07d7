----------------------------- MODULE MCServerLink -----------------------------
(* ServerLink on small instances.                                          *)
EXTENDS ServerLink

MCMayAnswer == BOOLEAN
===============================================================================
