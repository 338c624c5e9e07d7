----------------------------- MODULE MCSendList -----------------------------
(* SendList on small instances.                                           *)
EXTENDS SendList

MCCmds == {"connect", "heartbeat", "report"}
MCNoWaitCmds == {"report"}
=============================================================================
