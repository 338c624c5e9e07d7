---------------------------- MODULE MCMessageList ----------------------------
(* MessageList on small instances.                                         *)
EXTENDS MessageList

CONSTANTS udp, tcp

MCProducers == {udp, tcp}
MCEither == BOOLEAN
=============================================================================
