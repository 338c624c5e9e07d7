---------------------------- MODULE MessageQueue ----------------------------
(* What the list of messages promises to the threads that fill it: the     *)
(* messages are numbered in the order in which they were put, and are      *)
(* handled in that order, none of them twice.                              *)
EXTENDS Naturals

VARIABLES
  put,    \* how many messages were put
  got,    \* the number of the last message that was handled, 0 before any
  runs    \* how many times a message was handled

Init == put = 0 /\ got = 0 /\ runs = 0

Put == put' = put + 1 /\ UNCHANGED <<got, runs>>

\* Message k is handled; the ones before it that were not are lost.
Get(k) == k \in got + 1 .. put /\ got' = k /\ runs' = runs + 1 /\ put' = put

Next == Put \/ \E k \in got + 1 .. put : Get(k)

Spec == Init /\ [][Next]_<<put, got, runs>>

\* The steps of a queue that loses nothing.
ReliableNext == Put \/ Get(got + 1)
=============================================================================
