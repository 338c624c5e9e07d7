------------------------------- MODULE Outbox -------------------------------
(* What the list of packets promises to the server link: a request for the *)
(* server waits until it has been sent Limit times, is answered, given up, *)
(* or left behind by a request to log in, which drops all before it; none  *)
(* comes back, and the sends that it counts are its own.                   *)
EXTENDS Integers

CONSTANT Limit    \* how often a request is sent

VARIABLES
  last,      \* the number of the last packet; not every packet is a request
  waiting    \* the requests: number, whether to log in, how often it was sent

New(login) == [id |-> last', login |-> login, sent |-> 0]

Init == last = 0 /\ waiting = {}

\* Another packet takes a number.
Pass == last' > last /\ waiting' = waiting

Ask == last' > last /\ waiting' = waiting \cup {New(FALSE)}

LogIn == last' > last /\ waiting' = {New(TRUE)}

Send(p) ==
  /\ waiting' = (waiting \ {p}) \cup
                  (IF p.sent + 1 < Limit THEN {[p EXCEPT !.sent = @ + 1]} ELSE {})
  /\ last' = last

\* Request p is answered or given up.
Leave(p) == waiting' = waiting \ {p} /\ last' = last

Next == Pass \/ Ask \/ LogIn \/ \E p \in waiting : Send(p) \/ Leave(p)

Spec == Init /\ [][Next]_<<last, waiting>>
=============================================================================
