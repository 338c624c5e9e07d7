----------------------------- MODULE MessageList -----------------------------
(***************************************************************************)
(* The list of messages for the message thread (asyncMessage.c), one       *)
(* action per access to the memory the threads share.                      *)
(*                                                                         *)
(* The socket threads, the timer task and the message thread itself insert *)
(* under g_message_mutex.  The message thread takes the first node, runs   *)
(* its handler, and deletes it WITHOUT the mutex; deleteListNode only      *)
(* unlocks it at its end.  All tasks have the same priority, so the        *)
(* scheduler may switch between any two accesses.                          *)
(*                                                                         *)
(* An access to a freed node, or through a null pointer, is undefined: it  *)
(* is recorded in `fault', and nothing is said of what follows.            *)
(***************************************************************************)
EXTENDS Integers, Sequences, FiniteSets

CONSTANTS
  Producers,      \* the threads that insert messages, but for the next one
  Message,        \* the message thread
  COUNT_RANGE,    \* values of noteCount, a U8
  Releases,       \* may unlocking a mutex that another thread holds release it?
  MaxNodes        \* bound: nodes ever allocated

ASSUME ThreadAssumption == Message \notin Producers
ASSUME RangeAssumption  == COUNT_RANGE \in Nat \ {0}
ASSUME ReleaseAssumption == Releases \in (SUBSET BOOLEAN) \ {{}}
ASSUME NodesAssumption  == MaxNodes \in Nat

Threads == Producers \cup {Message}
Nodes   == 1 .. MaxNodes
Null    == 0

VARIABLES
  first,      \* g_list_header.firstNodePtr
  noteCount,  \* g_list_header.noteCount
  next,       \* pNodeNext of every node, Null in a new one
  allocated,  \* how many nodes mallocSocketData has returned
  freed,      \* the nodes that were freed
  mutex,      \* g_message_mutex: "absent" before messageListInit, "free", "held"
  pc,         \* per thread: where it is in insertListNode
  node,       \* per thread: pNode of insertListNode
  temp,       \* per thread: pTempNode of insertListNode
  count,      \* per thread: noteCount as loaded to be incremented
  at,         \* the message thread: where it is in its loop
  cur,        \* the message thread: curNode
  after,      \* the message thread: curNode->pNodeNext as loaded
  left,       \* the message thread: noteCount as loaded to be decremented
  fault,      \* "none", or the undefined access that was made
  order,      \* history: when a node was linked, 0 if it was not
  links,      \* history: how many nodes were linked
  handled,    \* history: the order of the last node that was handled
  runs,       \* history: how many times a handler was run
  raced       \* history: what an insertion has met on its way

list    == <<first, noteCount, next, allocated, freed, mutex>>
inserts == <<pc, node, temp, count>>
loop    == <<at, cur, after, left>>
history == <<order, links, handled, runs, raced>>
vars    == <<list, inserts, loop, fault, history>>

InsertPcs == {"out", "first", "test", "empty", "walk", "append", "clear",
              "load", "store", "unlock"}
LoopPcs   == {"init", "poll", "handle", "delete", "next", "first", "load",
              "store", "free", "unlock"}

-----------------------------------------------------------------------------
Inserting == \E t \in Threads : pc[t] \notin {"out", "unlock"}
Deleting  == at \in {"delete", "next", "first", "load", "store"}

\* Where the nodes lead from n, n first.
Chain(n) ==
  LET path[k \in 0 .. MaxNodes] == \* up to k nodes
        [m \in Nodes \cup {Null} |->
           IF m = Null \/ k = 0 THEN <<>> ELSE <<m>> \o path[k - 1][next[m]]]
  IN  path[MaxNodes][n]

Listed(n) == \E i \in DOMAIN Chain(first) : Chain(first)[i] = n

\* Thread t is in insertListNode, the message thread in its loop, at a step.
Inserts(t, step) == fault = "none" /\ pc[t] = step
Loops(step)      == fault = "none" /\ at = step

Undefined(kind) ==
  /\ fault' = kind
  /\ UNCHANGED <<list, inserts, loop, history>>

-----------------------------------------------------------------------------
Init ==
  /\ first = Null /\ noteCount = 0 /\ next = [n \in Nodes |-> Null]
  /\ allocated = 0 /\ freed = {} /\ mutex = "absent"
  /\ pc = [t \in Threads |-> "out"] /\ node = [t \in Threads |-> Null]
  /\ temp = [t \in Threads |-> Null] /\ count = [t \in Threads |-> 0]
  /\ at = "init" /\ cur = Null /\ after = Null /\ left = 0
  /\ fault = "none"
  /\ order = [n \in Nodes |-> 0] /\ links = 0 /\ handled = 0 /\ runs = 0
  /\ raced = {}

-----------------------------------------------------------------------------
(* insertSocketMsgToList, insertLocalMsgToList and insertListNode(FALSE, _) *)
(* by thread t.                                                             *)

\* A zeroed node is allocated and the mutex is taken; a lock that messageListInit
\* has not created yet keeps nobody out.  The message thread inserts from the
\* handlers only.
Lock(t) ==
  /\ Inserts(t, "out") /\ allocated < MaxNodes
  /\ t = Message => at = "handle"
  /\ mutex # "held"
  /\ mutex' = IF mutex = "free" THEN "held" ELSE mutex
  /\ allocated' = allocated + 1
  /\ node' = [node EXCEPT ![t] = allocated + 1]
  /\ pc' = [pc EXCEPT ![t] = "first"]
  /\ raced' = raced \cup (IF at = "init" THEN {"init"} ELSE {})
                    \cup (IF Deleting THEN {"delete"} ELSE {})
                    \cup (IF Inserting THEN {"insert"} ELSE {})
  /\ UNCHANGED <<first, noteCount, next, freed, temp, count, loop, fault,
                 order, links, handled, runs>>

LoadFirst(t) ==
  /\ Inserts(t, "first")
  /\ temp' = [temp EXCEPT ![t] = first]
  /\ pc' = [pc EXCEPT ![t] = "test"]
  /\ UNCHANGED <<list, node, count, loop, fault, history>>

TestCount(t) ==
  /\ Inserts(t, "test")
  /\ pc' = [pc EXCEPT ![t] = IF noteCount = 0 THEN "empty" ELSE "walk"]
  /\ UNCHANGED <<list, node, temp, count, loop, fault, history>>

\* The store that links node[t].
Linked(t) ==
  /\ links' = links + 1
  /\ order' = [order EXCEPT ![node[t]] = links + 1]
  /\ pc' = [pc EXCEPT ![t] = "clear"]
  /\ UNCHANGED <<noteCount, allocated, freed, mutex, node, temp, count, loop,
                 fault, handled, runs, raced>>

StoreFirst(t) ==
  /\ Inserts(t, "empty")
  /\ first' = node[t]
  /\ next' = next
  /\ Linked(t)

\* One iteration of the loop that looks for the last node.
Walk(t) ==
  /\ Inserts(t, "walk")
  /\ \/ temp[t] = Null /\ Undefined("null")
     \/ temp[t] \in freed /\ Undefined("freed")
     \/ /\ temp[t] \in Nodes \ freed
        /\ IF next[temp[t]] # Null
           THEN temp' = [temp EXCEPT ![t] = next[temp[t]]] /\ pc' = pc
           ELSE pc' = [pc EXCEPT ![t] = "append"] /\ temp' = temp
        /\ UNCHANGED <<list, node, count, loop, fault, history>>

\* Mutant of AppendNode: insertListNode(TRUE, _), which links the node before
\* the second node of the list.
AppendToHeader(t) ==
  /\ Inserts(t, "append")
  /\ first # Null
  /\ next' = [next EXCEPT ![node[t]] = next[first]]
  /\ first' = node[t]
  /\ Linked(t)

AppendNode(t) ==
  /\ Inserts(t, "append")
  /\ \/ temp[t] \in freed /\ Undefined("freed")
     \/ /\ temp[t] \notin freed
        /\ next' = [next EXCEPT ![temp[t]] = node[t]]
        /\ first' = first
        /\ Linked(t)

\* pNode->pNodeNext = NULL, when the node can already be found.
ClearNext(t) ==
  /\ Inserts(t, "clear")
  /\ \/ node[t] \in freed /\ Undefined("freed")
     \/ /\ node[t] \notin freed
        /\ next' = [next EXCEPT ![node[t]] = Null]
        /\ pc' = [pc EXCEPT ![t] = "load"]
        /\ UNCHANGED <<first, noteCount, allocated, freed, mutex, node, temp,
                       count, loop, fault, history>>

LoadCount(t) ==
  /\ Inserts(t, "load")
  /\ count' = [count EXCEPT ![t] = noteCount]
  /\ pc' = [pc EXCEPT ![t] = "store"]
  /\ UNCHANGED <<list, node, temp, loop, fault, history>>

\* The counter of a list of COUNT_RANGE nodes goes round to 0.
StoreCount(t) ==
  /\ Inserts(t, "store")
  /\ noteCount' = (count[t] + 1) % COUNT_RANGE
  /\ pc' = [pc EXCEPT ![t] = "unlock"]
  /\ raced' = raced \cup (IF count[t] + 1 = COUNT_RANGE THEN {"full"} ELSE {})
  /\ UNCHANGED <<first, next, allocated, freed, mutex, node, temp, count, loop,
                 fault, order, links, handled, runs>>

Unlock(t) ==
  /\ Inserts(t, "unlock")
  /\ mutex' = IF mutex = "absent" THEN mutex ELSE "free"
  /\ pc' = [pc EXCEPT ![t] = "out"]
  /\ UNCHANGED <<first, noteCount, next, allocated, freed, node, temp, count,
                 loop, fault, history>>

Insert(t) ==
  \/ Lock(t) \/ LoadFirst(t) \/ TestCount(t) \/ StoreFirst(t) \/ Walk(t)
  \/ AppendNode(t) \/ ClearNext(t) \/ LoadCount(t) \/ StoreCount(t) \/ Unlock(t)

-----------------------------------------------------------------------------
(* deviceMessageThread and deleteListNode.                                  *)

\* messageListInit: whatever was inserted before is forgotten.
MessageListInit ==
  /\ Loops("init")
  /\ first' = Null /\ noteCount' = 0 /\ mutex' = "free"
  /\ at' = "poll"
  /\ UNCHANGED <<next, allocated, freed, inserts, cur, after, left, fault, history>>

\* One iteration of the loop: the first node, if there is one, is taken.
Poll ==
  /\ Loops("poll")
  /\ IF first # Null THEN cur' = first /\ at' = "handle" ELSE UNCHANGED <<cur, at>>
  /\ UNCHANGED <<list, inserts, after, left, fault, history>>

\* The handler of the message returns.
Handle ==
  /\ Loops("handle") /\ pc[Message] = "out"
  /\ handled' = order[cur] /\ runs' = runs + 1
  /\ at' = "delete"
  /\ raced' = IF Inserting THEN raced \cup {"delete"} ELSE raced
  /\ UNCHANGED <<list, inserts, cur, after, left, fault, order, links>>

\* Mutant of FindNode: the search starts behind the first node.
FindNodeBehind ==
  /\ Loops("delete")
  /\ at' = "unlock"
  /\ UNCHANGED <<list, inserts, cur, after, left, fault, history>>

\* deleteListNode: the two error branches leave the node where it is.
\* The search for a node that is not the first is one step: links lead to
\* younger nodes only and first never goes back behind cur, so that a node
\* that is not the first is in the list no more, and the search fails.
FindNode ==
  /\ Loops("delete")
  /\ IF first = cur THEN at' = "next" /\ next' = next
     ELSE IF Listed(cur)
     THEN /\ at' = "load"
          /\ \E n \in Nodes : /\ Listed(n) /\ next[n] = cur
                              /\ next' = [next EXCEPT ![n] = next[cur]]
     ELSE at' = "unlock" /\ next' = next
  /\ UNCHANGED <<first, noteCount, allocated, freed, mutex, inserts, cur, after,
                 left, fault, history>>

LoadNext ==
  /\ Loops("next")
  /\ after' = next[cur]
  /\ at' = "first"
  /\ UNCHANGED <<list, inserts, cur, left, fault, history>>

\* Mutant of Unlink: the rest of the list goes with the node.
UnlinkAll ==
  /\ Loops("first")
  /\ first' = Null
  /\ at' = "load"
  /\ UNCHANGED <<noteCount, next, allocated, freed, mutex, inserts, cur, after,
                 left, fault, history>>

Unlink ==
  /\ Loops("first")
  /\ first' = after
  /\ at' = "load"
  /\ UNCHANGED <<noteCount, next, allocated, freed, mutex, inserts, cur, after,
                 left, fault, history>>

LoadLeft ==
  /\ Loops("load")
  /\ left' = noteCount
  /\ at' = "store"
  /\ UNCHANGED <<list, inserts, cur, after, fault, history>>

\* Mutant of StoreLeft: the counter is not decremented.
StoreLeftSame ==
  /\ Loops("store")
  /\ noteCount' = left
  /\ at' = "free"
  /\ UNCHANGED <<first, next, allocated, freed, mutex, inserts, cur, after, left,
                 fault, history>>

StoreLeft ==
  /\ Loops("store")
  /\ noteCount' = (left - 1) % COUNT_RANGE
  /\ at' = "free"
  /\ UNCHANGED <<first, next, allocated, freed, mutex, inserts, cur, after, left,
                 fault, history>>

FreeNodeMemory ==
  /\ Loops("free")
  /\ freed' = freed \cup {cur}
  /\ at' = "unlock"
  /\ UNCHANGED <<first, noteCount, next, allocated, mutex, inserts, cur, after,
                 left, fault, history>>

\* The mutex is unlocked by a thread that does not hold it.
UnlockUnowned ==
  /\ Loops("unlock")
  /\ \E released \in Releases : mutex' = IF released THEN "free" ELSE mutex
  /\ at' = "poll"
  /\ UNCHANGED <<first, noteCount, next, allocated, freed, inserts, cur, after,
                 left, fault, history>>

Delete ==
  \/ FindNode \/ LoadNext \/ Unlink \/ LoadLeft \/ StoreLeft \/ FreeNodeMemory
  \/ UnlockUnowned

MessageThread == MessageListInit \/ Poll \/ Handle \/ Delete

\* Nothing is said of what follows an undefined access.
AfterFault == fault # "none" /\ UNCHANGED vars

Next ==
  \/ MessageThread
  \/ \E t \in Threads : Insert(t)
  \/ AfterFault

Spec == Init /\ [][Next]_vars

\* Every thread goes on with what it has begun, and the message thread polls
\* for ever; nobody has to insert anything.
FairSpec ==
  /\ Spec
  /\ WF_vars(MessageThread)
  /\ \A t \in Threads : WF_vars(pc[t] # "out" /\ Insert(t))

-----------------------------------------------------------------------------
TypeOK ==
  /\ first \in Nodes \cup {Null} /\ noteCount \in 0 .. COUNT_RANGE - 1
  /\ next \in [Nodes -> Nodes \cup {Null}]
  /\ allocated \in 0 .. MaxNodes /\ freed \subseteq Nodes
  /\ mutex \in {"absent", "free", "held"}
  /\ pc \in [Threads -> InsertPcs]
  /\ node \in [Threads -> Nodes \cup {Null}] /\ temp \in [Threads -> Nodes \cup {Null}]
  /\ count \in [Threads -> 0 .. COUNT_RANGE - 1]
  /\ at \in LoopPcs
  /\ cur \in Nodes \cup {Null} /\ after \in Nodes \cup {Null}
  /\ left \in 0 .. COUNT_RANGE - 1
  /\ fault \in {"none", "null", "freed"}
  /\ order \in [Nodes -> Nat] /\ links \in Nat /\ handled \in Nat /\ runs \in Nat
  /\ raced \subseteq {"init", "delete", "insert", "full"}

(* While no insertion has met a deletion, another insertion, the           *)
(* initialisation of the list or a counter that goes round, no message is  *)
(* lost (insertListNode, deleteListNode).                                  *)
Queue == INSTANCE MessageQueue WITH put <- links, got <- handled, runs <- runs
NoLossUnlessRaced ==
  [][raced' = {} => Queue!ReliableNext \/ UNCHANGED <<links, handled, runs>>]_vars

(* Whatever the interleaving, and as long as nothing undefined has         *)
(* happened, the list is a queue that may lose messages: they are handled  *)
(* in the order in which they were linked, and none of them twice.  Until  *)
(* something raced it loses none (insertListNode, deleteListNode).         *)
InOrder == Queue!Spec /\ NoLossUnlessRaced

(* While no insertion has met any of them, no thread touches a freed node  *)
(* or a null pointer, deleteListNode is called for the first node of the   *)
(* list, and between operations noteCount is the length of the list: the   *)
(* test for an empty list in insertListNode rests on that.                 *)
SoundUnlessRaced ==
  raced = {} =>
    /\ fault = "none"
    /\ at = "delete" => cur = first
    /\ ~Inserting /\ ~Deleting => noteCount = Len(Chain(first))

(* The types, and the soundness of the list (MSG_NODE, deleteListNode).    *)
QueueInv == TypeOK /\ SoundUnlessRaced

(* Every message that was linked is handled in the end, unless an          *)
(* insertion has met one of them.                                          *)
Served == \A k \in 1 .. MaxNodes : links >= k ~> handled >= k \/ raced # {}
=============================================================================
