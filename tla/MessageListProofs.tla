-------------------------- MODULE MessageListProofs --------------------------
(* Proofs about MessageList, for any number of threads and of messages, any *)
(* width of noteCount and whatever unlocking a mutex of another thread does.*)
EXTENDS MessageList, FiniteSetTheorems, TLAPS

USE ThreadAssumption, RangeAssumption, ReleaseAssumption, NodesAssumption DEF Null

(* While a message is handled and deleted, curNode is a node.              *)
TypeInv == TypeOK /\ (at \notin {"init", "poll"} => cur \in Nodes)

LEMMA TypeStep == TypeInv /\ [Next]_vars => TypeInv'
<1> SUFFICES ASSUME TypeInv, [Next]_vars PROVE TypeInv'
  OBVIOUS
<1> USE DEF TypeInv, TypeOK, Inserts, Loops, list, inserts, loop, history, Undefined
<1>1. ASSUME NEW t \in Threads, Lock(t) PROVE TypeInv'
  BY <1>1 DEF Lock, InsertPcs, Nodes
<1>2. ASSUME NEW t \in Threads, LoadFirst(t) PROVE TypeInv'
  BY <1>2 DEF LoadFirst, InsertPcs
<1>3. ASSUME NEW t \in Threads, TestCount(t) PROVE TypeInv'
  BY <1>3 DEF TestCount, InsertPcs
<1>linked. ASSUME NEW t \in Threads, Linked(t),
                  first' \in Nodes \cup {Null}, next' \in [Nodes -> Nodes \cup {Null}]
           PROVE  TypeInv'
  <2>1. order' \in [Nodes -> Nat] /\ links' \in Nat
    <3> DEFINE k == links + 1
    <3>1. k \in Nat /\ order \in [Nodes -> Nat]
      OBVIOUS
    <3>2. order' = [order EXCEPT ![node[t]] = k] /\ links' = k
      BY <1>linked DEF Linked
    <3> HIDE DEF k
    <3> QED
      BY <3>1, <3>2
  <2>2. pc' \in [Threads -> InsertPcs]
    BY <1>linked DEF Linked, InsertPcs
  <2>3. UNCHANGED <<noteCount, allocated, freed, mutex, node, temp, count, loop,
                    fault, handled, runs, raced>>
    BY <1>linked DEF Linked
  <2> QED
    BY <1>linked, <2>1, <2>2, <2>3
<1>4. ASSUME NEW t \in Threads, StoreFirst(t) PROVE TypeInv'
  <2>1. first' \in Nodes \cup {Null} /\ next' \in [Nodes -> Nodes \cup {Null}] /\ Linked(t)
    BY <1>4 DEF StoreFirst
  <2> QED
    BY <1>linked, <2>1
<1>5. ASSUME NEW t \in Threads, Walk(t) PROVE TypeInv'
  BY <1>5 DEF Walk, InsertPcs, Nodes
<1>6. ASSUME NEW t \in Threads, AppendNode(t) PROVE TypeInv'
  <2>1. CASE temp[t] \in freed
    BY <1>6, <2>1 DEF AppendNode
  <2>2. CASE temp[t] \notin freed
    <3>1. first' \in Nodes \cup {Null} /\ next' \in [Nodes -> Nodes \cup {Null}] /\ Linked(t)
      BY <1>6, <2>2 DEF AppendNode
    <3> QED
      BY <1>linked, <3>1
  <2> QED
    BY <2>1, <2>2
<1>7. ASSUME NEW t \in Threads, ClearNext(t) PROVE TypeInv'
  BY <1>7 DEF ClearNext, InsertPcs
<1>8. ASSUME NEW t \in Threads, LoadCount(t) PROVE TypeInv'
  BY <1>8 DEF LoadCount, InsertPcs
<1>9. ASSUME NEW t \in Threads, StoreCount(t) PROVE TypeInv'
  BY <1>9 DEF StoreCount, InsertPcs
<1>10. ASSUME NEW t \in Threads, Unlock(t) PROVE TypeInv'
  BY <1>10 DEF Unlock, InsertPcs
<1>11. CASE MessageListInit
  BY <1>11 DEF MessageListInit, LoopPcs
<1>12. CASE Poll
  BY <1>12 DEF Poll, LoopPcs
<1>13. CASE Handle
  BY <1>13 DEF Handle, LoopPcs
<1>14. CASE FindNode
  BY <1>14 DEF FindNode, LoopPcs
<1>15. CASE LoadNext
  BY <1>15 DEF LoadNext, LoopPcs
<1>16. CASE Unlink
  BY <1>16 DEF Unlink, LoopPcs
<1>17. CASE LoadLeft
  BY <1>17 DEF LoadLeft, LoopPcs
<1>18. CASE StoreLeft
  BY <1>18 DEF StoreLeft, LoopPcs
<1>19. CASE FreeNodeMemory
  BY <1>19 DEF FreeNodeMemory, LoopPcs
<1>20. CASE UnlockUnowned
  BY <1>20 DEF UnlockUnowned, LoopPcs
<1>21. CASE UNCHANGED vars
  BY <1>21 DEF vars
<1> QED
  BY <1>1, <1>2, <1>3, <1>4, <1>5, <1>6, <1>7, <1>8, <1>9, <1>10, <1>11, <1>12,
     <1>13, <1>14, <1>15, <1>16, <1>17, <1>18, <1>19, <1>20, <1>21
     DEF Next, MessageThread, Insert, Delete, AfterFault

(* Pointers stay pointers to nodes that were allocated, and the counters   *)
(* stay in their range.                                                    *)
THEOREM TypeCorrect == Spec => []TypeOK
<1>1. Init => TypeInv
  BY DEF Init, TypeInv, TypeOK, InsertPcs, LoopPcs, Nodes
<1>2. TypeInv => TypeOK
  BY DEF TypeInv
<1> QED
  BY <1>1, <1>2, TypeStep, PTL DEF Spec

-----------------------------------------------------------------------------
(* The list only ever leads to younger nodes.  A thread that has not linked *)
(* its node yet owns it: nothing leads to it.                               *)

Prelink(t) == pc[t] \in {"first", "test", "empty", "walk", "append"}

OrderInv ==
  /\ \A n \in Nodes : order[n] <= links
  /\ handled <= links
  /\ \A n \in Nodes : next[n] # Null => order[next[n]] > order[n]
  /\ \A n \in Nodes : order[n] = 0 => next[n] = Null

OwnInv ==
  /\ \A n \in Nodes : n > allocated => order[n] = 0
  /\ \A t \in Threads : Prelink(t) => /\ node[t] \in Nodes
                                      /\ node[t] <= allocated
                                      /\ order[node[t]] = 0
  /\ \A t, u \in Threads : Prelink(t) /\ Prelink(u) /\ t # u => node[t] # node[u]

WalkInv ==
  \A t \in Threads :
    /\ pc[t] \in {"test", "empty", "walk", "append"} /\ temp[t] # Null => order[temp[t]] > 0
    /\ pc[t] = "append" => temp[t] \in Nodes

(* The first node is one that was not handled yet, or the one being         *)
(* deleted.                                                                 *)
FirstInv ==
  /\ first # Null => order[first] > 0
  /\ first # Null => \/ order[first] > handled
                     \/ at \in {"delete", "next", "first"} /\ first = cur
  /\ at = "handle" => /\ order[cur] > handled
                      /\ first # Null /\ (first = cur \/ order[first] > order[cur])
  /\ at \in {"delete", "next", "first"} => order[cur] = handled /\ handled > 0
  /\ at = "first" /\ after # Null => order[after] > handled

ListInv == TypeInv /\ OrderInv /\ OwnInv /\ WalkInv /\ FirstInv

(* Linking the node a thread owns as the youngest one keeps the order.      *)
LEMMA LinkKeeps ==
  ASSUME ListInv, NEW t \in Threads, Prelink(t), Linked(t), TypeInv',
         \/ first' = node[t] /\ next' = next
         \/ /\ first' = first
            /\ temp[t] \in Nodes /\ order[temp[t]] > 0
            /\ next' = [next EXCEPT ![temp[t]] = node[t]]
  PROVE  OrderInv' /\ OwnInv' /\ WalkInv' /\ FirstInv'
<1> DEFINE m == node[t]
           k == links + 1
<1> USE DEF ListInv
<1>1. /\ m \in Nodes /\ order[m] = 0 /\ next[m] = Null /\ m <= allocated
      /\ \A n \in Nodes : next[n] # m
  <2>1. m \in Nodes /\ order[m] = 0 /\ m <= allocated
    BY DEF OwnInv
  <2>2. next[m] = Null
    BY <2>1 DEF OrderInv
  <2>3. ASSUME NEW n \in Nodes, next[n] = m PROVE FALSE
    <3>1. order[m] > order[n] /\ order[n] \in Nat
      BY <2>1, <2>3 DEF OrderInv, TypeInv, TypeOK, Nodes
    <3> QED
      BY <2>1, <3>1
  <2> QED
    BY <2>1, <2>2, <2>3
<1>2. /\ k \in Nat /\ k > links /\ k > handled /\ k > 0
      /\ \A n \in Nodes : order[n] < k
  BY DEF OrderInv, TypeInv, TypeOK
<1>3. links' = k /\ order' = [order EXCEPT ![m] = k]
  BY DEF Linked
<1>4. /\ pc' = [pc EXCEPT ![t] = "clear"]
      /\ UNCHANGED <<allocated, node, temp, at, cur, after, handled>>
  BY DEF Linked, loop
<1>5. /\ order \in [Nodes -> Nat] /\ links \in Nat /\ handled \in Nat
      /\ next \in [Nodes -> Nodes \cup {Null}] /\ pc \in [Threads -> InsertPcs]
      /\ node \in [Threads -> Nodes \cup {Null}] /\ temp \in [Threads -> Nodes \cup {Null}]
      /\ first \in Nodes \cup {Null} /\ cur \in Nodes \cup {Null}
      /\ after \in Nodes \cup {Null} /\ allocated \in Nat
      /\ at \notin {"init", "poll"} => cur \in Nodes
  BY DEF TypeInv, TypeOK
<1>6. order'[m] = k /\ \A n \in Nodes : n # m => order'[n] = order[n]
  BY <1>1, <1>3, <1>5
<1>7. \A n \in Nodes : order'[n] <= k /\ order'[n] \in Nat /\ order'[n] >= order[n]
  BY <1>1, <1>2, <1>5, <1>6
<1>8. /\ next' \in [Nodes -> Nodes \cup {Null}]
      /\ \A n \in Nodes : next'[n] = next[n] \/ (n # m /\ order[n] > 0 /\ next'[n] = m)
  BY <1>1, <1>5
<1> HIDE DEF m, k
<1>9. OrderInv'
  <2>1. \A n \in Nodes : order'[n] <= links' /\ handled' <= links'
    BY <1>2, <1>3, <1>4, <1>5, <1>7
  <2>2. ASSUME NEW n \in Nodes, next'[n] # Null PROVE order'[next'[n]] > order'[n]
    <3>1. CASE next'[n] = next[n]
      <4>1. order[next[n]] > order[n] /\ n # m /\ next[n] # m /\ next[n] \in Nodes
        BY <1>1, <1>5, <2>2, <3>1 DEF OrderInv
      <4> QED
        BY <1>6, <3>1, <4>1
    <3>2. CASE n # m /\ next'[n] = m
      BY <1>2, <1>5, <1>6, <3>2
    <3> QED
      BY <1>8, <3>1, <3>2
  <2>3. ASSUME NEW n \in Nodes, order'[n] = 0 PROVE next'[n] = Null
    <3>1. n # m /\ order[n] = 0
      BY <1>2, <1>6, <2>3
    <3> QED
      BY <1>5, <1>8, <3>1 DEF OrderInv
  <2> QED
    BY <1>2, <1>3, <1>4, <1>5, <2>1, <2>2, <2>3 DEF OrderInv
<1>10. OwnInv'
  <2>1. \A u \in Threads : Prelink(u)' => u # t /\ Prelink(u)
    BY <1>4, <1>5 DEF Prelink
  <2>2. \A u \in Threads : Prelink(u)' => node[u] # m
    BY <2>1 DEF OwnInv, m
  <2>3. \A n \in Nodes : n > allocated => n # m
    BY <1>1, <1>5 DEF Nodes
  <2> QED
    BY <1>4, <1>6, <2>1, <2>2, <2>3 DEF OwnInv
<1>11. WalkInv'
  BY <1>4, <1>5, <1>7 DEF WalkInv
<1>12. FirstInv'
  <2>1. CASE first' = m
    <3>1. first' \in Nodes /\ order'[first'] = k
      BY <1>1, <1>6, <2>1
    <3>2. at \in {"handle", "delete", "next", "first"} => order'[cur] = order[cur]
      BY <1>1, <1>5, <1>6 DEF FirstInv
    <3>3. at = "first" /\ after # Null => order'[after] = order[after]
      BY <1>1, <1>5, <1>6 DEF FirstInv
    <3>4. m # Null /\ (cur \in Nodes => order[cur] < k)
      BY <1>1, <1>2 DEF Nodes
    <3> QED
      BY <1>2, <1>4, <1>5, <2>1, <3>1, <3>2, <3>3, <3>4 DEF FirstInv
  <2>2. CASE first' = first
    <3>1. first # Null => order'[first] = order[first]
      BY <1>1, <1>5, <1>6 DEF FirstInv
    <3>2. at \in {"handle", "delete", "next", "first"} => order'[cur] = order[cur]
      BY <1>1, <1>5, <1>6 DEF FirstInv
    <3>3. at = "first" /\ after # Null => order'[after] = order[after]
      BY <1>1, <1>5, <1>6 DEF FirstInv
    <3> QED
      BY <1>4, <1>5, <2>2, <3>1, <3>2, <3>3 DEF FirstInv
  <2> QED
    BY <2>1, <2>2 DEF m
<1> QED
  BY <1>9, <1>10, <1>11, <1>12

LEMMA ListStep == ListInv /\ [Next]_vars => ListInv'
<1> SUFFICES ASSUME ListInv, [Next]_vars PROVE ListInv'
  OBVIOUS
<1> USE DEF ListInv
<1>typed. /\ TypeInv'
          /\ order \in [Nodes -> Nat] /\ links \in Nat /\ handled \in Nat
          /\ next \in [Nodes -> Nodes \cup {Null}] /\ pc \in [Threads -> InsertPcs]
          /\ node \in [Threads -> Nodes \cup {Null}]
          /\ temp \in [Threads -> Nodes \cup {Null}]
          /\ first \in Nodes \cup {Null} /\ cur \in Nodes \cup {Null}
          /\ after \in Nodes \cup {Null} /\ allocated \in 0 .. MaxNodes
          /\ at \notin {"init", "poll"} => cur \in Nodes
  BY TypeStep DEF TypeInv, TypeOK
<1> USE DEF Inserts, Loops, list, inserts, loop, history
<1>undefined. ASSUME NEW kind, Undefined(kind) PROVE ListInv'
  BY <1>typed, <1>undefined DEF Undefined, OrderInv, OwnInv, WalkInv, FirstInv, Prelink
<1>1. ASSUME NEW t \in Threads, Lock(t) PROVE ListInv'
  <2>1. /\ node' = [node EXCEPT ![t] = allocated + 1] /\ pc' = [pc EXCEPT ![t] = "first"]
        /\ allocated' = allocated + 1 /\ allocated + 1 \in Nodes /\ pc[t] = "out"
        /\ UNCHANGED <<first, next, temp, at, cur, after, order, links, handled>>
    BY <1>1, <1>typed DEF Lock, Nodes
  <2>2. OrderInv' /\ WalkInv' /\ FirstInv'
    BY <1>typed, <2>1 DEF OrderInv, WalkInv, FirstInv
  <2>3. \A u \in Threads : Prelink(u)' =>
          IF u = t THEN node'[u] = allocated + 1
                   ELSE Prelink(u) /\ node'[u] = node[u] /\ node[u] <= allocated
    BY <1>typed, <2>1 DEF OwnInv, Prelink
  <2>4. order[allocated + 1] = 0
    BY <1>typed, <2>1 DEF OwnInv
  <2>5. \A n \in Nodes : n <= allocated => n <= allocated + 1 /\ n # allocated + 1
    BY <1>typed DEF Nodes
  <2>6. \A n \in Nodes : n > allocated + 1 => n > allocated
    BY <1>typed DEF Nodes
  <2>7. OwnInv'
    <3>1. \A n \in Nodes : n > allocated' => order'[n] = 0
      BY <2>1, <2>6 DEF OwnInv
    <3>2. \A u \in Threads : Prelink(u)' => /\ node'[u] \in Nodes
                                            /\ node'[u] <= allocated'
                                            /\ order'[node'[u]] = 0
      BY <1>typed, <2>1, <2>3, <2>4, <2>5 DEF OwnInv
    <3>3. \A u, v \in Threads : Prelink(u)' /\ Prelink(v)' /\ u # v => node'[u] # node'[v]
      BY <1>typed, <2>3, <2>5 DEF OwnInv
    <3> QED
      BY <3>1, <3>2, <3>3 DEF OwnInv
  <2> QED
    BY <1>typed, <2>2, <2>7
<1>2. ASSUME NEW t \in Threads, LoadFirst(t) PROVE ListInv'
  BY <1>2, <1>typed DEF LoadFirst, OrderInv, OwnInv, WalkInv, FirstInv, Prelink
<1>3. ASSUME NEW t \in Threads, TestCount(t) PROVE ListInv'
  BY <1>3, <1>typed DEF TestCount, OrderInv, OwnInv, WalkInv, FirstInv, Prelink
<1>4. ASSUME NEW t \in Threads, StoreFirst(t) PROVE ListInv'
  BY <1>4, <1>typed, LinkKeeps DEF StoreFirst, Prelink
<1>5. ASSUME NEW t \in Threads, Walk(t) PROVE ListInv'
  <2>1. CASE Undefined("null") \/ Undefined("freed")
    BY <1>undefined, <2>1
  <2>2. CASE temp[t] \in Nodes /\ next[temp[t]] # Null
             /\ temp' = [temp EXCEPT ![t] = next[temp[t]]] /\ pc' = pc
             /\ UNCHANGED <<list, node, count, loop, fault, history>>
    <3>1. next[temp[t]] \in Nodes /\ order[next[temp[t]]] > 0
      BY <1>typed, <2>2 DEF OrderInv, Nodes
    <3> QED
      BY <1>5, <1>typed, <2>2, <3>1 DEF Walk, OrderInv, OwnInv, WalkInv, FirstInv, Prelink
  <2>3. CASE temp[t] \in Nodes
             /\ pc' = [pc EXCEPT ![t] = "append"] /\ temp' = temp
             /\ UNCHANGED <<list, node, count, loop, fault, history>>
    BY <1>5, <1>typed, <2>3 DEF Walk, OrderInv, OwnInv, WalkInv, FirstInv, Prelink
  <2> QED
    BY <1>5, <2>1, <2>2, <2>3 DEF Walk
<1>6. ASSUME NEW t \in Threads, AppendNode(t) PROVE ListInv'
  <2>1. CASE Undefined("freed")
    BY <1>undefined, <2>1
  <2>2. CASE next' = [next EXCEPT ![temp[t]] = node[t]] /\ first' = first /\ Linked(t)
    <3>1. Prelink(t) /\ temp[t] \in Nodes /\ order[temp[t]] > 0
      BY <1>6 DEF AppendNode, Prelink, WalkInv, Nodes
    <3> QED
      BY <1>typed, <2>2, <3>1, LinkKeeps
  <2> QED
    BY <1>6, <2>1, <2>2 DEF AppendNode
<1>7. ASSUME NEW t \in Threads, ClearNext(t) PROVE ListInv'
  <2>1. CASE Undefined("freed")
    BY <1>undefined, <2>1
  <2>2. CASE next' = [next EXCEPT ![node[t]] = Null]
             /\ pc' = [pc EXCEPT ![t] = "load"]
             /\ UNCHANGED <<first, noteCount, allocated, freed, mutex, node, temp,
                            count, loop, fault, history>>
    BY <1>7, <1>typed, <2>2 DEF OrderInv, OwnInv, WalkInv, FirstInv, Prelink
  <2> QED
    BY <1>7, <2>1, <2>2 DEF ClearNext
<1>8. ASSUME NEW t \in Threads, LoadCount(t) \/ StoreCount(t) \/ Unlock(t) PROVE ListInv'
  BY <1>8, <1>typed
     DEF LoadCount, StoreCount, Unlock, OrderInv, OwnInv, WalkInv, FirstInv, Prelink
<1>9. CASE MessageListInit
  BY <1>9, <1>typed DEF MessageListInit, OrderInv, OwnInv, WalkInv, FirstInv, Prelink
<1>10. CASE Poll
  BY <1>10, <1>typed DEF Poll, OrderInv, OwnInv, WalkInv, FirstInv, Prelink
<1>11. CASE Handle
  BY <1>11, <1>typed DEF Handle, OrderInv, OwnInv, WalkInv, FirstInv, Prelink
<1>12. CASE FindNode
  <2>1. UNCHANGED <<first, allocated, pc, node, temp, cur, after, order, links, handled>>
    BY <1>12 DEF FindNode
  <2>2. OwnInv' /\ WalkInv'
    BY <2>1 DEF OwnInv, WalkInv, Prelink
  <2>3. FirstInv'
    BY <1>12, <1>typed DEF FindNode, FirstInv
  <2>4. CASE next' = next
    BY <1>typed, <2>1, <2>2, <2>3, <2>4 DEF OrderInv
  <2>5. ASSUME NEW n \in Nodes, next[n] = cur, next' = [next EXCEPT ![n] = next[cur]]
        PROVE  ListInv'
    <3>1. cur \in Nodes /\ order[cur] > order[n]
      BY <1>12, <1>typed, <2>5 DEF FindNode, OrderInv, Nodes
    <3>2. next[cur] # Null => next[cur] \in Nodes /\ order[next[cur]] > order[n]
      BY <1>typed, <3>1 DEF OrderInv
    <3>3. order[n] # 0
      BY <1>typed, <2>5, <3>1 DEF OrderInv, Nodes
    <3>4. OrderInv'
      BY <1>typed, <2>1, <2>5, <3>1, <3>2, <3>3 DEF OrderInv
    <3> QED
      BY <1>typed, <2>2, <2>3, <3>4
  <2> QED
    BY <1>12, <2>4, <2>5 DEF FindNode
<1>13. CASE LoadNext
  BY <1>13, <1>typed DEF LoadNext, OrderInv, OwnInv, WalkInv, FirstInv, Prelink
<1>14. CASE Unlink
  BY <1>14, <1>typed DEF Unlink, OrderInv, OwnInv, WalkInv, FirstInv, Prelink
<1>15. CASE LoadLeft \/ StoreLeft \/ FreeNodeMemory \/ UnlockUnowned
  BY <1>15, <1>typed DEF LoadLeft, StoreLeft, FreeNodeMemory, UnlockUnowned,
                         OrderInv, OwnInv, WalkInv, FirstInv, Prelink
<1>16. CASE UNCHANGED vars
  BY <1>16, <1>typed DEF vars, OrderInv, OwnInv, WalkInv, FirstInv, Prelink
<1> QED
  BY <1>1, <1>2, <1>3, <1>4, <1>5, <1>6, <1>7, <1>8, <1>9, <1>10, <1>11, <1>12,
     <1>13, <1>14, <1>15, <1>16
     DEF Next, MessageThread, Insert, Delete, AfterFault

(* Handling a message and linking one are the only steps the queue sees.    *)
LEMMA StepRefines ==
  ListInv /\ [Next]_vars => [Queue!Next]_<<links, handled, runs>>
<1> SUFFICES ASSUME ListInv, [Next]_vars PROVE [Queue!Next]_<<links, handled, runs>>
  OBVIOUS
<1> USE DEF Inserts, Loops, list, inserts, loop, history, Undefined
<1>1. ASSUME NEW t \in Threads, Linked(t) PROVE Queue!Put
  BY <1>1 DEF Linked, Queue!Put
<1>2. ASSUME NEW t \in Threads, StoreFirst(t) PROVE Queue!Put
  BY <1>1, <1>2 DEF StoreFirst
<1>3. ASSUME NEW t \in Threads, AppendNode(t)
      PROVE  Queue!Put \/ UNCHANGED <<links, handled, runs>>
  BY <1>1, <1>3 DEF AppendNode
<1>4. CASE Handle
  <2>1. order[cur] \in Nat /\ order[cur] > handled /\ order[cur] <= links
    BY <1>4 DEF Handle, ListInv, TypeInv, TypeOK, FirstInv, OrderInv
  <2>2. handled' = order[cur] /\ runs' = runs + 1 /\ links' = links
    BY <1>4 DEF Handle
  <2>3. order[cur] \in handled + 1 .. links
    BY <2>1 DEF ListInv, TypeInv, TypeOK
  <2> QED
    BY <2>2, <2>3 DEF Queue!Next, Queue!Get
<1>5. ASSUME NEW t \in Threads, Insert(t), ~StoreFirst(t), ~AppendNode(t)
      PROVE  UNCHANGED <<links, handled, runs>>
  BY <1>5 DEF Insert, Lock, LoadFirst, TestCount, Walk, ClearNext, LoadCount, StoreCount,
              Unlock
<1>6. CASE MessageListInit \/ Poll \/ Delete
  BY <1>6 DEF MessageListInit, Poll, Delete, FindNode, LoadNext, Unlink, LoadLeft,
              StoreLeft, FreeNodeMemory, UnlockUnowned
<1>7. CASE UNCHANGED vars
  BY <1>7 DEF vars
<1> QED
  BY <1>2, <1>3, <1>4, <1>5, <1>6, <1>7 DEF Next, MessageThread, AfterFault, Queue!Next

(* With any number of threads and messages, and although deletions take no  *)
(* lock: messages are handled in the order in which they were linked, and   *)
(* none of them twice, up to the first access to freed memory.              *)
THEOREM HandledInOrder == Spec => Queue!Spec
<1>1. Init => ListInv
  BY DEF Init, ListInv, TypeInv, TypeOK, InsertPcs, LoopPcs, Nodes, OrderInv, OwnInv,
         WalkInv, FirstInv, Prelink
<1>2. Init => Queue!Init
  BY DEF Init, Queue!Init
<1> QED
  BY <1>1, <1>2, ListStep, StepRefines, PTL DEF Spec, Queue!Spec
-----------------------------------------------------------------------------
(* While nothing has raced, the list is the nodes that were linked and not  *)
(* unlinked, each leading to the one linked next.                           *)

Busy(t)      == pc[t] \notin {"out", "unlock"}
Uncounted(t) == pc[t] \in {"clear", "load", "store"}

\* The order of the last node that was unlinked, and what noteCount has not seen of it.
Base == IF at \in {"delete", "next", "first"} THEN handled - 1 ELSE handled
Late == IF at \in {"load", "store"} THEN 1 ELSE 0

\* One insertion at a time, none while a node is deleted or the list is made.
Alone ==
  /\ fault = "none"
  /\ \A t, u \in Threads : Busy(t) /\ Busy(u) => t = u
  /\ Deleting => \A t \in Threads : ~Busy(t)
  /\ at = "init" => links = 0 /\ \A t \in Threads : ~Busy(t)

\* Every node was linked but for one under construction.
Built ==
  /\ (\A t \in Threads : ~Prelink(t)) => links = allocated
  /\ \A t \in Threads : Prelink(t) => links + 1 = allocated

\* From the first node to the last one, and none of them freed.
Linear ==
  /\ Base <= links
  /\ \A m, n \in Nodes : order[m] = order[n] /\ order[m] > 0 => m = n
  /\ first = Null => Base = links
  /\ first # Null => order[first] = Base + 1
  /\ \A n \in Nodes : order[n] > Base /\ next[n] = Null => order[n] = links
  /\ \A n \in Nodes : order[n] > Base /\ next[n] # Null => order[next[n]] = order[n] + 1
  /\ \A n \in freed : order[n] > 0 /\ order[n] <= Base

\* The node that is handled or deleted.
Taken ==
  /\ at \in {"handle", "delete", "next", "first"} => cur = first
  /\ at = "first" => after = next[cur]
  /\ at \in {"load", "store", "free"} => order[cur] = handled /\ handled > 0

Walking ==
  \A t \in Threads :
    /\ pc[t] = "test" => temp[t] = first
    /\ pc[t] = "empty" => first = Null
    /\ pc[t] = "walk" => temp[t] \in Nodes /\ order[temp[t]] > Base
    /\ pc[t] = "append" => /\ temp[t] \in Nodes
                           /\ order[temp[t]] = links /\ links > Base
    /\ pc[t] = "clear" => /\ node[t] \in Nodes
                          /\ order[node[t]] = links /\ links > Base

\* noteCount lags behind by what is being linked or unlinked.
Counting ==
  /\ (\A t \in Threads : ~Uncounted(t)) => noteCount = links - Base + Late
  /\ \A t \in Threads : Uncounted(t) => noteCount + 1 = links - Base
  /\ \A t \in Threads : pc[t] = "store" => count[t] = noteCount
  /\ at = "store" => left = noteCount

Sound == Alone /\ Built /\ Linear /\ Taken /\ Walking /\ Counting

SoundInv == ListInv /\ (raced = {} => Sound)

(* Linking a node at the end of the list, or as the only one.              *)
LEMMA LinkSound ==
  ASSUME ListInv, Sound, NEW t \in Threads, Prelink(t), Linked(t),
         \/ first = Null /\ first' = node[t] /\ next' = next
         \/ /\ first' = first
            /\ temp[t] \in Nodes /\ order[temp[t]] = links /\ links > Base
            /\ next' = [next EXCEPT ![temp[t]] = node[t]]
  PROVE  Sound'
<1> DEFINE m == node[t]
           k == links + 1
           b == Base
<1>typed. /\ order \in [Nodes -> Nat] /\ links \in Nat /\ handled \in Nat
          /\ next \in [Nodes -> Nodes \cup {Null}] /\ pc \in [Threads -> InsertPcs]
          /\ node \in [Threads -> Nodes \cup {Null}]
          /\ temp \in [Threads -> Nodes \cup {Null}]
          /\ first \in Nodes \cup {Null} /\ cur \in Nodes \cup {Null}
          /\ allocated \in Nat /\ noteCount \in Nat
          /\ at \notin {"init", "poll"} => cur \in Nodes
  BY DEF ListInv, TypeInv, TypeOK
<1>nodes. Null \notin Nodes
  BY DEF Nodes
<1>1. /\ Busy(t) /\ ~Deleting /\ at # "init"
      /\ \A u \in Threads : u # t => ~Busy(u) /\ ~Prelink(u) /\ ~Uncounted(u)
      /\ \A u \in Threads : u # t => pc[u] \in {"out", "unlock"}
  BY <1>typed DEF Sound, Alone, Busy, Prelink, Uncounted, InsertPcs
<1>2. b \in Nat /\ b <= links /\ Base' = b /\ Late = 0 /\ Late' = 0
  BY <1>1, <1>typed DEF Sound, Linear, Base, Late, Deleting, Linked, loop
<1>3. /\ m \in Nodes /\ order[m] = 0 /\ next[m] = Null
      /\ \A n \in Nodes : order[n] <= links
      /\ \A n \in Nodes : next[n] # Null => order[next[n]] > 0
  BY <1>typed DEF ListInv, OwnInv, OrderInv
<1>4. /\ links' = k /\ order' = [order EXCEPT ![m] = k]
      /\ pc' = [pc EXCEPT ![t] = "clear"]
      /\ UNCHANGED <<noteCount, allocated, freed, node, temp, count, at, cur, after, left,
                     fault, handled>>
  BY DEF Linked, loop
<1>5. order'[m] = k /\ \A n \in Nodes : n # m => order'[n] = order[n]
  BY <1>typed, <1>3, <1>4
<1>6. pc'[t] = "clear" /\ \A u \in Threads : u # t => pc'[u] = pc[u]
  BY <1>typed, <1>4
<1>7. \A n \in freed : n # m /\ order[n] > 0 /\ order[n] <= b
  BY <1>3 DEF Sound, Linear
<1>8. freed \subseteq Nodes
  BY DEF ListInv, TypeInv, TypeOK
<1> HIDE DEF b, m, k
<1>9. k = links + 1 /\ k \in Nat /\ m = node[t]
  BY <1>typed DEF k, m
<1>10. Alone'
  BY <1>1, <1>4, <1>6 DEF Sound, Alone, Busy, Deleting
<1>11. Built'
  BY <1>1, <1>4, <1>6, <1>9, <1>typed DEF Sound, Built, Prelink
<1>12. Linear'
  <2>1. \A n \in Nodes : n # m =>
          /\ order[n] > b /\ next[n] = Null => order[n] = links
          /\ order[n] > b /\ next[n] # Null => order[next[n]] = order[n] + 1
    BY DEF Sound, Linear, b
  <2>2. Base' <= links'
    BY <1>2, <1>4, <1>9, <1>typed
  <2>3. \A n, o \in Nodes : order'[n] = order'[o] /\ order'[n] > 0 => n = o
    BY <1>3, <1>5, <1>9, <1>typed DEF Sound, Linear
  <2>4. CASE first = Null /\ first' = m /\ next' = next
    <3>1. links = b
      BY <2>4 DEF Sound, Linear, b
    <3>2. \A n \in Nodes : order[n] <= b
      BY <1>3, <3>1
    <3> QED
      BY <1>2, <1>3, <1>4, <1>5, <1>7, <1>8, <1>9, <1>typed, <1>nodes, <2>2, <2>3, <2>4,
         <3>1, <3>2
         DEF Linear
  <2>5. CASE /\ first' = first
             /\ temp[t] \in Nodes /\ order[temp[t]] = links /\ links > b
             /\ next' = [next EXCEPT ![temp[t]] = m]
    <3>1. temp[t] # m /\ first # Null /\ first # m
      <4>1. /\ first = Null => b = links
            /\ first # Null => order[first] = b + 1
        BY DEF Sound, Linear, b
      <4> QED
        BY <1>2, <1>3, <1>typed, <2>5, <4>1
    <3>2. order'[first] = b + 1
      BY <1>5, <1>typed, <3>1 DEF Sound, Linear, b
    <3>3. \A n \in Nodes : order[n] = links => n = temp[t]
      <4>1. \A n, o \in Nodes : order[n] = order[o] /\ order[n] > 0 => n = o
        BY DEF Sound, Linear
      <4> QED
        BY <1>2, <1>typed, <2>5, <4>1
    <3>4. ASSUME NEW n \in Nodes, order'[n] > b, next'[n] = Null PROVE order'[n] = k
      BY <1>3, <1>5, <1>typed, <1>nodes, <2>1, <2>5, <3>1, <3>3, <3>4
    <3>5. ASSUME NEW n \in Nodes, order'[n] > b, next'[n] # Null
          PROVE  order'[next'[n]] = order'[n] + 1
      <4>1. CASE n = temp[t]
        BY <1>5, <1>9, <1>typed, <2>5, <3>1, <4>1
      <4>2. CASE n # temp[t]
        BY <1>3, <1>5, <1>9, <1>typed, <2>1, <2>5, <3>1, <3>5, <4>2
      <4> QED
        BY <4>1, <4>2
    <3> QED
      BY <1>2, <1>4, <1>5, <1>7, <1>8, <1>9, <1>typed, <2>2, <2>3, <2>5, <3>1, <3>2, <3>4,
         <3>5
         DEF Linear
  <2> QED
    BY <2>4, <2>5 DEF m, b
<1>13. Taken'
  BY <1>1, <1>3, <1>4, <1>5, <1>typed, <1>nodes
     DEF Sound, Taken, Deleting, Linear, ListInv, FirstInv
<1>14. Walking'
  BY <1>1, <1>2, <1>3, <1>4, <1>5, <1>6, <1>9, <1>typed DEF Walking
<1>15. Counting'
  BY <1>1, <1>2, <1>4, <1>6, <1>9, <1>typed
     DEF Sound, Counting, Prelink, Uncounted, b, Deleting
<1> QED
  BY <1>10, <1>11, <1>12, <1>13, <1>14, <1>15 DEF Sound

LEMMA Remainder == \A n \in 0 .. COUNT_RANGE - 1 : n % COUNT_RANGE = n
  OBVIOUS

LEMMA SoundStep == SoundInv /\ [Next]_vars => SoundInv'
<1> SUFFICES ASSUME SoundInv, [Next]_vars, raced' = {} PROVE Sound'
  BY ListStep DEF SoundInv
<1>typed. /\ order \in [Nodes -> Nat] /\ links \in Nat /\ handled \in Nat
          /\ next \in [Nodes -> Nodes \cup {Null}] /\ pc \in [Threads -> InsertPcs]
          /\ node \in [Threads -> Nodes \cup {Null}]
          /\ temp \in [Threads -> Nodes \cup {Null}]
          /\ count \in [Threads -> 0 .. COUNT_RANGE - 1]
          /\ noteCount \in 0 .. COUNT_RANGE - 1 /\ left \in 0 .. COUNT_RANGE - 1
          /\ first \in Nodes \cup {Null} /\ cur \in Nodes \cup {Null}
          /\ after \in Nodes \cup {Null} /\ allocated \in 0 .. MaxNodes
          /\ at \notin {"init", "poll"} => cur \in Nodes
          /\ at \in LoopPcs /\ freed \subseteq Nodes
  BY DEF SoundInv, ListInv, TypeInv, TypeOK
<1>nodes. Null \notin Nodes /\ Nodes \subseteq Nat
  BY DEF Nodes
<1>inv. OrderInv /\ OwnInv /\ FirstInv
  BY DEF SoundInv, ListInv
<1>sound. raced = {} => Sound
  BY DEF SoundInv
<1> USE DEF Inserts, Loops, list, inserts, loop, history
<1>1. ASSUME NEW t \in Threads, Lock(t) PROVE Sound'
  <2>1. Alone /\ Built /\ Linear /\ Taken /\ Walking /\ Counting
    BY <1>1, <1>sound DEF Lock, Sound
  <2>2. Alone' /\ Built' /\ Taken'
    BY <1>1, <1>typed, <1>nodes, <1>inv, <2>1
       DEF Lock, Alone, Built, Taken, Linear, Busy, Prelink, Uncounted, Base, Late,
           Inserting, Deleting
  <2>3. Linear' /\ Walking'
    BY <1>1, <1>typed, <1>nodes, <1>inv, <2>1
       DEF Lock, Alone, Taken, Linear, Walking, Busy, Prelink, Uncounted, Base, Late,
           Inserting, Deleting
  <2>4. Counting'
    BY <1>1, <1>typed, <2>1
       DEF Lock, Alone, Counting, Busy, Prelink, Uncounted, Base, Late, Inserting, Deleting
  <2> QED
    BY <2>2, <2>3, <2>4 DEF Sound
<1>2. ASSUME NEW t \in Threads, LoadFirst(t) PROVE Sound'
  <2>1. Alone /\ Built /\ Linear /\ Taken /\ Walking /\ Counting
    BY <1>2, <1>sound DEF LoadFirst, Sound
  <2>2. Alone' /\ Built' /\ Taken'
    BY <1>2, <1>typed, <1>nodes, <1>inv, <2>1
       DEF LoadFirst, Alone, Built, Taken, Linear, Busy, Prelink, Uncounted, Base, Late,
           Inserting, Deleting
  <2>3. Linear' /\ Walking'
    BY <1>2, <1>typed, <1>nodes, <1>inv, <2>1
       DEF LoadFirst, Alone, Taken, Linear, Walking, Busy, Prelink, Uncounted, Base, Late,
           Inserting, Deleting
  <2>4. Counting'
    BY <1>2, <1>typed, <2>1
       DEF LoadFirst, Alone, Counting, Busy, Prelink, Uncounted, Base, Late, Inserting,
           Deleting
  <2> QED
    BY <2>2, <2>3, <2>4 DEF Sound
<1>3. ASSUME NEW t \in Threads, TestCount(t) PROVE Sound'
  <2>1. Alone /\ Built /\ Linear /\ Taken /\ Walking /\ Counting
    BY <1>3, <1>sound DEF TestCount, Sound
  <2>2. Alone' /\ Built' /\ Taken'
    BY <1>3, <1>typed, <1>nodes, <1>inv, <2>1
       DEF TestCount, Alone, Built, Taken, Linear, Busy, Prelink, Uncounted, Base, Late,
           Inserting, Deleting
  <2>3. /\ temp[t] = first /\ noteCount = links - Base
        /\ noteCount = 0 => first = Null
        /\ noteCount # 0 => first \in Nodes /\ order[first] > Base
    <3>1. temp[t] = first
      BY <1>3, <2>1 DEF TestCount, Walking
    <3>2. noteCount = links - Base
      BY <1>3, <1>typed, <2>1
         DEF TestCount, Alone, Counting, Busy, Prelink, Uncounted, Base, Late, Inserting,
             Deleting
    <3>3. first # Null => order[first] <= links
      BY <1>inv, <1>typed DEF OrderInv
    <3>4. /\ first = Null => Base = links
          /\ first # Null => order[first] = Base + 1
      BY <2>1 DEF Linear
    <3>5. Base \in Int
      BY <1>typed DEF Base
    <3> QED
      BY <1>typed, <3>1, <3>2, <3>3, <3>4, <3>5
  <2>4. Linear' /\ Walking'
    BY <1>3, <1>typed, <2>1, <2>3 DEF TestCount, Linear, Walking, Base
  <2>5. Counting'
    BY <1>3, <1>typed, <2>1
       DEF TestCount, Alone, Counting, Busy, Prelink, Uncounted, Base, Late, Inserting,
           Deleting
  <2> QED
    BY <2>2, <2>4, <2>5 DEF Sound
<1>4. ASSUME NEW t \in Threads, StoreFirst(t) PROVE Sound'
  <2>1. raced' = raced /\ Linked(t) /\ Prelink(t) /\ first' = node[t] /\ next' = next
    BY <1>4 DEF StoreFirst, Linked, Prelink
  <2>2. Sound /\ first = Null
    BY <1>4, <1>sound, <2>1 DEF StoreFirst, Sound, Walking
  <2> QED
    BY <2>1, <2>2, LinkSound DEF SoundInv
<1>5. ASSUME NEW t \in Threads, Walk(t) PROVE Sound'
  <2>1. Alone /\ Built /\ Linear /\ Taken /\ Walking /\ Counting
    <3>1. raced' = raced
      BY <1>5 DEF Walk, Undefined
    <3> QED
      BY <1>sound, <3>1 DEF Sound
  <2>2. temp[t] \in Nodes /\ order[temp[t]] > Base /\ pc[t] = "walk"
    BY <1>5, <2>1 DEF Walk, Walking
  <2>3. temp[t] \notin freed
    BY <1>typed, <2>1, <2>2 DEF Linear, Base
  <2>4. UNCHANGED <<list, node, count, loop, fault, history>>
    BY <1>5, <1>nodes, <2>2, <2>3 DEF Walk
  <2>5. \/ /\ next[temp[t]] # Null
           /\ temp' = [temp EXCEPT ![t] = next[temp[t]]] /\ pc' = pc
        \/ /\ next[temp[t]] = Null
           /\ pc' = [pc EXCEPT ![t] = "append"] /\ temp' = temp
    BY <1>5, <1>nodes, <2>2, <2>3 DEF Walk
  <2>6. Alone' /\ Built'
    BY <1>typed, <2>1, <2>2, <2>4, <2>5
       DEF Alone, Built, Busy, Prelink, Uncounted, Base, Late, Inserting, Deleting
  <2>7. Linear' /\ Taken'
    BY <2>1, <2>4 DEF Linear, Taken, Base
  <2>8. Base' = Base /\ Base \in Int
    BY <1>typed, <2>4 DEF Base
  <2>9. Walking'
    BY <1>typed, <2>1, <2>2, <2>4, <2>5, <2>8 DEF Linear, Walking
  <2>10. Counting'
    BY <1>typed, <2>1, <2>2, <2>4, <2>5, <2>8 DEF Counting, Uncounted, Late
  <2> QED
    BY <2>6, <2>7, <2>9, <2>10 DEF Sound
<1>6. ASSUME NEW t \in Threads, AppendNode(t) PROVE Sound'
  <2>1. raced' = raced
    BY <1>6 DEF AppendNode, Linked, Undefined
  <2>2. Sound /\ temp[t] \in Nodes /\ order[temp[t]] = links /\ links > Base
    BY <1>6, <1>sound, <2>1 DEF AppendNode, Sound, Walking
  <2>3. temp[t] \notin freed
    BY <1>typed, <2>2 DEF Sound, Linear, Base
  <2> QED
    BY <1>6, <2>2, <2>3, LinkSound DEF SoundInv, AppendNode, Prelink
<1>7. ASSUME NEW t \in Threads, ClearNext(t) PROVE Sound'
  <2>1. Alone /\ Built /\ Linear /\ Taken /\ Walking /\ Counting
    <3>1. raced' = raced
      BY <1>7 DEF ClearNext, Undefined
    <3> QED
      BY <1>sound, <3>1 DEF Sound
  <2>2. pc[t] = "clear" /\ node[t] \in Nodes /\ order[node[t]] = links /\ links > Base
    BY <1>7, <2>1 DEF ClearNext, Walking
  <2>3. node[t] \notin freed
    BY <1>typed, <2>1, <2>2 DEF Linear, Base
  <2>4. next[node[t]] = Null
    <3>1. \A n \in Nodes : order[n] <= links
      BY <1>inv DEF OrderInv
    <3> QED
      BY <1>typed, <2>1, <2>2, <3>1 DEF Linear, Base
  <2>5. /\ next' = next /\ pc' = [pc EXCEPT ![t] = "load"]
        /\ UNCHANGED <<first, noteCount, allocated, freed, mutex, node, temp,
                       count, loop, fault, history>>
    BY <1>7, <1>typed, <2>2, <2>3, <2>4 DEF ClearNext
  <2>6. Alone' /\ Built'
    BY <1>typed, <2>1, <2>2, <2>5
       DEF Alone, Built, Busy, Prelink, Uncounted, Base, Late, Inserting, Deleting
  <2>7. Linear' /\ Taken' /\ Walking'
    BY <1>typed, <2>1, <2>5 DEF Linear, Taken, Walking, Base
  <2>8. Counting'
    BY <1>typed, <2>1, <2>2, <2>5 DEF Counting, Uncounted, Base, Late
  <2> QED
    BY <2>6, <2>7, <2>8 DEF Sound
<1>8. ASSUME NEW t \in Threads, LoadCount(t) PROVE Sound'
  <2>1. Alone /\ Built /\ Linear /\ Taken /\ Walking /\ Counting
    BY <1>8, <1>sound DEF LoadCount, Sound
  <2>2. Alone' /\ Built' /\ Taken'
    BY <1>8, <1>typed, <1>nodes, <1>inv, <2>1
       DEF LoadCount, Alone, Built, Taken, Linear, Busy, Prelink, Uncounted, Base, Late,
           Inserting, Deleting
  <2>3. Linear' /\ Walking'
    BY <1>8, <1>typed, <1>nodes, <1>inv, <2>1
       DEF LoadCount, Alone, Taken, Linear, Walking, Busy, Prelink, Uncounted, Base, Late,
           Inserting, Deleting
  <2>4. Counting'
    BY <1>8, <1>typed, <2>1
       DEF LoadCount, Alone, Counting, Busy, Prelink, Uncounted, Base, Late, Inserting,
           Deleting
  <2> QED
    BY <2>2, <2>3, <2>4 DEF Sound
<1>9. ASSUME NEW t \in Threads, StoreCount(t) PROVE Sound'
  <2>1. Alone /\ Built /\ Linear /\ Taken /\ Walking /\ Counting
    BY <1>9, <1>sound DEF StoreCount, Sound
  <2>2. Alone' /\ Built' /\ Taken'
    BY <1>9, <1>typed, <1>nodes, <1>inv, <2>1
       DEF StoreCount, Alone, Built, Taken, Linear, Busy, Prelink, Uncounted, Base, Late,
           Inserting, Deleting
  <2>3. Linear' /\ Walking'
    BY <1>9, <1>typed, <1>nodes, <1>inv, <2>1
       DEF StoreCount, Alone, Taken, Linear, Walking, Busy, Prelink, Uncounted, Base, Late,
           Inserting, Deleting
  <2>4. noteCount' = noteCount + 1 /\ noteCount + 1 = links - Base
    <3>1. count[t] = noteCount /\ noteCount + 1 = links - Base
      BY <1>9, <2>1 DEF StoreCount, Counting, Uncounted
    <3>2. count[t] + 1 \in 0 .. COUNT_RANGE - 1
      <4>1. count[t] + 1 # COUNT_RANGE
        BY <1>9 DEF StoreCount
      <4> QED
        BY <1>typed, <4>1
    <3> QED
      BY <1>9, <3>1, <3>2, Remainder DEF StoreCount
  <2>5. Counting'
    BY <1>9, <1>typed, <2>1, <2>4
       DEF StoreCount, Alone, Counting, Busy, Prelink, Uncounted, Base, Late, Inserting,
           Deleting
  <2> QED
    BY <2>2, <2>3, <2>5 DEF Sound
<1>10. ASSUME NEW t \in Threads, Unlock(t) PROVE Sound'
  <2>1. Alone /\ Built /\ Linear /\ Taken /\ Walking /\ Counting
    BY <1>10, <1>sound DEF Unlock, Sound
  <2>2. Alone' /\ Built' /\ Taken'
    BY <1>10, <1>typed, <1>nodes, <1>inv, <2>1
       DEF Unlock, Alone, Built, Taken, Linear, Busy, Prelink, Uncounted, Base, Late,
           Inserting, Deleting
  <2>3. Linear' /\ Walking'
    BY <1>10, <1>typed, <1>nodes, <1>inv, <2>1
       DEF Unlock, Alone, Taken, Linear, Walking, Busy, Prelink, Uncounted, Base, Late,
           Inserting, Deleting
  <2>4. Counting'
    BY <1>10, <1>typed, <2>1
       DEF Unlock, Alone, Counting, Busy, Prelink, Uncounted, Base, Late, Inserting,
           Deleting
  <2> QED
    BY <2>2, <2>3, <2>4 DEF Sound
<1>11. ASSUME MessageListInit PROVE Sound'
  <2>1. Alone /\ Built /\ Linear /\ Taken /\ Walking /\ Counting
    BY <1>11, <1>sound DEF MessageListInit, Sound
  <2>2. Alone' /\ Built' /\ Taken'
    BY <1>11, <1>typed, <1>nodes, <1>inv, <2>1
       DEF MessageListInit, Alone, Built, Taken, Linear, Busy, Prelink, Uncounted, Base,
           Late, Inserting, Deleting
  <2>3. Linear' /\ Walking'
    BY <1>11, <1>typed, <1>nodes, <1>inv, <2>1
       DEF MessageListInit, Alone, Taken, Linear, Walking, Busy, Prelink, Uncounted, Base,
           Late, Inserting, Deleting
  <2>4. Counting'
    BY <1>11, <1>typed, <2>1
       DEF MessageListInit, Alone, Counting, Busy, Prelink, Uncounted, Base, Late,
           Inserting, Deleting
  <2> QED
    BY <2>2, <2>3, <2>4 DEF Sound
<1>12. ASSUME Poll PROVE Sound'
  <2>1. Alone /\ Built /\ Linear /\ Taken /\ Walking /\ Counting
    BY <1>12, <1>sound DEF Poll, Sound
  <2>2. Alone' /\ Built' /\ Taken'
    BY <1>12, <1>typed, <1>nodes, <1>inv, <2>1
       DEF Poll, Alone, Built, Taken, Linear, Busy, Prelink, Uncounted, Base, Late,
           Inserting, Deleting
  <2>3. Linear' /\ Walking'
    BY <1>12, <1>typed, <1>nodes, <1>inv, <2>1
       DEF Poll, Alone, Taken, Linear, Walking, Busy, Prelink, Uncounted, Base, Late,
           Inserting, Deleting
  <2>4. Counting'
    BY <1>12, <1>typed, <2>1
       DEF Poll, Alone, Counting, Busy, Prelink, Uncounted, Base, Late, Inserting, Deleting
  <2> QED
    BY <2>2, <2>3, <2>4 DEF Sound
<1>13. ASSUME Handle PROVE Sound'
  <2>1. Alone /\ Built /\ Linear /\ Taken /\ Walking /\ Counting
    BY <1>13, <1>sound DEF Handle, Sound
  <2>2. Alone' /\ Built' /\ Taken'
    BY <1>13, <1>typed, <1>nodes, <1>inv, <2>1
       DEF Handle, Alone, Built, Taken, Linear, Busy, Prelink, Uncounted, Base, Late,
           Inserting, Deleting
  <2>3. Linear' /\ Walking'
    BY <1>13, <1>typed, <1>nodes, <1>inv, <2>1
       DEF Handle, Alone, Taken, Linear, Walking, Busy, Prelink, Uncounted, Base, Late,
           Inserting, Deleting
  <2>4. Base' = Base /\ Base \in Int /\ Late' = Late
    BY <1>13, <1>typed, <1>nodes, <1>inv, <2>1
       DEF Handle, Taken, Linear, FirstInv, Base, Late
  <2>5. Counting'
    BY <1>13, <2>1, <2>4 DEF Handle, Counting, Uncounted
  <2> QED
    BY <2>2, <2>3, <2>5 DEF Sound
<1>14. ASSUME FindNode PROVE Sound'
  <2>1. Alone /\ Built /\ Linear /\ Taken /\ Walking /\ Counting
    BY <1>14, <1>sound DEF FindNode, Sound
  <2>2. /\ at = "delete" /\ at' = "next"
        /\ UNCHANGED <<list, inserts, cur, after, left, fault, history>>
    BY <1>14, <2>1 DEF FindNode, Taken
  <2>3. Alone' /\ Built' /\ Linear' /\ Taken' /\ Walking'
    BY <2>1, <2>2
       DEF Alone, Built, Linear, Taken, Walking, Busy, Prelink, Uncounted, Base, Late,
           Inserting, Deleting
  <2>4. Counting'
    BY <2>1, <2>2 DEF Counting, Uncounted, Base, Late
  <2> QED
    BY <2>3, <2>4 DEF Sound
<1>15. ASSUME LoadNext PROVE Sound'
  <2>1. Alone /\ Built /\ Linear /\ Taken /\ Walking /\ Counting
    BY <1>15, <1>sound DEF LoadNext, Sound
  <2>2. Alone' /\ Built' /\ Taken'
    BY <1>15, <1>typed, <1>nodes, <1>inv, <2>1
       DEF LoadNext, Alone, Built, Taken, Linear, Busy, Prelink, Uncounted, Base, Late,
           Inserting, Deleting
  <2>3. Linear' /\ Walking'
    BY <1>15, <1>typed, <1>nodes, <1>inv, <2>1
       DEF LoadNext, Alone, Taken, Linear, Walking, Busy, Prelink, Uncounted, Base, Late,
           Inserting, Deleting
  <2>4. Counting'
    BY <1>15, <1>typed, <2>1
       DEF LoadNext, Alone, Counting, Busy, Prelink, Uncounted, Base, Late, Inserting,
           Deleting
  <2> QED
    BY <2>2, <2>3, <2>4 DEF Sound
<1>16. ASSUME Unlink PROVE Sound'
  <2>1. Alone /\ Built /\ Linear /\ Taken /\ Walking /\ Counting
    BY <1>16, <1>sound DEF Unlink, Sound
  <2>2. /\ at = "first" /\ at' = "load" /\ first' = next[cur]
        /\ UNCHANGED <<noteCount, next, allocated, freed, mutex, inserts, cur, after,
                       left, fault, history>>
    BY <1>16, <2>1 DEF Unlink, Taken
  <2>3. /\ cur \in Nodes /\ order[cur] = handled /\ handled > 0
        /\ Base = handled - 1 /\ Base' = handled /\ Late = 0 /\ Late' = 1
    BY <1>inv, <1>typed, <2>2 DEF FirstInv, Base, Late
  <2>4. \A t \in Threads : ~Busy(t) /\ pc[t] \in {"out", "unlock"}
    BY <2>1, <2>2 DEF Alone, Deleting, Busy
  <2>5. Alone' /\ Built' /\ Taken' /\ Walking'
    BY <1>typed, <2>1, <2>2, <2>3, <2>4
       DEF Alone, Built, Taken, Walking, Busy, Prelink, Deleting
  <2>6. Linear'
    <3>1. first' = Null => handled = links
      <4>1. order[cur] > Base /\ next[cur] = Null => order[cur] = links
        BY <2>1, <2>3 DEF Linear
      <4> QED
        BY <1>typed, <2>2, <2>3, <4>1
    <3>2. first' # Null => order[first'] = handled + 1
      BY <1>typed, <2>1, <2>2, <2>3 DEF Linear
    <3>3. handled <= links
      BY <1>inv DEF OrderInv
    <3> QED
      BY <1>typed, <2>1, <2>2, <2>3, <3>1, <3>2, <3>3 DEF Linear
  <2>7. Counting'
    BY <1>typed, <2>1, <2>2, <2>3, <2>4 DEF Counting, Uncounted
  <2> QED
    BY <2>5, <2>6, <2>7 DEF Sound
<1>17. ASSUME LoadLeft PROVE Sound'
  <2>1. Alone /\ Built /\ Linear /\ Taken /\ Walking /\ Counting
    BY <1>17, <1>sound DEF LoadLeft, Sound
  <2>2. Alone' /\ Built' /\ Taken'
    BY <1>17, <1>typed, <1>nodes, <1>inv, <2>1
       DEF LoadLeft, Alone, Built, Taken, Linear, Busy, Prelink, Uncounted, Base, Late,
           Inserting, Deleting
  <2>3. Linear' /\ Walking'
    BY <1>17, <1>typed, <1>nodes, <1>inv, <2>1
       DEF LoadLeft, Alone, Taken, Linear, Walking, Busy, Prelink, Uncounted, Base, Late,
           Inserting, Deleting
  <2>4. Counting'
    BY <1>17, <1>typed, <2>1
       DEF LoadLeft, Alone, Counting, Busy, Prelink, Uncounted, Base, Late, Inserting,
           Deleting
  <2> QED
    BY <2>2, <2>3, <2>4 DEF Sound
<1>18. ASSUME StoreLeft PROVE Sound'
  <2>1. Alone /\ Built /\ Linear /\ Taken /\ Walking /\ Counting
    BY <1>18, <1>sound DEF StoreLeft, Sound
  <2>2. Alone' /\ Built' /\ Taken'
    BY <1>18, <1>typed, <1>nodes, <1>inv, <2>1
       DEF StoreLeft, Alone, Built, Taken, Linear, Busy, Prelink, Uncounted, Base, Late,
           Inserting, Deleting
  <2>3. Linear' /\ Walking'
    BY <1>18, <1>typed, <1>nodes, <1>inv, <2>1
       DEF StoreLeft, Alone, Taken, Linear, Walking, Busy, Prelink, Uncounted, Base, Late,
           Inserting, Deleting
  <2>4. noteCount' = noteCount - 1 /\ noteCount = links - Base + 1
    <3>1. left = noteCount /\ noteCount = links - Base + 1 /\ Base <= links
      BY <1>18, <1>typed, <2>1
         DEF StoreLeft, Alone, Linear, Counting, Busy, Prelink, Uncounted, Base, Late,
             Inserting, Deleting
    <3>2. left - 1 \in 0 .. COUNT_RANGE - 1
      BY <1>typed, <3>1 DEF Base
    <3> QED
      BY <1>18, <3>1, <3>2, Remainder DEF StoreLeft
  <2>5. Counting'
    BY <1>18, <1>typed, <2>1, <2>4
       DEF StoreLeft, Alone, Counting, Busy, Prelink, Uncounted, Base, Late, Inserting,
           Deleting
  <2> QED
    BY <2>2, <2>3, <2>5 DEF Sound
<1>19. ASSUME FreeNodeMemory PROVE Sound'
  <2>1. Alone /\ Built /\ Linear /\ Taken /\ Walking /\ Counting
    BY <1>19, <1>sound DEF FreeNodeMemory, Sound
  <2>2. Alone' /\ Built' /\ Taken'
    BY <1>19, <1>typed, <1>nodes, <1>inv, <2>1
       DEF FreeNodeMemory, Alone, Built, Taken, Linear, Busy, Prelink, Uncounted, Base,
           Late, Inserting, Deleting
  <2>3. Linear' /\ Walking'
    BY <1>19, <1>typed, <1>nodes, <1>inv, <2>1
       DEF FreeNodeMemory, Alone, Taken, Linear, Walking, Busy, Prelink, Uncounted, Base,
           Late, Inserting, Deleting
  <2>4. Counting'
    BY <1>19, <1>typed, <2>1
       DEF FreeNodeMemory, Alone, Counting, Busy, Prelink, Uncounted, Base, Late, Inserting,
           Deleting
  <2> QED
    BY <2>2, <2>3, <2>4 DEF Sound
<1>20. ASSUME UnlockUnowned PROVE Sound'
  <2>1. Alone /\ Built /\ Linear /\ Taken /\ Walking /\ Counting
    BY <1>20, <1>sound DEF UnlockUnowned, Sound
  <2>2. Alone' /\ Built' /\ Taken'
    BY <1>20, <1>typed, <1>nodes, <1>inv, <2>1
       DEF UnlockUnowned, Alone, Built, Taken, Linear, Busy, Prelink, Uncounted, Base, Late,
           Inserting, Deleting
  <2>3. Linear' /\ Walking'
    BY <1>20, <1>typed, <1>nodes, <1>inv, <2>1
       DEF UnlockUnowned, Alone, Taken, Linear, Walking, Busy, Prelink, Uncounted, Base,
           Late, Inserting, Deleting
  <2>4. Counting'
    BY <1>20, <1>typed, <2>1
       DEF UnlockUnowned, Alone, Counting, Busy, Prelink, Uncounted, Base, Late, Inserting,
           Deleting
  <2> QED
    BY <2>2, <2>3, <2>4 DEF Sound
<1>21. CASE UNCHANGED vars
  BY <1>21, <1>sound
     DEF vars, Sound, Alone, Built, Linear, Taken, Walking, Counting, Busy, Prelink,
         Uncounted, Base, Late, Inserting, Deleting, LoopPcs
<1> QED
  BY <1>1, <1>2, <1>3, <1>4, <1>5, <1>6, <1>7, <1>8, <1>9, <1>10, <1>11, <1>12, <1>13,
     <1>14, <1>15, <1>16, <1>17, <1>18, <1>19, <1>20, <1>21
     DEF Next, MessageThread, Insert, Delete, AfterFault

-----------------------------------------------------------------------------
(* Induction over the naturals, for a set instead of a property: the provers *)
(* cannot instantiate the library's theorem.                                 *)
LEMMA Induction ==
  ASSUME NEW S, 0 \in S, \A n \in Nat : n \in S => n + 1 \in S
  PROVE  Nat \subseteq S
<1> SUFFICES ASSUME NEW m \in Nat, m \notin S PROVE FALSE
  OBVIOUS
<1> DEFINE T == (0 .. m) \cap S
           f == [n \in T |-> n + 1]
<1>1. IsFiniteSet(T)
  <2>1. IsFiniteSet(0 .. m)
    BY FS_Interval
  <2> QED
    BY <2>1, FS_Subset
<1>2. f \in Injection(T, T)
  BY DEF Injection, IsInjective
<1>3. f \in Surjection(T, T)
  <2> HIDE DEF f, T
  <2> QED
    BY <1>1, <1>2, FS_Injection
<1>4. 0 \in T
  OBVIOUS
<1>5. PICK n \in T : f[n] = 0
  BY <1>3, <1>4 DEF Surjection
<1> QED
  BY <1>5

\* f[k] is what k applications of step make of base.
Iterates(f, n, base, step) == f[0] = base /\ \A k \in 1 .. n : f[k] = step[f[k - 1]]

(* A step can be applied as often as one likes.                             *)
LEMMA Iteration ==
  ASSUME NEW S, NEW base \in S, NEW step \in [S -> S]
  PROVE  \A N \in Nat : \E f \in [0 .. N -> S] : Iterates(f, N, base, step)
<1> DEFINE Is(n, f) == Iterates(f, n, base, step)
           K == {n \in Nat : \E f \in [0 .. n -> S] : Is(n, f)}
<1> USE DEF Iterates
<1>1. 0 \in K
  <2> DEFINE f == [k \in 0 .. 0 |-> base]
  <2>1. f \in [0 .. 0 -> S] /\ Is(0, f)
    OBVIOUS
  <2> QED
    BY <2>1
<1>2. ASSUME NEW n \in Nat, n \in K PROVE n + 1 \in K
  <2>1. PICK f \in [0 .. n -> S] : Is(n, f)
    BY <1>2
  <2> DEFINE g == [k \in 0 .. n + 1 |-> IF k = n + 1 THEN step[f[n]] ELSE f[k]]
  <2>2. g \in [0 .. n + 1 -> S]
    OBVIOUS
  <2>3. Is(n + 1, g)
    BY <2>1
  <2> HIDE DEF Is, g
  <2>4. \E h \in [0 .. n + 1 -> S] : Is(n + 1, h)
    BY <2>2, <2>3
  <2> QED
    BY <2>4
<1> HIDE DEF K
<1>3. Nat \subseteq K
  BY <1>1, <1>2, Induction
<1> QED
  BY <1>3 DEF K

(* What Chain's recursion says.                                           *)
LEMMA ChainStep ==
  ASSUME next \in [Nodes -> Nodes \cup {Null}]
  PROVE  \E path \in [0 .. MaxNodes -> [Nodes \cup {Null} -> Seq(Nodes)]] :
           /\ \A n : Chain(n) = path[MaxNodes][n]
           /\ \A k \in 0 .. MaxNodes : path[k][Null] = <<>>
           /\ \A k \in 1 .. MaxNodes, m \in Nodes : path[k][m] = <<m>> \o path[k - 1][next[m]]
<1> USE NodesAssumption
<1> DEFINE S == [Nodes \cup {Null} -> Seq(Nodes)]
           base == [m \in Nodes \cup {Null} |-> <<>>]
           step == [p \in S |-> [m \in Nodes \cup {Null} |->
                                   IF m = Null THEN <<>> ELSE <<m>> \o p[next[m]]]]
           Def(g) == [k \in 0 .. MaxNodes |->
                        [m \in Nodes \cup {Null} |->
                           IF m = Null \/ k = 0 THEN <<>> ELSE <<m>> \o g[k - 1][next[m]]]]
           path == CHOOSE g : g = Def(g)
<1>0. Null \notin Nodes
  BY DEF Nodes, Null
<1>1. base \in S /\ step \in [S -> S]
  OBVIOUS
<1>2. PICK f \in [0 .. MaxNodes -> S] :
        f[0] = base /\ \A k \in 1 .. MaxNodes : f[k] = step[f[k - 1]]
  <2> HIDE DEF S, base, step
  <2>1. \E f \in [0 .. MaxNodes -> S] : Iterates(f, MaxNodes, base, step)
    BY <1>1, NodesAssumption, Iteration
  <2> QED
    BY <2>1 DEF Iterates
<1>3. f = Def(f)
  <2>1. ASSUME NEW k \in 0 .. MaxNodes PROVE f[k] = Def(f)[k]
    <3>1. CASE k = 0
      BY <1>2, <3>1
    <3>2. CASE k # 0
      <4>1. k \in 1 .. MaxNodes /\ k - 1 \in 0 .. MaxNodes
        BY <3>2
      <4>2. f[k] = step[f[k - 1]] /\ f[k - 1] \in S
        <5> HIDE DEF S, step
        <5> QED
          BY <1>2, <4>1
      <4> QED
        BY <3>2, <4>1, <4>2
    <3> QED
      BY <3>1, <3>2
  <2> QED
    BY <2>1
<1>4. path = Def(path)
  <2> HIDE DEF Def
  <2> QED
    BY <1>3
<1>5. \A n : Chain(n) = path[MaxNodes][n]
  BY DEF Chain
<1>6. \A k \in 0 .. MaxNodes :
        path[k] = [m \in Nodes \cup {Null} |->
                     IF m = Null \/ k = 0 THEN <<>> ELSE <<m>> \o path[k - 1][next[m]]]
  <2> HIDE DEF path
  <2> QED
    BY <1>4
<1>7. path = [k \in 0 .. MaxNodes |-> path[k]]
  <2> HIDE DEF path
  <2> QED
    BY <1>4
<1> HIDE DEF path
<1>8. path \in [0 .. MaxNodes -> S]
  <2> DEFINE K == {k \in Nat : k <= MaxNodes => path[k] \in S}
  <2>1. 0 \in K
    <3>1. ASSUME NEW k \in 0 .. MaxNodes, k = 0 PROVE path[k] = base
      BY <1>6, <3>1
    <3>2. path[0] = base
      BY <3>1, NodesAssumption
    <3> QED
      BY <1>1, <3>2
  <2>2. ASSUME NEW k \in Nat, k \in K PROVE k + 1 \in K
    <3>1. CASE k + 1 <= MaxNodes
      <4>1. path[k] \in S /\ k + 1 \in 0 .. MaxNodes /\ (k + 1) - 1 = k /\ k + 1 # 0
        BY <2>2, <3>1
      <4>2. path[k + 1] = [m \in Nodes \cup {Null} |->
                             IF m = Null THEN <<>> ELSE <<m>> \o path[k][next[m]]]
        <5> HIDE DEF S
        <5>1. path[k + 1] = [m \in Nodes \cup {Null} |->
                               IF m = Null \/ k + 1 = 0 THEN <<>>
                               ELSE <<m>> \o path[(k + 1) - 1][next[m]]]
          BY <1>6, <4>1
        <5> QED
          BY <4>1, <5>1
      <4>3. \A m \in Nodes : path[k][next[m]] \in Seq(Nodes)
        BY <4>1
      <4>4. \A m \in Nodes : <<m>> \o path[k][next[m]] \in Seq(Nodes)
        BY <4>3
      <4>5. path[k + 1] \in S
        BY <1>0, <4>2, <4>4
      <4> QED
        BY <4>5
    <3>2. CASE ~(k + 1 <= MaxNodes)
      BY <3>2
    <3> QED
      BY <3>1, <3>2
  <2> HIDE DEF K
  <2>3. Nat \subseteq K
    BY <2>1, <2>2, Induction
  <2>4. \A k \in 0 .. MaxNodes : path[k] \in S
    <3>1. ASSUME NEW k \in 0 .. MaxNodes PROVE path[k] \in S
      <4>1. k \in Nat /\ k <= MaxNodes
        OBVIOUS
      <4>2. k \in K
        BY <2>3, <4>1
      <4> HIDE DEF S
      <4> QED
        BY <4>1, <4>2 DEF K
    <3> QED
      BY <3>1
  <2> HIDE DEF S
  <2> QED
    BY <1>7, <2>4
<1>9. \A k \in 0 .. MaxNodes : path[k][Null] = <<>>
  BY <1>6
<1>10. \A k \in 1 .. MaxNodes, m \in Nodes : path[k][m] = <<m>> \o path[k - 1][next[m]]
  <2> SUFFICES ASSUME NEW k \in 1 .. MaxNodes, NEW m \in Nodes
               PROVE  path[k][m] = <<m>> \o path[k - 1][next[m]]
    OBVIOUS
  <2>1. k \in 0 .. MaxNodes /\ k # 0
    OBVIOUS
  <2>2. path[k] = [o \in Nodes \cup {Null} |->
                     IF o = Null \/ k = 0 THEN <<>> ELSE <<o>> \o path[k - 1][next[o]]]
    BY <1>6, <2>1
  <2> QED
    BY <1>0, <2>1, <2>2
<1> QED
  BY <1>5, <1>8, <1>9, <1>10

(* The chain from the first node is as long as the list.                    *)
LEMMA ChainLength ==
  ASSUME ListInv, Linear, Base \in Nat, links <= MaxNodes
  PROVE  Len(Chain(first)) = links - Base
<1>typed. /\ order \in [Nodes -> Nat] /\ links \in Nat /\ first \in Nodes \cup {Null}
          /\ next \in [Nodes -> Nodes \cup {Null}]
          /\ \A n \in Nodes : order[n] <= links
  BY DEF ListInv, TypeInv, TypeOK, OrderInv
<1>1. PICK path \in [0 .. MaxNodes -> [Nodes \cup {Null} -> Seq(Nodes)]] :
           /\ \A n : Chain(n) = path[MaxNodes][n]
           /\ \A k \in 0 .. MaxNodes : path[k][Null] = <<>>
           /\ \A k \in 1 .. MaxNodes, m \in Nodes : path[k][m] = <<m>> \o path[k - 1][next[m]]
  BY <1>typed, ChainStep
<1> DEFINE Right(k) == \A m \in Nodes : order[m] > Base /\ links - order[m] < k =>
                         Len(path[k][m]) = links - order[m] + 1
           K == {k \in Nat : k <= MaxNodes => Right(k)}
<1>2. 0 \in K
  BY <1>typed
<1>3. ASSUME NEW k \in Nat, k \in K PROVE k + 1 \in K
  <2> SUFFICES ASSUME k + 1 <= MaxNodes, NEW m \in Nodes,
                      order[m] > Base, links - order[m] < k + 1
               PROVE  Len(path[k + 1][m]) = links - order[m] + 1
    OBVIOUS
  <2>1. k + 1 \in 1 .. MaxNodes /\ k \in 0 .. MaxNodes /\ (k + 1) - 1 = k
    BY NodesAssumption
  <2>2. path[k + 1][m] = <<m>> \o path[k][next[m]] /\ path[k][next[m]] \in Seq(Nodes)
    BY <1>1, <1>typed, <2>1
  <2>3. Len(path[k + 1][m]) = 1 + Len(path[k][next[m]])
    BY <2>2
  <2>4. CASE next[m] = Null
    <3>1. order[m] = links
      BY <2>4 DEF Linear
    <3>2. Len(path[k][next[m]]) = 0
      BY <1>1, <2>1, <2>4
    <3> QED
      BY <1>typed, <2>3, <3>1, <3>2
  <2>5. CASE next[m] # Null
    <3>1. next[m] \in Nodes /\ order[next[m]] = order[m] + 1
      BY <1>typed, <2>5 DEF Linear
    <3>2. Right(k)
      BY <1>3, <2>1
    <3>3. order[m] \in Nat /\ links \in Nat
      BY <1>typed
    <3>4. order[next[m]] > Base /\ links - order[next[m]] < k
      <4>1. \A i, j \in Nat : i > j => i + 1 > j
        OBVIOUS
      <4>2. \A i, j \in Nat : j - i < k + 1 => j - (i + 1) < k
        OBVIOUS
      <4> QED
        BY <3>1, <3>3, <4>1, <4>2
    <3>5. Len(path[k][next[m]]) = links - order[next[m]] + 1
      BY <3>1, <3>2, <3>4
    <3> HIDE DEF Right
    <3>6. Len(path[k + 1][m]) = 1 + (links - (order[m] + 1) + 1)
      BY <2>3, <3>1, <3>5, Zenon
    <3> QED
      BY <3>3, <3>6
  <2> QED
    BY <2>4, <2>5
<1> HIDE DEF K
<1>4. MaxNodes \in K
  BY <1>2, <1>3, Induction, NodesAssumption
<1>5. Right(MaxNodes)
  BY <1>4 DEF K
<1>6. CASE first = Null
  <2>1. Chain(first) = <<>>
    BY <1>1, <1>6, NodesAssumption
  <2>2. Base = links
    BY <1>6 DEF Linear
  <2> QED
    BY <1>typed, <2>1, <2>2
<1>7. CASE first # Null
  <2>1. first \in Nodes /\ order[first] = Base + 1
    BY <1>typed, <1>7 DEF Linear
  <2>2. order[first] <= links /\ order[first] \in Nat /\ links \in Nat
    BY <1>typed, <2>1
  <2>3. order[first] > Base /\ links - order[first] < MaxNodes
    BY <2>1, <2>2, NodesAssumption
  <2>4. Len(path[MaxNodes][first]) = links - order[first] + 1
    BY <1>5, <2>1, <2>3
  <2>5. Chain(first) = path[MaxNodes][first]
    BY <1>1
  <2> HIDE DEF Right
  <2> QED
    BY <2>1, <2>2, <2>4, <2>5
<1> QED
  BY <1>6, <1>7

LEMMA SoundInit == Init => SoundInv
<1> SUFFICES ASSUME Init PROVE SoundInv
  OBVIOUS
<1>1. ListInv
  BY DEF Init, ListInv, TypeInv, TypeOK, InsertPcs, LoopPcs, Nodes, OrderInv, OwnInv,
         WalkInv, FirstInv, Prelink
<1>2. Null \notin Nodes
  BY DEF Nodes
<1>3. Sound
  BY <1>2 DEF Init, Sound, Alone, Built, Linear, Taken, Walking, Counting, Busy, Prelink,
              Uncounted, Base, Late, Deleting
<1> QED
  BY <1>1, <1>3 DEF SoundInv

LEMMA SoundQueue == SoundInv => QueueInv
<1> SUFFICES ASSUME SoundInv PROVE QueueInv
  OBVIOUS
<1>1. TypeOK
  BY DEF SoundInv, ListInv, TypeInv
<1>2. ASSUME raced = {} PROVE fault = "none" /\ (at = "delete" => cur = first)
  BY <1>2 DEF SoundInv, Sound, Alone, Taken
<1>3. ASSUME raced = {}, ~Inserting, ~Deleting PROVE noteCount = Len(Chain(first))
  <2>1. Sound /\ ListInv
    BY <1>3 DEF SoundInv
  <2>2. \A t \in Threads : ~Prelink(t) /\ ~Uncounted(t)
    BY <1>3 DEF Inserting, Prelink, Uncounted
  <2>3. links <= MaxNodes
    BY <1>1, <2>1, <2>2 DEF Sound, Built, TypeOK
  <2>4. Base \in Nat /\ Base = handled /\ Late = 0
    BY <1>1, <1>3 DEF Deleting, Base, Late, TypeOK
  <2>5. noteCount = links - Base
    BY <1>1, <2>1, <2>2, <2>4 DEF Sound, Counting, TypeOK
  <2>6. Len(Chain(first)) = links - Base
    BY <2>1, <2>3, <2>4, ChainLength DEF Sound
  <2> QED
    BY <2>5, <2>6
<1> QED
  BY <1>1, <1>2, <1>3 DEF QueueInv, SoundUnlessRaced

(* With any number of threads and messages and any width of the counter,    *)
(* and although deletions take no lock: until an insertion has met a        *)
(* deletion, another insertion, the initialisation or a counter that goes   *)
(* round, no freed node is touched, what deleteListNode deletes is the first*)
(* node, and noteCount is the length of the list.                           *)
THEOREM QueueCorrect == Spec => []QueueInv
<1> QED
  BY SoundInit, SoundStep, SoundQueue, PTL DEF Spec

(* Until then the messages are handled one after the other, with none left  *)
(* out: what insertListNode links, deleteListNode cannot lose.              *)
THEOREM NothingLost == Spec => NoLossUnlessRaced
<1>1. SoundInv /\ [Next]_vars /\ raced' = {}
        => Queue!ReliableNext \/ UNCHANGED <<links, handled, runs>>
  <2> SUFFICES ASSUME SoundInv, [Next]_vars, raced' = {}
               PROVE  Queue!ReliableNext \/ UNCHANGED <<links, handled, runs>>
    OBVIOUS
  <2>1. CASE Handle
    <3>1. raced = {}
      BY <2>1 DEF Handle
    <3>2. at = "handle" /\ Sound /\ ListInv
      BY <2>1, <3>1 DEF Handle, Loops, SoundInv
    <3>3. order[cur] = handled + 1
      BY <3>2 DEF Sound, Taken, Linear, Base, ListInv, FirstInv
    <3>4. order[cur] <= links /\ handled \in Nat /\ links \in Nat
      BY <3>2 DEF ListInv, TypeInv, TypeOK, OrderInv
    <3>5. handled' = handled + 1 /\ runs' = runs + 1 /\ links' = links
      BY <2>1, <3>3 DEF Handle
    <3>6. handled + 1 \in handled + 1 .. links
      BY <3>3, <3>4
    <3> QED
      BY <3>5, <3>6 DEF Queue!ReliableNext, Queue!Get
  <2>2. CASE ~Handle
    <3>1. Queue!Next \/ UNCHANGED <<links, handled, runs>>
      BY StepRefines DEF SoundInv
    <3>2. UNCHANGED <<handled, runs>>
      BY <2>2 DEF Next, vars, MessageThread, MessageListInit, Poll, Delete, FindNode,
                  LoadNext, Unlink, LoadLeft, StoreLeft, FreeNodeMemory, UnlockUnowned,
                  Insert, Lock, LoadFirst, TestCount, StoreFirst, Walk, AppendNode, ClearNext,
                  LoadCount, StoreCount, Unlock, Linked, Undefined, AfterFault, history
    <3>3. runs \in Nat
      BY DEF SoundInv, ListInv, TypeInv, TypeOK
    <3> QED
      BY <3>1, <3>2, <3>3 DEF Queue!Next, Queue!Get, Queue!Put, Queue!ReliableNext
  <2> QED
    BY <2>1, <2>2
<1>2. SoundInv /\ [Next]_vars
        => [raced' = {} => Queue!ReliableNext \/ UNCHANGED <<links, handled, runs>>]_vars
  BY <1>1
<1> QED
  BY <1>2, SoundInit, SoundStep, PTL DEF Spec, NoLossUnlessRaced

(* So the list is that queue: it keeps the order whatever races, and until  *)
(* something does, every message.                                           *)
THEOREM ListIsQueue == Spec => InOrder
<1> QED
  BY HandledInOrder, NothingLost DEF InOrder
=============================================================================
