----------------------------- MODULE WaitingQueue -----------------------------
(***************************************************************************)
(* waitingRequestsQueue of New/Server and New/PS: the linked list of       *)
(* queue.h, whose functions are here as object code (queue.o), used by the *)
(* boss (queue_offer) and the workers (queue_isEmpty, queue_poll) with no  *)
(* lock.  One action per access to the list; pool_queue is never called,   *)
(* so a node comes from malloc and goes back with free.                    *)
(*                                                                         *)
(* Memory that was freed may be malloc'ed again.  Using it before that, a  *)
(* second free, and NULL end the process ("failed"): what they really do   *)
(* is undefined.  Mutant... operators are wrong versions of the next one.  *)
(***************************************************************************)
EXTENDS Integers, Sequences, FiniteSets

CONSTANTS
  Workers,
  MaxOffers,        \* entries the boss offers: bounds the model
  SizeModulus       \* 2^32 in the code: size is unsigned

ASSUME QueueAssumption ==
  /\ IsFiniteSet(Workers)
  /\ MaxOffers \in Nat /\ SizeModulus \in Nat /\ SizeModulus > MaxOffers + 1

Nodes == 1 .. MaxOffers          \* addresses
Null  == 0

VARIABLES
  head, tail, size,      \* the Queue
  next, entry,           \* per node: its link, the entry it holds (0: not allocated)
  bossPc, bossNode, bossOld,     \* the boss: position, the new node, the value read last
  pc, node, old,         \* per worker: position, the node it polls, the value read last
  got,                   \* per worker: the entry it polls
  offered,               \* entries offered are 1 .. offered
  taken,                 \* entries polled, in the order of the returns
  offerMet, pollsMet,    \* have an offer and a poll, or two polls, overlapped?
  failed                 \* the process ended, or what it does is undefined

list == <<head, tail, size, next, entry>>
boss == <<bossPc, bossNode, bossOld, offered>>
workers == <<pc, node, old, got, taken>>
met == <<offerMet, pollsMet>>
vars == <<list, boss, workers, met, failed>>

Init ==
  /\ head = Null /\ tail = Null /\ size = 0
  /\ next = [a \in Nodes |-> Null] /\ entry = [a \in Nodes |-> 0]
  /\ bossPc = "idle" /\ bossNode = Null /\ bossOld = 0
  /\ pc = [w \in Workers |-> "idle"] /\ node = [w \in Workers |-> Null]
  /\ old = [w \in Workers |-> 0] /\ got = [w \in Workers |-> 0]
  /\ offered = 0 /\ taken = <<>>
  /\ offerMet = FALSE /\ pollsMet = FALSE /\ failed = FALSE

IsLive(a) == a \in Nodes /\ entry[a] # 0
Polling(w) == pc[w] \notin {"idle", "seen"}

-----------------------------------------------------------------------------
(* queue_offer(q, item), by the boss.                                      *)

Boss(here, there) == ~failed /\ bossPc = here /\ bossPc' = there

\* malloc a node for the next entry; its link is NULL.  If malloc fails, queue_offer returns
\* an error that the boss does not look at, and the list stays as it was: no step here.
Allocate ==
  /\ offered < MaxOffers /\ Boss("idle", "head")
  /\ \E a \in Nodes :
       /\ ~IsLive(a)
       /\ bossNode' = a
       /\ entry' = [entry EXCEPT ![a] = offered + 1]
       /\ next' = [next EXCEPT ![a] = Null]
  /\ offered' = offered + 1
  /\ offerMet' = (offerMet \/ \E w \in Workers : Polling(w))
  /\ UNCHANGED <<head, tail, size, bossOld, workers, pollsMet, failed>>

\* The list is empty when head AND tail are NULL.
TestHead ==
  /\ Boss("head", IF head = Null THEN "tail" ELSE "last")
  /\ UNCHANGED <<list, bossNode, bossOld, offered, workers, met, failed>>
TestTail ==
  /\ Boss("tail", IF tail = Null THEN "first" ELSE "last")
  /\ UNCHANGED <<list, bossNode, bossOld, offered, workers, met, failed>>

FirstTail ==
  /\ Boss("first", "firstHead")
  /\ tail' = bossNode
  /\ UNCHANGED <<head, size, next, entry, bossNode, bossOld, offered, workers, met, failed>>
FirstHead ==
  /\ Boss("firstHead", "size")
  /\ head' = bossNode
  /\ UNCHANGED <<tail, size, next, entry, bossNode, bossOld, offered, workers, met, failed>>

ReadLast ==
  /\ Boss("last", "link")
  /\ bossOld' = tail
  /\ UNCHANGED <<list, bossNode, offered, workers, met, failed>>
Link ==
  /\ Boss("link", "newTail")
  /\ failed' = ~IsLive(bossOld)
  /\ next' = IF IsLive(bossOld) THEN [next EXCEPT ![bossOld] = bossNode] ELSE next
  /\ UNCHANGED <<head, tail, size, entry, bossNode, bossOld, offered, workers, met>>

\* Mutant: the last node stays the last.
MutantNewTail ==
  /\ Boss("newTail", "size")
  /\ UNCHANGED <<list, bossNode, bossOld, offered, workers, met, failed>>
NewTail ==
  /\ Boss("newTail", "size")
  /\ tail' = bossNode
  /\ UNCHANGED <<head, size, next, entry, bossNode, bossOld, offered, workers, met, failed>>

ReadSize ==
  /\ Boss("size", "count")
  /\ bossOld' = size
  /\ UNCHANGED <<list, bossNode, offered, workers, met, failed>>
Count ==
  /\ Boss("count", "idle")
  /\ size' = (bossOld + 1) % SizeModulus
  /\ bossNode' = Null /\ bossOld' = 0
  /\ UNCHANGED <<head, tail, next, entry, offered, workers, met, failed>>

-----------------------------------------------------------------------------
(* queue_isEmpty(q) and queue_poll(q), by a worker that has served.        *)

Goto(w, here, there) ==
  ~failed /\ pc[w] = here /\ pc' = [pc EXCEPT ![w] = there]

\* The worker's own look; an empty queue sends it back to its wait.
Look(w) ==
  /\ size # 0 /\ Goto(w, "idle", "seen")
  /\ UNCHANGED <<list, boss, node, old, got, taken, met, failed>>

\* queue_poll looks again: NULL for an empty queue, which the worker dereferences.
PollBegins(w) ==
  /\ Goto(w, "seen", IF size = 0 THEN "idle" ELSE "head")
  /\ failed' = (size = 0)
  /\ offerMet' = (offerMet \/ bossPc # "idle")
  /\ pollsMet' = (pollsMet \/ \E v \in Workers \ {w} : Polling(v))
  /\ UNCHANGED <<list, boss, node, old, got, taken>>

ReadHead(w) ==
  /\ Goto(w, "head", "node")
  /\ node' = [node EXCEPT ![w] = head]
  /\ UNCHANGED <<list, boss, old, got, taken, met, failed>>

\* Mutant: the entry of the last node.
MutantReadNode(w) ==
  /\ Goto(w, "node", "unlink")
  /\ IF IsLive(node[w]) /\ IsLive(tail)
     THEN /\ got' = [got EXCEPT ![w] = entry[tail]]
          /\ old' = [old EXCEPT ![w] = next[node[w]]]
          /\ failed' = FALSE
     ELSE failed' = TRUE /\ UNCHANGED <<got, old>>
  /\ UNCHANGED <<list, boss, node, taken, met>>

\* The node's entry (which never changes while the node lives) and its link.
ReadNode(w) ==
  /\ Goto(w, "node", "unlink")
  /\ IF IsLive(node[w])
     THEN /\ got' = [got EXCEPT ![w] = entry[node[w]]]
          /\ old' = [old EXCEPT ![w] = next[node[w]]]
          /\ failed' = FALSE
     ELSE failed' = TRUE /\ UNCHANGED <<got, old>>
  /\ UNCHANGED <<list, boss, node, taken, met>>

Unlink(w) ==
  /\ Goto(w, "unlink", "free")
  /\ head' = old[w]
  /\ UNCHANGED <<tail, size, next, entry, boss, node, old, got, taken, met, failed>>

FreeNode(w) ==
  /\ Goto(w, "free", "size")
  /\ failed' = ~IsLive(node[w])
  /\ entry' = [entry EXCEPT ![node[w]] = 0]
  /\ UNCHANGED <<head, tail, size, next, boss, node, old, got, taken, met>>

CountRead(w) ==
  /\ Goto(w, "size", "count")
  /\ old' = [old EXCEPT ![w] = size]
  /\ UNCHANGED <<list, boss, node, got, taken, met, failed>>
CountDown(w) ==
  /\ Goto(w, "count", "zero")
  /\ size' = (old[w] + SizeModulus - 1) % SizeModulus
  /\ UNCHANGED <<head, tail, next, entry, boss, node, old, got, taken, met, failed>>

\* The last entry is gone: head and tail become NULL.
TestZero(w) ==
  /\ Goto(w, "zero", IF size = 0 THEN "noTail" ELSE "return")
  /\ UNCHANGED <<list, boss, node, old, got, taken, met, failed>>
NoTail(w) ==
  /\ Goto(w, "noTail", "noHead")
  /\ tail' = Null
  /\ UNCHANGED <<head, size, next, entry, boss, node, old, got, taken, met, failed>>
NoHead(w) ==
  /\ Goto(w, "noHead", "return")
  /\ head' = Null
  /\ UNCHANGED <<tail, size, next, entry, boss, node, old, got, taken, met, failed>>

\* The worker has the entry; the call's locals are gone.
Return(w) ==
  /\ Goto(w, "return", "idle")
  /\ taken' = Append(taken, got[w])
  /\ node' = [node EXCEPT ![w] = Null] /\ old' = [old EXCEPT ![w] = 0]
  /\ got' = [got EXCEPT ![w] = 0]
  /\ UNCHANGED <<list, boss, met, failed>>

Offer == \/ Allocate \/ TestHead \/ TestTail \/ FirstTail \/ FirstHead
         \/ ReadLast \/ Link \/ NewTail \/ ReadSize \/ Count
Poll(w) == \/ PollBegins(w) \/ ReadHead(w) \/ ReadNode(w) \/ Unlink(w)
           \/ FreeNode(w) \/ CountRead(w) \/ CountDown(w) \/ TestZero(w)
           \/ NoTail(w) \/ NoHead(w) \/ Return(w)

Next == Offer \/ \E w \in Workers : Look(w) \/ Poll(w)

Spec == Init /\ [][Next]_vars

-----------------------------------------------------------------------------
(* Properties.                                                             *)

\* The list runs from head to tail through nodes, and holds these entries.
Holds(nodes, entries) ==
  /\ head = IF nodes = <<>> THEN Null ELSE nodes[1]
  /\ tail = IF nodes = <<>> THEN Null ELSE nodes[Len(nodes)]
  /\ \A k \in 1 .. Len(nodes) :
       /\ next[nodes[k]] = IF k = Len(nodes) THEN Null ELSE nodes[k + 1]
       /\ entry[nodes[k]] = entries[k]

\* Calls that never overlap are what WorkerPool takes them for: the list holds what was
\* offered and not polled, in order, and counts it; and they fail only when another worker
\* polls between a worker's look and its poll (New/Server/Server/s.c:93, 316-318).
SerialCallsAreFifo ==
  ~offerMet /\ ~pollsMet =>
    /\ taken = [k \in 1 .. Len(taken) |-> k]
    /\ failed => Cardinality(Workers) > 1 /\ taken # <<>>
    /\ bossPc = "idle" /\ (\A w \in Workers : ~Polling(w)) =>
         LET left == offered - Len(taken)
         IN  /\ size = left
             /\ \E nodes \in [1 .. left -> Nodes] :
                  Holds(nodes, [k \in 1 .. left |-> Len(taken) + k])

\* An offer and a poll that overlap can lose entries or end the process, but as long as no
\* two polls overlap none is polled twice and none before an older one
\* (New/Server/Server/s.c:93 against 317).
OneTakerInOrder ==
  ~pollsMet => \A j, k \in 1 .. Len(taken) : j < k => taken[j] < taken[k]
=============================================================================
