------------------------- MODULE WaitingQueueProofs -------------------------
(***************************************************************************)
(* Theorems about WaitingQueue, for any number of workers and entries:     *)
(* what the list of queue.h does when nothing overlaps, and what it still  *)
(* does when an offer and a poll do.                                       *)
(***************************************************************************)
EXTENDS WaitingQueue, FiniteSetTheorems, SequenceTheorems, TLAPS

Pointers == Nodes \cup {Null}
Sizes    == 0 .. SizeModulus - 1
BossPcs  == {"idle", "head", "tail", "first", "firstHead", "last", "link", "newTail",
             "size", "count"}
Begins   == {"head", "node"}
Unlinks  == {"unlink", "free"}
Counts   == {"size", "count", "zero", "noTail", "noHead", "return"}
PollPcs  == Begins \cup Unlinks \cup Counts

\* A worker's locals are pointers or counts according to where it stands, until something
\* undefined has happened.
Local(w) ==
  /\ pc[w] \in Unlinks => node[w] \in Nodes
  /\ pc[w] = "unlink" => old[w] \in Pointers
  /\ pc[w] = "count" => old[w] \in Sizes
  /\ pc[w] \in Unlinks \cup Counts => got[w] \in 1 .. MaxOffers

BossLocal ==
  /\ bossPc # "idle" => bossNode \in Nodes
  /\ bossPc = "link" => bossOld \in Pointers
  /\ bossPc = "count" => bossOld \in Sizes

Types ==
  /\ head \in Pointers /\ tail \in Pointers /\ size \in Sizes
  /\ next \in [Nodes -> Pointers] /\ entry \in [Nodes -> 0 .. MaxOffers]
  /\ bossPc \in BossPcs /\ bossNode \in Pointers /\ bossOld \in Nat
  /\ BossLocal
  /\ pc \in [Workers -> {"idle", "seen"} \cup PollPcs]
  /\ node \in [Workers -> Pointers] /\ old \in [Workers -> Nat]
  /\ got \in [Workers -> 0 .. MaxOffers]
  /\ ~failed => \A w \in Workers : Local(w)
  /\ offered \in 0 .. MaxOffers /\ taken \in Seq(1 .. MaxOffers)
  /\ offerMet \in BOOLEAN /\ pollsMet \in BOOLEAN /\ failed \in BOOLEAN

LEMMA Wraps ==
  ASSUME NEW a \in Int, NEW m \in Nat \ {0}
  PROVE  /\ a % m \in 0 .. m - 1
         /\ a \in 0 .. m - 1 => a % m = a
  OBVIOUS

LEMMA MinusOne ==
  ASSUME NEW m \in Nat \ {0}, NEW a \in 1 .. m - 1
  PROVE  (a + m - 1) % m = a - 1
  OBVIOUS

LEMMA SizesAre == SizeModulus \in Nat \ {0} /\ Sizes \subseteq Nat /\ Pointers \subseteq Nat
  BY QueueAssumption DEF QueueAssumption, Sizes, Pointers, Nodes, Null

LEMMA InitTypes == Init => Types
<1> SUFFICES ASSUME Init PROVE Types
  OBVIOUS
<1>1. taken \in Seq(1 .. MaxOffers)
  BY DEF Init
<1>2. offerMet \in BOOLEAN /\ pollsMet \in BOOLEAN /\ failed \in BOOLEAN
  BY DEF Init
<1>. QED
  BY <1>1, <1>2, QueueAssumption, SizesAre DEF QueueAssumption, Init, Types, Local, BossLocal, Pointers, Sizes,
     Null, BossPcs, Begins, Unlinks, Counts, PollPcs

LEMMA OfferTypes == ASSUME Types, Offer PROVE Types'
<1> USE QueueAssumption, SizesAre DEF QueueAssumption, Types, Local, BossLocal, BossPcs, Pointers, workers, met, list, Boss
<1>1. CASE Allocate
  <2>1. PICK a \in Nodes : /\ bossNode' = a /\ entry' = [entry EXCEPT ![a] = offered + 1]
                           /\ next' = [next EXCEPT ![a] = Null]
    BY <1>1 DEF Allocate
  <2>2. offerMet' \in BOOLEAN
    BY <1>1 DEF Allocate
  <2>. QED  BY <1>1, <2>1, <2>2 DEF Allocate
<1>2. CASE TestHead \/ TestTail
  BY <1>2 DEF TestHead, TestTail
<1>3. CASE FirstTail \/ FirstHead \/ ReadLast \/ NewTail
  BY <1>3 DEF FirstTail, FirstHead, ReadLast, NewTail
<1>4. CASE Link
  <2>1. failed' \in BOOLEAN
    BY <1>4 DEF Link
  <2>2. next' \in [Nodes -> Pointers]
    BY <1>4 DEF Link, IsLive
  <2>. QED  BY <1>4, <2>1, <2>2 DEF Link
<1>5. CASE ReadSize
  BY <1>5 DEF ReadSize
<1>6. CASE Count
  <2>1. size' \in Sizes
    <3>1. size' = (bossOld + 1) % SizeModulus /\ bossOld + 1 \in Int
      BY <1>6 DEF Count
    <3>. QED  BY <3>1, Wraps DEF Sizes
  <2>. QED  BY <1>6, <2>1 DEF Count, Null
<1>. QED  BY <1>1, <1>2, <1>3, <1>4, <1>5, <1>6 DEF Offer

LEMMA PollTypes == ASSUME Types, NEW w \in Workers, Look(w) \/ Poll(w) PROVE Types'
<1> USE QueueAssumption, SizesAre DEF QueueAssumption, Types, Local, BossLocal, Pointers, Begins, Unlinks,
      Counts, PollPcs, boss, met, list, Goto
<1>1. CASE Look(w)
  BY <1>1 DEF Look
<1>2. CASE PollBegins(w)
  <2>1. offerMet' \in BOOLEAN /\ pollsMet' \in BOOLEAN /\ failed' \in BOOLEAN
    BY <1>2 DEF PollBegins
  <2>. QED  BY <1>2, <2>1 DEF PollBegins
<1>3. CASE ReadHead(w)
  BY <1>3 DEF ReadHead
<1>4. CASE ReadNode(w)
  <2>1. failed' \in BOOLEAN
    BY <1>4 DEF ReadNode
  <2>2. ~failed' => IsLive(node[w]) /\ got' = [got EXCEPT ![w] = entry[node[w]]]
                                    /\ old' = [old EXCEPT ![w] = next[node[w]]]
    BY <1>4 DEF ReadNode
  <2>3. failed' => UNCHANGED <<got, old>>
    BY <1>4 DEF ReadNode
  <2>4. pc' = [pc EXCEPT ![w] = "unlink"] /\ UNCHANGED <<list, boss, node, taken, met>>
    BY <1>4 DEF ReadNode
  <2>5. got' \in [Workers -> 0 .. MaxOffers] /\ old' \in [Workers -> Nat]
    <3>1. CASE failed'
      BY <2>3, <3>1
    <3>2. CASE ~failed'
      <4>1. node[w] \in Nodes /\ entry[node[w]] \in 0 .. MaxOffers /\ next[node[w]] \in Nat
        BY <2>2, <3>2 DEF IsLive
      <4>. QED  BY <2>2, <3>2, <4>1
    <3>. QED  BY <3>1, <3>2
  <2>6. ~failed' => \A v \in Workers : Local(v)'
    <3> SUFFICES ASSUME ~failed', NEW v \in Workers PROVE Local(v)'
      OBVIOUS
    <3>1. node[w] \in Nodes /\ entry[node[w]] \in 1 .. MaxOffers /\ next[node[w]] \in Pointers
      BY <2>2 DEF IsLive
    <3>2. ~failed
      BY <1>4 DEF ReadNode
    <3>. QED  BY <2>2, <2>4, <3>1, <3>2
  <2>. QED  BY <2>1, <2>4, <2>5, <2>6
<1>5. CASE Unlink(w)
  BY <1>5 DEF Unlink
<1>6. CASE FreeNode(w)
  <2>1. failed' \in BOOLEAN
    BY <1>6 DEF FreeNode
  <2>. QED  BY <1>6, <2>1 DEF FreeNode
<1>7. CASE CountRead(w)
  BY <1>7 DEF CountRead
<1>8. CASE CountDown(w)
  <2>1. size' \in Sizes
    <3>1. size' = (old[w] + SizeModulus - 1) % SizeModulus /\ old[w] + SizeModulus - 1 \in Int
      BY <1>8 DEF CountDown
    <3>. QED  BY <3>1, Wraps DEF Sizes
  <2>. QED  BY <1>8, <2>1 DEF CountDown
<1>9. CASE TestZero(w) \/ NoTail(w) \/ NoHead(w)
  BY <1>9 DEF TestZero, NoTail, NoHead
<1>10. CASE Return(w)
  <2>1. got[w] \in 1 .. MaxOffers
    BY <1>10 DEF Return
  <2>2. taken' \in Seq(1 .. MaxOffers)
    BY <1>10, <2>1 DEF Return
  <2>. QED  BY <1>10, <2>2 DEF Return, Null
<1>. QED
  BY <1>1, <1>2, <1>3, <1>4, <1>5, <1>6, <1>7, <1>8, <1>9, <1>10 DEF Poll

LEMMA NextTypes == Types /\ [Next]_vars => Types'
<1> SUFFICES ASSUME Types, [Next]_vars PROVE Types'
  OBVIOUS
<1>1. CASE UNCHANGED vars
  BY <1>1 DEF vars, list, boss, workers, met, Types, Local, BossLocal
<1>2. CASE Next
  BY <1>2, OfferTypes, PollTypes DEF Next
<1>. QED  BY <1>1, <1>2
LEMMA AlwaysTyped == Spec => []Types
  BY InitTypes, NextTypes, PTL DEF Spec

-----------------------------------------------------------------------------
(* Entries, and the order in which they are polled.                        *)

\* A node that is not freed holds an entry of its own, and its link, stale as it may be,
\* leads to itself, to a freed node, or to a later entry.
Entries ==
  /\ \A a \in Nodes : entry[a] <= offered
  /\ \A a, b \in Nodes : entry[a] = entry[b] /\ entry[a] # 0 => a = b
  /\ bossPc # "idle" => entry[bossNode] \in {0, offered}
  /\ \A a \in Nodes : IsLive(a) /\ IsLive(next[a]) => next[a] = a \/ entry[a] < entry[next[a]]

LEMMA EntriesFrame ==
  ASSUME Entries, UNCHANGED <<next, entry, offered>>, bossPc' # "idle" => bossPc # "idle",
         bossNode' = bossNode \/ bossPc' = "idle"
  PROVE  Entries'
  BY DEF Entries, IsLive

LEMMA OfferEntries == ASSUME Types, Entries, Offer PROVE Entries'
<1> USE DEF Types, Boss, list, workers, met
<1>1. CASE Allocate
  <2>1. PICK a \in Nodes : /\ bossNode' = a /\ entry' = [entry EXCEPT ![a] = offered + 1]
                           /\ next' = [next EXCEPT ![a] = Null]
    BY <1>1 DEF Allocate
  <2>2. offered' = offered + 1 /\ Null \notin Nodes
    BY <1>1 DEF Allocate, Nodes, Null
  <2>. QED  BY <2>1, <2>2, QueueAssumption DEF Entries, IsLive, QueueAssumption
<1>2. CASE Link
  <2>1. UNCHANGED <<entry, offered, bossNode>> /\ bossPc # "idle"
    BY <1>2 DEF Link
  <2>2. CASE IsLive(bossOld)
    <3>1. \A a \in Nodes : next'[a] = IF a = bossOld THEN bossNode ELSE next[a]
      BY <1>2, <2>2 DEF Link
    <3>2. bossNode \in Nodes
      BY <2>1 DEF BossLocal
    <3>3. IsLive(bossNode) => bossNode = bossOld \/ entry[bossOld] < entry[bossNode]
      BY <2>1, <2>2, <3>2, QueueAssumption DEF Entries, IsLive, QueueAssumption
    <3>. QED  BY <2>1, <2>2, <3>1, <3>2, <3>3 DEF Entries, IsLive
  <2>3. CASE ~IsLive(bossOld)
    BY <1>2, <2>1, <2>3, EntriesFrame DEF Link
  <2>. QED  BY <2>2, <2>3
<1>3. CASE TestHead \/ TestTail \/ FirstTail \/ FirstHead \/ ReadLast \/ NewTail
  BY <1>3, EntriesFrame DEF TestHead, TestTail, FirstTail, FirstHead, ReadLast, NewTail
<1>4. CASE ReadSize \/ Count
  BY <1>4, EntriesFrame DEF ReadSize, Count
<1>. QED  BY <1>1, <1>2, <1>3, <1>4 DEF Offer

LEMMA PollEntries == ASSUME Types, Entries, NEW w \in Workers, Look(w) \/ Poll(w) PROVE Entries'
<1> USE DEF Goto, boss, list, met
<1>1. CASE FreeNode(w)
  <2>1. node[w] \in Nodes
    BY <1>1 DEF FreeNode, Types, Local, Unlinks
  <2>2. \A a \in Nodes : entry'[a] = IF a = node[w] THEN 0 ELSE entry[a]
    BY <1>1 DEF FreeNode, Types
  <2>3. UNCHANGED <<next, offered, bossPc, bossNode>>
    BY <1>1 DEF FreeNode
  <2>4. \A a \in Nodes : IsLive(a) /\ IsLive(next[a]) => next[a] = a \/ entry[a] < entry[next[a]]
    BY DEF Entries
  <2>5. (\A a \in Nodes : IsLive(a) /\ IsLive(next[a]) => next[a] = a \/ entry[a] < entry[next[a]])'
    BY <2>2, <2>3, <2>4 DEF IsLive
  <2>6. bossPc # "idle" => bossNode \in Nodes
    BY DEF Types, BossLocal
  <2>7. 0 <= offered
    BY DEF Types
  <2>. QED  BY <2>1, <2>2, <2>3, <2>5, <2>6, <2>7 DEF Entries
<1>2. CASE \/ Look(w) \/ PollBegins(w) \/ ReadHead(w) \/ ReadNode(w) \/ Unlink(w)
           \/ CountRead(w) \/ CountDown(w) \/ TestZero(w) \/ NoTail(w) \/ NoHead(w) \/ Return(w)
  BY <1>2, EntriesFrame DEF Look, PollBegins, ReadHead, ReadNode, Unlink, CountRead, CountDown,
     TestZero, NoTail, NoHead, Return
<1>. QED  BY <1>1, <1>2 DEF Poll

\* What p points to, if it was not freed, is a later entry than e.
Later(p, e) == IsLive(p) => e < entry[p]

\* What worker w holds: its entry follows all that were polled, and what is left follows it.
Got(w) ==
  /\ pc[w] = "node" => \A k \in DOMAIN taken : Later(node[w], taken[k])
  /\ pc[w] \in Unlinks \cup Counts => \A k \in DOMAIN taken : taken[k] < got[w]
  /\ pc[w] \in Unlinks => entry[node[w]] = got[w]
  /\ pc[w] = "free" => head = node[w] \/ Later(head, got[w])
  /\ pc[w] = "unlink" => old[w] = node[w] \/ Later(old[w], got[w])
  /\ pc[w] \in Counts => /\ got[w] <= offered /\ \A a \in Nodes : entry[a] # got[w]
                         /\ Later(head, got[w])

OnePoll == \A v, w \in Workers : Polling(v) /\ Polling(w) => v = w

\* What was polled came in order, and neither is nor will be in the list again.
Gone ==
  /\ \A k \in DOMAIN taken : Later(head, taken[k])
  /\ \A k \in DOMAIN taken : taken[k] <= offered /\ \A a \in Nodes : entry[a] # taken[k]
  /\ \A j, k \in DOMAIN taken : j < k => taken[j] < taken[k]

Ordered == OnePoll /\ Gone /\ (~failed => \A w \in Workers : Got(w))

OrderInv == Entries /\ (~pollsMet => Ordered)

LEMMA TakenNumbers ==
  ASSUME Types
  PROVE  /\ \A k \in DOMAIN taken : taken[k] \in 1 .. MaxOffers
         /\ MaxOffers \in Nat /\ offered \in Nat /\ \A a \in Nodes : entry[a] \in Nat
  BY QueueAssumption, ElementOfSeq DEF Types, QueueAssumption

LEMMA OfferOrdered ==
  ASSUME Types, Entries, Entries', Ordered, Offer
  PROVE  Ordered'
<1> USE DEF Types, Boss, list, workers, met
<1>1. ~failed /\ OnePoll'
  BY DEF Offer, Allocate, TestHead, TestTail, FirstTail, FirstHead, ReadLast, Link, NewTail,
     ReadSize, Count, Ordered, OnePoll, Polling
<1>2. UNCHANGED <<pc, node, old, got, taken>>
  BY DEF Offer, Allocate, TestHead, TestTail, FirstTail, FirstHead, ReadLast, Link, NewTail,
     ReadSize, Count
<1> USE TakenNumbers
<1>3. CASE Allocate
  <2>1. PICK a \in Nodes : ~IsLive(a) /\ entry' = [entry EXCEPT ![a] = offered + 1]
    BY <1>3 DEF Allocate
  <2>2. offered' = offered + 1 /\ head' = head
    BY <1>3 DEF Allocate
  <2>3. \A p, e : Later(p, e) /\ e \in Int /\ e <= offered => Later(p, e)'
    BY <2>1, <2>2 DEF Later, IsLive
  <2>4. Gone'
    BY <1>2, <2>1, <2>2, <2>3 DEF Gone, Ordered
  <2>5. ASSUME NEW w \in Workers PROVE Got(w)'
    <3>1. Got(w) /\ Local(w)
      BY <1>1 DEF Ordered
    <3>2. \A b \in Nodes : entry'[b] = IF b = a THEN offered + 1 ELSE entry[b]
      BY <2>1
    <3>3. entry[a] = 0
      BY <2>1 DEF IsLive
    <3>4. CASE pc[w] = "node"
      BY <1>2, <2>2, <3>1, <3>2, <3>4 DEF Got, Later, IsLive, Ordered, Gone, Unlinks, Counts
    <3>5. CASE pc[w] \in Unlinks
      <4>1. node[w] # a /\ node[w] \in Nodes /\ got[w] <= offered
        BY <3>1, <3>3, <3>5 DEF Got, Local, Entries
      <4>2. /\ entry[node[w]] = got[w]
            /\ pc[w] = "free" => head = node[w] \/ Later(head, got[w])
            /\ pc[w] = "unlink" => old[w] = node[w] \/ Later(old[w], got[w])
            /\ \A k \in DOMAIN taken : taken[k] < got[w]
        BY <3>1, <3>5 DEF Got
      <4>3. (pc[w] = "free" => head = node[w] \/ Later(head, got[w]))'
        BY <1>2, <2>2, <3>2, <4>1, <4>2 DEF Later, IsLive
      <4>4. (pc[w] = "unlink" => old[w] = node[w] \/ Later(old[w], got[w]))'
        BY <1>2, <2>2, <3>2, <4>1, <4>2 DEF Later, IsLive
      <4>5. entry'[node[w]] = got[w] /\ pc'[w] \in Unlinks
        BY <1>2, <3>2, <3>5, <4>1, <4>2
      <4>. QED
        BY <1>2, <4>2, <4>3, <4>4, <4>5 DEF Got, Unlinks, Counts
    <3>6. CASE pc[w] \in Counts
      BY <1>2, <2>2, <3>1, <3>2, <3>3, <3>6 DEF Got, Local, Later, IsLive, Unlinks, Counts
    <3>. QED  BY <1>2, <3>4, <3>5, <3>6 DEF Got, Unlinks
  <2>. QED  BY <1>1, <2>4, <2>5 DEF Ordered
<1>4. CASE FirstHead
  <2>1. head' = bossNode /\ UNCHANGED <<entry, offered>> /\ bossNode \in Nodes
        /\ entry[bossNode] \in {0, offered}
    BY <1>4 DEF FirstHead, BossLocal, Entries
  <2>2. Gone'
    BY <1>2, <2>1 DEF Gone, Ordered, Later, IsLive
  <2>3. ASSUME NEW w \in Workers PROVE Got(w)'
    <3>1. Got(w) /\ Local(w)
      BY <1>1 DEF Ordered
    <3>2. CASE pc[w] = "node"
      BY <1>2, <2>1, <3>1, <3>2 DEF Got, Later, IsLive, Unlinks, Counts
    <3>3. CASE pc[w] \in Unlinks
      <4>1. node[w] \in Nodes /\ entry[node[w]] = got[w] /\ got[w] \in 1 .. offered
        BY <3>1, <3>3 DEF Got, Local, Entries
      <4>2. bossNode = node[w] \/ Later(bossNode, got[w])
        BY <2>1, <4>1 DEF Entries, Later, IsLive
      <4>. QED  BY <1>2, <2>1, <3>1, <3>3, <4>2 DEF Got, Later, IsLive, Unlinks, Counts
    <3>4. CASE pc[w] \in Counts
      BY <1>2, <2>1, <3>1, <3>4 DEF Got, Local, Later, IsLive, Unlinks, Counts
    <3>. QED  BY <1>2, <3>2, <3>3, <3>4 DEF Got, Unlinks
  <2>. QED  BY <1>1, <2>2, <2>3 DEF Ordered
<1>5. CASE \/ TestHead \/ TestTail \/ FirstTail \/ ReadLast \/ Link \/ NewTail \/ ReadSize \/ Count
  <2>1. UNCHANGED <<head, entry, offered>>
    BY <1>5 DEF TestHead, TestTail, FirstTail, ReadLast, Link, NewTail, ReadSize, Count
  <2>. QED  BY <1>1, <1>2, <2>1 DEF Ordered, Gone, Got, Later, IsLive
<1>. QED  BY <1>3, <1>4, <1>5 DEF Offer

LEMMA PollOrdered ==
  ASSUME Types, Types', Entries, Entries', Ordered, NEW w \in Workers, Look(w) \/ Poll(w),
         ~pollsMet'
  PROVE  Ordered'
<1> USE TakenNumbers DEF Goto, boss, list, met
<1>1. ~failed /\ (\A v \in Workers : Got(v) /\ Local(v)) /\ Gone /\ OnePoll
  BY DEF Ordered, Types, Look, Poll, PollBegins, ReadHead, ReadNode, Unlink, FreeNode, CountRead,
     CountDown, TestZero, NoTail, NoHead, Return
<1>2. \A v \in Workers : v # w => /\ pc'[v] = pc[v] /\ node'[v] = node[v]
                                  /\ old'[v] = old[v] /\ got'[v] = got[v]
  BY DEF Types, Look, Poll, PollBegins, ReadHead, ReadNode, Unlink, FreeNode, CountRead,
     CountDown, TestZero, NoTail, NoHead, Return
<1>3. OnePoll'
  <2>1. CASE PollBegins(w)
    BY <1>1, <1>2, <2>1 DEF PollBegins, OnePoll, Polling
  <2>2. CASE \/ Look(w) \/ ReadHead(w) \/ ReadNode(w) \/ Unlink(w) \/ FreeNode(w) \/ CountRead(w)
             \/ CountDown(w) \/ TestZero(w) \/ NoTail(w) \/ NoHead(w) \/ Return(w)
    <3>1. Polling(w)' => Polling(w)
      BY <2>2 DEF Types, Polling, Look, ReadHead, ReadNode, Unlink, FreeNode, CountRead,
         CountDown, TestZero, NoTail, NoHead, Return
    <3>. QED  BY <1>1, <1>2, <3>1 DEF OnePoll, Polling
  <2>. QED  BY <2>1, <2>2 DEF Poll
<1>4. ASSUME UNCHANGED <<head, entry, offered, taken>>, Got(w)' PROVE Ordered'
  <2>1. Gone'
    BY <1>1, <1>4 DEF Gone, Later, IsLive
  <2>2. ASSUME NEW v \in Workers PROVE Got(v)'
    BY <1>1, <1>2, <1>4 DEF Got, Later, IsLive
  <2>. QED  BY <1>3, <2>1, <2>2 DEF Ordered
<1>5. CASE Look(w) \/ PollBegins(w)
  <2>1. UNCHANGED <<head, entry, offered, taken>> /\ pc'[w] \in {"idle", "seen", "head"}
    BY <1>5 DEF Look, PollBegins, Types
  <2>2. Got(w)'
    BY <2>1 DEF Got, Unlinks, Counts
  <2>. QED  BY <1>4, <2>1, <2>2
<1>6. CASE ReadHead(w)
  <2>1. UNCHANGED <<head, entry, offered, taken>> /\ pc'[w] = "node" /\ node'[w] = head
    BY <1>6 DEF ReadHead, Types
  <2>2. Got(w)'
    BY <1>1, <2>1 DEF Got, Gone, Later, IsLive, Unlinks, Counts
  <2>. QED  BY <1>4, <2>1, <2>2
<1>7. CASE ReadNode(w)
  <2>1. UNCHANGED <<head, entry, offered, taken, next, node>> /\ pc'[w] = "unlink" /\ pc[w] = "node"
    BY <1>7 DEF ReadNode, Types
  <2>2. CASE IsLive(node[w])
    <3>1. got'[w] = entry[node[w]] /\ old'[w] = next[node[w]] /\ node[w] \in Nodes
      BY <1>7, <2>2 DEF ReadNode, Types, IsLive
    <3>2. \A k \in DOMAIN taken : taken[k] < entry[node[w]]
      BY <1>1, <2>1, <2>2 DEF Got, Later
    <3>3. next[node[w]] = node[w] \/ Later(next[node[w]], entry[node[w]])
      BY <2>2, <3>1 DEF Entries, Later
    <3>4. Got(w)'
      BY <2>1, <3>1, <3>2, <3>3 DEF Got, Later, IsLive, Unlinks, Counts
    <3>. QED  BY <1>4, <2>1, <3>4
  <2>3. CASE ~IsLive(node[w])
    <3>1. failed'
      BY <1>7, <2>3 DEF ReadNode
    <3>2. Gone'
      BY <1>1, <2>1 DEF Gone, Later, IsLive
    <3>. QED  BY <1>3, <3>1, <3>2 DEF Ordered
  <2>. QED  BY <2>2, <2>3
<1>8. CASE Unlink(w)
  <2>1. /\ UNCHANGED <<entry, offered, taken, node, old, got>> /\ head' = old[w]
        /\ pc[w] = "unlink" /\ pc'[w] = "free"
    BY <1>8 DEF Unlink, Types
  <2>2. /\ \A k \in DOMAIN taken : taken[k] < got[w]
        /\ entry[node[w]] = got[w]
        /\ old[w] = node[w] \/ Later(old[w], got[w])
        /\ got[w] \in 1 .. MaxOffers
    BY <1>1, <2>1 DEF Got, Local, Unlinks
  <2>3. Gone'
    BY <1>1, <2>1, <2>2 DEF Gone, Later, IsLive
  <2>4. Got(w)'
    BY <2>1, <2>2 DEF Got, Later, IsLive, Unlinks, Counts
  <2>5. ASSUME NEW v \in Workers, v # w PROVE Got(v)'
    <3>1. ~Polling(v)
      BY <1>1, <2>1, <2>5 DEF OnePoll, Polling
    <3>2. pc'[v] \in {"idle", "seen"}
      BY <1>2, <2>5, <3>1 DEF Polling
    <3>. QED  BY <3>2 DEF Got, Unlinks, Counts
  <2>. QED  BY <1>3, <2>3, <2>4, <2>5 DEF Ordered
<1>9. CASE FreeNode(w)
  <2>1. /\ UNCHANGED <<head, offered, taken, node, old, got>>
        /\ pc[w] = "free" /\ pc'[w] = "size" /\ node[w] \in Nodes
        /\ \A a \in Nodes : entry'[a] = IF a = node[w] THEN 0 ELSE entry[a]
    BY <1>1, <1>9 DEF FreeNode, Types, Local, Unlinks
  <2>2. /\ \A k \in DOMAIN taken : taken[k] < got[w]
        /\ entry[node[w]] = got[w] /\ got[w] \in 1 .. MaxOffers
        /\ head = node[w] \/ Later(head, got[w])
    BY <1>1, <2>1 DEF Got, Local, Unlinks
  <2>3. Gone'
    BY <1>1, <2>1 DEF Gone, Later, IsLive
  <2>4. \A a \in Nodes : entry'[a] # got[w]
    BY <2>1, <2>2 DEF Entries
  <2>5. Got(w)'
    BY <2>1, <2>2, <2>4 DEF Got, Later, IsLive, Unlinks, Counts, Entries
  <2>6. ASSUME NEW v \in Workers, v # w PROVE Got(v)'
    <3>1. ~Polling(v)
      BY <1>1, <2>1, <2>6 DEF OnePoll, Polling
    <3>2. pc'[v] \in {"idle", "seen"}
      BY <1>2, <2>6, <3>1 DEF Polling
    <3>. QED  BY <3>2 DEF Got, Unlinks, Counts
  <2>. QED  BY <1>3, <2>3, <2>5, <2>6 DEF Ordered
<1>10. CASE CountRead(w) \/ CountDown(w) \/ TestZero(w) \/ NoTail(w)
  <2>1. UNCHANGED <<head, entry, offered, taken, got>> /\ pc[w] \in Counts /\ pc'[w] \in Counts
    BY <1>10 DEF CountRead, CountDown, TestZero, NoTail, Types, Counts
  <2>2. Got(w)'
    BY <1>1, <2>1 DEF Got, Later, IsLive, Unlinks, Counts
  <2>. QED  BY <1>4, <2>1, <2>2
<1>11. CASE NoHead(w)
  <2>1. /\ UNCHANGED <<entry, offered, taken, got>> /\ pc[w] \in Counts /\ pc'[w] \in Counts
        /\ head' \notin Nodes /\ pc[w] = "noHead"
    BY <1>11 DEF NoHead, Types, Counts, Null, Nodes
  <2>2. Got(w)'
    BY <1>1, <2>1 DEF Got, Later, IsLive, Unlinks, Counts
  <2>3. Gone'
    BY <1>1, <2>1 DEF Gone, Later, IsLive
  <2>4. ASSUME NEW v \in Workers, v # w PROVE Got(v)'
    <3>1. ~Polling(v)
      BY <1>1, <2>1, <2>4 DEF OnePoll, Polling
    <3>2. pc'[v] \in {"idle", "seen"}
      BY <1>2, <2>4, <3>1 DEF Polling
    <3>. QED  BY <3>2 DEF Got, Unlinks, Counts
  <2>. QED  BY <1>3, <2>2, <2>3, <2>4 DEF Ordered
<1>12. CASE Return(w)
  <2>1. /\ UNCHANGED <<head, entry, offered>> /\ taken' = Append(taken, got[w])
        /\ pc[w] = "return" /\ pc'[w] = "idle" /\ taken \in Seq(1 .. MaxOffers)
    BY <1>12 DEF Return, Types
  <2>2. /\ \A k \in DOMAIN taken : taken[k] < got[w]
        /\ got[w] \in 1 .. MaxOffers /\ got[w] <= offered
        /\ Later(head, got[w]) /\ \A a \in Nodes : entry[a] # got[w]
    BY <1>1, <2>1 DEF Got, Local, Unlinks, Counts
  <2>3. /\ DOMAIN taken' = 1 .. Len(taken) + 1 /\ DOMAIN taken = 1 .. Len(taken) /\ Len(taken) \in Nat
        /\ \A k \in 1 .. Len(taken) + 1 :
             taken'[k] = IF k = Len(taken) + 1 THEN got[w] ELSE taken[k]
    BY <2>1, <2>2
  <2>4. Gone'
    <3>1. ASSUME NEW k \in DOMAIN taken'
          PROVE  Later(head, taken[k])' /\ taken'[k] <= offered' /\ \A a \in Nodes : entry'[a] # taken'[k]
      BY <1>1, <2>1, <2>2, <2>3 DEF Gone, Later, IsLive
    <3>2. \A j, k \in DOMAIN taken' : j < k => taken'[j] < taken'[k]
      BY <1>1, <2>2, <2>3 DEF Gone
    <3>. QED  BY <3>1, <3>2 DEF Gone
  <2>5. ASSUME NEW v \in Workers PROVE Got(v)'
    <3>1. v = w \/ ~Polling(v)
      BY <1>1, <2>1 DEF OnePoll, Polling
    <3>2. pc'[v] \in {"idle", "seen"}
      BY <1>2, <2>1, <3>1 DEF Polling
    <3>. QED  BY <3>2 DEF Got, Unlinks, Counts
  <2>. QED  BY <1>3, <2>4, <2>5 DEF Ordered
<1>. QED
  BY <1>5, <1>6, <1>7, <1>8, <1>9, <1>10, <1>11, <1>12 DEF Poll

LEMMA AlwaysOrdered == Spec => []OrderInv
<1>1. Init => OrderInv
  <2> SUFFICES ASSUME Init PROVE OrderInv
    OBVIOUS
  <2>1. taken = <<>> /\ DOMAIN taken = {}
    BY DEF Init
  <2>. QED
    BY <2>1, QueueAssumption DEF QueueAssumption, Init, OrderInv, Entries, Ordered, OnePoll, Gone, Got, Polling,
       IsLive, Unlinks, Counts
<1>2. Types /\ Types' /\ OrderInv /\ [Next]_vars => OrderInv'
  <2> SUFFICES ASSUME Types, Types', OrderInv, [Next]_vars PROVE OrderInv'
    OBVIOUS
  <2>1. CASE UNCHANGED vars
    BY <2>1 DEF vars, list, boss, workers, met, OrderInv, Entries, Ordered, OnePoll, Gone, Got,
       Polling, Later, IsLive
  <2>2. CASE Offer
    <3>1. pollsMet' = pollsMet
      BY <2>2 DEF Offer, Allocate, TestHead, TestTail, FirstTail, FirstHead, ReadLast, Link,
         NewTail, ReadSize, Count, met
    <3>. QED  BY <2>2, <3>1, OfferEntries, OfferOrdered DEF OrderInv
  <2>3. ASSUME NEW w \in Workers, Look(w) \/ Poll(w) PROVE OrderInv'
    <3>1. ~pollsMet' => ~pollsMet
      BY <2>3 DEF Look, Poll, PollBegins, ReadHead, ReadNode, Unlink, FreeNode, CountRead,
         CountDown, TestZero, NoTail, NoHead, Return, met
    <3>. QED  BY <2>3, <3>1, PollEntries, PollOrdered DEF OrderInv
  <2>. QED  BY <2>1, <2>2, <2>3 DEF Next
<1>. QED  BY <1>1, <1>2, AlwaysTyped, PTL DEF Spec

\* However an offer and a poll overlap, as long as no two polls do, no entry is polled twice
\* and none before an older one (New/Server/Server/s.c:93, 316-318, queue.h).
THEOREM PolledInOrder == Spec => []OneTakerInOrder
<1>1. ASSUME Types, OrderInv PROVE OneTakerInOrder
  <2>1. DOMAIN taken = 1 .. Len(taken)
    BY <1>1 DEF Types
  <2>. QED  BY <1>1, <2>1 DEF OrderInv, Ordered, Gone, OneTakerInOrder
<1>. QED  BY <1>1, AlwaysTyped, AlwaysOrdered, PTL
-----------------------------------------------------------------------------
(* Calls that do not overlap.                                              *)

Polled == Len(taken)
Left   == offered - Polled
At(p, e) == p \in Nodes /\ entry[p] = e

\* The entries lo + 1 .. hi are linked, each to the next.
Chain(lo, hi) ==
  /\ \A e \in lo + 1 .. hi : \E a \in Nodes : entry[a] = e
  /\ \A a \in Nodes : entry[a] \in lo + 1 .. hi =>
       IF entry[a] = hi THEN next[a] = Null ELSE At(next[a], entry[a] + 1)
Heads(lo, hi) == IF lo = hi THEN head = Null ELSE At(head, lo + 1)
Tails(lo, hi) == IF lo = hi THEN tail = Null ELSE At(tail, hi)
Whole(lo, hi) == Chain(lo, hi) /\ Heads(lo, hi) /\ Tails(lo, hi)

\* The list in the middle of an offer that nothing overlaps ...
BossSerial ==
  LET m == offered - 1 IN
  /\ Polled <= m /\ At(bossNode, offered) /\ size = m - Polled
  /\ bossPc \in {"head", "tail", "first", "firstHead", "last", "link"} =>
       next[bossNode] = Null /\ Chain(Polled, m) /\ Heads(Polled, m)
  /\ bossPc \in {"head", "tail", "first", "last", "link"} => Tails(Polled, m)
  /\ bossPc \in {"tail", "first", "firstHead"} => Polled = m
  /\ bossPc \in {"last", "link", "newTail"} => Polled < m
  /\ bossPc = "link" => bossOld = tail
  /\ bossPc = "firstHead" => tail = bossNode
  /\ bossPc \in {"newTail", "size", "count"} => Chain(Polled, offered) /\ Heads(Polled, offered)
  /\ bossPc \in {"size", "count"} => Tails(Polled, offered)
  /\ bossPc = "count" => bossOld = size

\* ... and of a poll.
WorkerSerial(w) ==
  /\ Polled < offered
  /\ size = IF pc[w] \in {"zero", "noTail", "noHead", "return"} THEN Left - 1 ELSE Left
  /\ pc[w] \in {"head", "node", "unlink"} => Whole(Polled, offered)
  /\ pc[w] \in {"node", "unlink"} => node[w] = head
  /\ pc[w] = "unlink" => old[w] = next[node[w]]
  /\ pc[w] \in Unlinks \cup Counts => got[w] = Polled + 1
  /\ pc[w] = "free" => At(node[w], Polled + 1) /\ Chain(Polled, offered) /\ Tails(Polled, offered)
  /\ pc[w] \in {"free"} \cup Counts => Heads(Polled + 1, offered)
  /\ pc[w] \in Counts => /\ Chain(Polled + 1, offered)
                         /\ Polled + 1 < offered => Tails(Polled + 1, offered)
  /\ pc[w] = "count" => old[w] = size
  /\ pc[w] \in {"noTail", "noHead"} => Polled + 1 = offered
  /\ pc[w] \in {"noHead", "return"} => Tails(Polled + 1, offered)

\* Worker w saw an entry: it is still there, or another worker has polled since.
Justified(w) == Polled < offered \/ (Polled > 0 /\ \E v \in Workers : v # w)

Serial ==
  /\ Polled <= offered /\ \A k \in 1 .. Polled : taken[k] = k
  /\ bossPc # "idle" => BossSerial
  /\ \A w \in Workers : Polling(w) => bossPc = "idle" /\ WorkerSerial(w)
  /\ bossPc = "idle" /\ (\A w \in Workers : ~Polling(w)) => size = Left /\ Whole(Polled, offered)
  /\ \A w \in Workers : pc[w] = "seen" => Justified(w)
  /\ failed => Polled > 0 /\ \E v, w \in Workers : v # w

SerialInv == ~offerMet /\ ~pollsMet => Serial

LEMMA PolledNumber == Types => Polled \in Nat /\ offered \in Nat /\ Left \in Int
  BY DEF Types, Polled, Left

LEMMA OfferSerial ==
  ASSUME Types, Types', Entries, Serial, Offer, ~offerMet'
  PROVE  Serial'
<1> USE PolledNumber, QueueAssumption DEF Boss, list, workers, met, QueueAssumption
<1>1. UNCHANGED <<pc, node, old, got, taken>> /\ ~failed /\ bossPc \in BossPcs
  BY DEF Offer, Allocate, TestHead, TestTail, FirstTail, FirstHead, ReadLast, Link, NewTail,
     ReadSize, Count, Types
<1>2. \A w \in Workers : ~Polling(w)
  BY DEF Offer, Allocate, TestHead, TestTail, FirstTail, FirstHead, ReadLast, Link, NewTail,
     ReadSize, Count, Serial
<1>3. \A w \in Workers : ~Polling(w)'
  BY <1>1, <1>2 DEF Polling
<1>4. ASSUME offered' \in {offered, offered + 1}, ~failed', bossPc' # "idle" => BossSerial',
             bossPc' = "idle" => (size = Left /\ Whole(Polled, offered))'
      PROVE  Serial'
  <2>1. Polled' = Polled
    BY <1>1 DEF Polled
  <2>2. ASSUME NEW w \in Workers, pc'[w] = "seen" PROVE Justified(w)'
    BY <1>1, <1>4, <2>1, <2>2 DEF Serial, Justified
  <2>. QED  BY <1>1, <1>3, <1>4, <2>1, <2>2 DEF Serial
<1>5. CASE Allocate
  <2>1. PICK a \in Nodes : /\ ~IsLive(a) /\ bossNode' = a
                           /\ entry' = [entry EXCEPT ![a] = offered + 1]
                           /\ next' = [next EXCEPT ![a] = Null]
    BY <1>5 DEF Allocate
  <2>2. size = Left /\ Whole(Polled, offered)
    BY <1>2, <1>5 DEF Serial, Allocate
  <2>3. entry[a] = 0 /\ \A b \in Nodes : /\ entry'[b] = IF b = a THEN offered + 1 ELSE entry[b]
                                         /\ next'[b] = IF b = a THEN Null ELSE next[b]
    BY <2>1 DEF Types, IsLive
  <2>4. Polled' = Polled /\ offered' = offered + 1 /\ UNCHANGED <<head, tail, size, failed>>
        /\ bossPc' = "head"
    BY <1>1, <1>5 DEF Allocate, Polled
  <2>5. \A p, e : At(p, e) /\ e # 0 => At(p, e)'
    BY <2>3 DEF At
  <2>6. \A e \in Polled + 1 .. offered : \E b \in Nodes : entry'[b] = e
    BY <2>2, <2>3 DEF Whole, Chain
  <2>7. ASSUME NEW b \in Nodes, entry'[b] \in Polled + 1 .. offered
        PROVE  IF entry'[b] = offered THEN next'[b] = Null ELSE At(next[b], entry[b] + 1)'
    <3>1. b # a /\ entry'[b] = entry[b] /\ next'[b] = next[b]
      BY <2>3, <2>7
    <3>2. entry[b] # offered => At(next[b], entry[b] + 1)
      BY <2>2, <2>7, <3>1 DEF Whole, Chain
    <3>3. entry[b] # offered => At(next[b], entry[b] + 1)'
      BY <2>3, <2>7, <3>1, <3>2 DEF At
    <3>4. entry[b] = offered => next[b] = Null
      BY <2>2, <2>7, <3>1 DEF Whole, Chain
    <3>. QED  BY <3>1, <3>3, <3>4
  <2>8. Chain(Polled, offered - 1)'
    BY <2>4, <2>6, <2>7 DEF Chain
  <2>9. Heads(Polled, offered - 1)' /\ Tails(Polled, offered - 1)'
    <3>1. /\ IF Polled = offered THEN head = Null ELSE At(head, Polled + 1)
          /\ IF Polled = offered THEN tail = Null ELSE At(tail, offered)
      BY <2>2 DEF Whole, Heads, Tails
    <3>2. Polled' = offered' - 1 <=> Polled = offered
      BY <2>4
    <3>3. Polled # offered => At(head, Polled + 1)' /\ At(tail, offered - 1)'
      <4>1. Polled <= offered
        BY DEF Serial
      <4>. QED  BY <2>3, <2>4, <3>1, <4>1 DEF At
    <3>. QED  BY <2>4, <3>1, <3>2, <3>3 DEF Heads, Tails
  <2>10. BossSerial'
    BY <2>1, <2>2, <2>3, <2>4, <2>8, <2>9 DEF BossSerial, Serial, At, Left
  <2>. QED  BY <1>1, <1>4, <2>4, <2>10
<1>6. ASSUME bossPc # "idle", UNCHANGED <<head, next, entry, offered, bossNode, size>>
      PROVE  /\ Polled' = Polled /\ BossSerial /\ At(bossNode, offered)'
             /\ Chain(Polled, offered - 1)' = Chain(Polled, offered - 1)
             /\ Chain(Polled, offered)' = Chain(Polled, offered)
             /\ Heads(Polled, offered - 1)' = Heads(Polled, offered - 1)
             /\ Heads(Polled, offered)' = Heads(Polled, offered)
  BY <1>1, <1>6 DEF Polled, Chain, Heads, At, Serial, BossSerial
<1>7. CASE TestHead \/ TestTail \/ FirstTail \/ ReadLast \/ NewTail \/ ReadSize
  <2>1. UNCHANGED <<head, next, entry, offered, bossNode, size>>
        /\ bossPc # "idle" /\ bossPc' # "idle" /\ failed' = failed
    BY <1>7 DEF TestHead, TestTail, FirstTail, ReadLast, NewTail, ReadSize
  <2>2. CASE TestHead \/ TestTail
    <3>1. UNCHANGED <<tail, bossOld>>
      BY <2>2 DEF TestHead, TestTail
    <3>2. Tails(Polled, offered - 1)' = Tails(Polled, offered - 1)
      BY <1>6, <2>1, <3>1 DEF Tails, At
    <3>3. Polled = offered - 1 <=> head = Null
      BY <1>6, <2>1, <2>2 DEF TestHead, TestTail, BossSerial, Heads, At, Nodes, Null
    <3>4. Polled = offered - 1 <=> tail = Null
      BY <1>6, <2>1, <2>2 DEF TestHead, TestTail, BossSerial, Tails, At, Nodes, Null
    <3>5. BossSerial'
      BY <1>6, <2>1, <2>2, <3>1, <3>2, <3>3, <3>4 DEF TestHead, TestTail, BossSerial
    <3>. QED  BY <1>1, <1>4, <2>1, <3>5
  <2>3. CASE FirstTail \/ ReadLast
    <3>1. Tails(Polled, offered - 1)' = Tails(Polled, offered - 1) \/ FirstTail
      BY <1>6, <2>1, <2>3 DEF Tails, At, ReadLast
    <3>2. BossSerial'
      BY <1>6, <2>1, <2>3, <3>1 DEF FirstTail, ReadLast, BossSerial
    <3>. QED  BY <1>1, <1>4, <2>1, <3>2
  <2>4. CASE NewTail
    <3>1. Tails(Polled, offered)'
      BY <1>6, <2>1, <2>4 DEF NewTail, Tails, At, BossSerial
    <3>2. BossSerial'
      BY <1>6, <2>1, <2>4, <3>1 DEF NewTail, BossSerial
    <3>. QED  BY <1>1, <1>4, <2>1, <3>2
  <2>5. CASE ReadSize
    <3>1. Tails(Polled, offered)' = Tails(Polled, offered)
      BY <1>6, <2>1, <2>5 DEF ReadSize, Tails, At
    <3>2. BossSerial'
      BY <1>6, <2>1, <2>5, <3>1 DEF ReadSize, BossSerial
    <3>. QED  BY <1>1, <1>4, <2>1, <3>2
  <2>. QED  BY <1>7, <2>2, <2>3, <2>4, <2>5
<1>8. CASE FirstHead
  <2>1. /\ UNCHANGED <<tail, next, entry, offered, bossNode, size, failed>> /\ Polled' = Polled
        /\ bossPc' = "size" /\ head' = bossNode /\ BossSerial /\ bossPc = "firstHead"
    BY <1>1, <1>8 DEF FirstHead, Serial, Polled
  <2>2. /\ At(bossNode, offered) /\ Polled = offered - 1 /\ next[bossNode] = Null /\ tail = bossNode
        /\ size = offered - 1 - Polled
    BY <2>1 DEF BossSerial
  <2>3. \A a \in Nodes : entry[a] = offered => a = bossNode
    BY <2>2 DEF Entries, At
  <2>4. Chain(Polled, offered)'
    BY <2>1, <2>2, <2>3 DEF Chain, At
  <2>5. Heads(Polled, offered)' /\ Tails(Polled, offered)'
    BY <2>1, <2>2 DEF Heads, Tails, At
  <2>6. BossSerial'
    BY <2>1, <2>2, <2>4, <2>5 DEF BossSerial, At
  <2>. QED  BY <1>1, <1>4, <2>1, <2>6
<1>9. CASE Link
  <2>1. /\ UNCHANGED <<head, tail, entry, offered, bossNode, size>> /\ Polled' = Polled
        /\ bossPc' = "newTail" /\ BossSerial /\ bossPc = "link"
    BY <1>1, <1>9 DEF Link, Serial, Polled
  <2>2. /\ At(bossNode, offered) /\ Polled < offered - 1 /\ next[bossNode] = Null
        /\ bossOld = tail /\ At(tail, offered - 1) /\ Chain(Polled, offered - 1)
        /\ Heads(Polled, offered - 1) /\ size = offered - 1 - Polled
    BY <2>1 DEF BossSerial, Tails
  <2>3. IsLive(bossOld) /\ ~failed'
    <3>1. IsLive(bossOld)
      BY <2>2 DEF IsLive, At
    <3>2. failed' = ~IsLive(bossOld)
      BY <1>9 DEF Link
    <3>. QED  BY <3>1, <3>2
  <2>4. \A a \in Nodes : next'[a] = IF a = bossOld THEN bossNode ELSE next[a]
    BY <1>9, <2>3 DEF Link, Types
  <2>5. \A a \in Nodes : /\ entry[a] = offered => a = bossNode
                         /\ entry[a] = offered - 1 => a = tail
    BY <2>2 DEF Entries, At
  <2>6. \A e \in Polled + 1 .. offered : \E a \in Nodes : entry[a] = e
    <3>1. \A e \in Polled + 1 .. offered : e = offered \/ e \in Polled + 1 .. offered - 1
      OBVIOUS
    <3>. QED  BY <2>2, <3>1 DEF Chain, At
  <2>7. ASSUME NEW a \in Nodes, entry[a] \in Polled + 1 .. offered
        PROVE  IF entry[a] = offered THEN next'[a] = Null ELSE At(next[a], entry[a] + 1)'
    <3>1. CASE entry[a] = offered
      BY <2>2, <2>4, <2>5, <3>1 DEF At
    <3>2. CASE entry[a] = offered - 1
      BY <2>1, <2>2, <2>4, <2>5, <3>2 DEF At
    <3>3. CASE entry[a] \in Polled + 1 .. offered - 2
      <4>1. At(next[a], entry[a] + 1) /\ a # bossOld
        BY <2>2, <3>3 DEF Chain, At
      <4>. QED  BY <2>1, <2>4, <3>3, <4>1 DEF At
    <3>. QED  BY <2>7, <3>1, <3>2, <3>3
  <2>8. Chain(Polled, offered)'
    BY <2>1, <2>6, <2>7 DEF Chain
  <2>9. Heads(Polled, offered)'
    BY <2>1, <2>2 DEF Heads, At
  <2>10. BossSerial'
    BY <2>1, <2>2, <2>8, <2>9 DEF BossSerial, At
  <2>. QED  BY <1>1, <1>4, <2>1, <2>3, <2>10
<1>10. CASE Count
  <2>1. /\ UNCHANGED <<head, tail, next, entry, offered, failed>> /\ Polled' = Polled
        /\ bossPc' = "idle" /\ size' = (bossOld + 1) % SizeModulus /\ bossPc = "count" /\ BossSerial
    BY <1>1, <1>10 DEF Count, Polled, Serial
  <2>2. bossOld = offered - 1 - Polled /\ Polled <= offered - 1 /\ Whole(Polled, offered)
    BY <2>1 DEF BossSerial, Whole
  <2>3. bossOld + 1 \in 0 .. SizeModulus - 1 /\ bossOld + 1 = Left
    <3>1. offered \in 0 .. MaxOffers /\ Polled \in Nat
      BY PolledNumber DEF Types
    <3>. QED  BY <2>2, <3>1 DEF Left
  <2>4. size' = Left
    BY <2>1, <2>3, SizesAre, Wraps
  <2>5. Whole(Polled, offered)' /\ Left' = Left
    BY <2>1, <2>2 DEF Whole, Chain, Heads, Tails, At, Left
  <2>. QED  BY <1>1, <1>4, <2>1, <2>4, <2>5
<1>. QED  BY <1>5, <1>7, <1>8, <1>9, <1>10 DEF Offer

LEMMA PollSerial ==
  ASSUME Types, Types', Entries, Serial, OnePoll, NEW w \in Workers, Look(w) \/ Poll(w),
         ~offerMet', ~pollsMet'
  PROVE  Serial'
<1> USE PolledNumber, QueueAssumption DEF Goto, boss, list, met, QueueAssumption
<1>1. ~failed /\ UNCHANGED <<bossPc, bossNode, bossOld, offered>>
  BY DEF Look, Poll, PollBegins, ReadHead, ReadNode, Unlink, FreeNode, CountRead,
     CountDown, TestZero, NoTail, NoHead, Return
<1>2. \A v \in Workers : v # w => /\ pc'[v] = pc[v] /\ node'[v] = node[v]
                                  /\ old'[v] = old[v] /\ got'[v] = got[v]
  BY DEF Types, Look, Poll, PollBegins, ReadHead, ReadNode, Unlink, FreeNode, CountRead,
     CountDown, TestZero, NoTail, NoHead, Return
<1>3. ASSUME UNCHANGED <<head, tail, size, next, entry, taken>>
      PROVE  /\ Polled' = Polled /\ Left' = Left
             /\ Whole(Polled, offered)' = Whole(Polled, offered)
             /\ BossSerial' = BossSerial
             /\ \A v \in Workers : v # w => WorkerSerial(v)' = WorkerSerial(v)
  BY <1>1, <1>2, <1>3 DEF Polled, Left, Whole, Chain, Heads, Tails, At, BossSerial, WorkerSerial
<1>4. CASE Look(w)
  <2>1. UNCHANGED <<head, tail, size, next, entry, taken, failed>> /\ size # 0
        /\ pc[w] = "idle" /\ pc'[w] = "seen"
    BY <1>4 DEF Look, Types
  <2>2. Polled < offered
    <3>1. CASE bossPc # "idle"
      BY <3>1 DEF Serial, BossSerial
    <3>2. CASE \E v \in Workers : Polling(v)
      BY <3>2 DEF Serial, WorkerSerial
    <3>3. CASE bossPc = "idle" /\ \A v \in Workers : ~Polling(v)
      BY <2>1, <3>3 DEF Serial, Left
    <3>. QED  BY <3>1, <3>2, <3>3
  <2>3. \A v \in Workers : Polling(v)' <=> Polling(v)
    BY <1>2, <2>1 DEF Polling
  <2>4. \A v \in Workers : pc'[v] = "seen" => Justified(v)'
    BY <1>1, <1>3, <2>1, <2>2 DEF Justified
  <2>5. \A v \in Workers : Polling(v)' => bossPc' = "idle" /\ WorkerSerial(v)'
    BY <1>1, <1>3, <2>1, <2>3 DEF Serial, Polling
  <2>. QED  BY <1>1, <1>3, <2>1, <2>3, <2>4, <2>5 DEF Serial
<1>5. CASE PollBegins(w)
  <2>1. /\ UNCHANGED <<head, tail, size, next, entry, taken>> /\ pc[w] = "seen" /\ bossPc = "idle"
        /\ pc'[w] = (IF size = 0 THEN "idle" ELSE "head") /\ failed' = (size = 0)
        /\ \A v \in Workers : v # w => ~Polling(v)
    BY <1>5 DEF PollBegins, Types
  <2>2. size = Left /\ Whole(Polled, offered) /\ Justified(w)
    BY <2>1 DEF Serial, Polling
  <2>3. \A v \in Workers : v # w => ~Polling(v)'
    BY <1>2, <2>1 DEF Polling
  <2>4. \A v \in Workers : pc'[v] = "seen" => Justified(v)'
    BY <1>1, <1>2, <1>3, <2>1 DEF Justified, Serial
  <2>5. CASE size = 0
    <3>1. Polled > 0 /\ \E v \in Workers : v # w
      BY <2>2, <2>5 DEF Justified, Left
    <3>. QED  BY <1>1, <1>3, <2>1, <2>2, <2>3, <2>4, <2>5, <3>1 DEF Serial, Polling
  <2>6. CASE size # 0
    <3>1. Polled < offered
      BY <2>2, <2>6 DEF Serial, Left
    <3>2. WorkerSerial(w)'
      BY <1>1, <1>3, <2>1, <2>2, <2>6, <3>1 DEF WorkerSerial, Unlinks, Counts
    <3>3. ~failed' /\ Polling(w)'
      BY <2>1, <2>6 DEF Polling
    <3>. QED  BY <1>1, <1>3, <2>1, <2>3, <2>4, <3>2, <3>3 DEF Serial
  <2>. QED  BY <2>5, <2>6
<1>6. ASSUME Polling(w)
      PROVE  /\ bossPc = "idle" /\ WorkerSerial(w) /\ Local(w)
             /\ \A v \in Workers : v # w => ~Polling(v) /\ ~Polling(v)'
             /\ Polled < offered
  <2>1. \A v \in Workers : v # w => ~Polling(v)
    BY <1>6 DEF OnePoll
  <2>2. \A v \in Workers : v # w => ~Polling(v)'
    BY <1>2, <2>1 DEF Polling
  <2>. QED  BY <1>1, <1>6, <2>1, <2>2 DEF Serial, WorkerSerial, Types
<1>7. ASSUME Polling(w), Polling(w)', taken' = taken, ~failed', WorkerSerial(w)'
      PROVE  Serial'
  <2>1. Polled' = Polled
    BY <1>7 DEF Polled
  <2>2. \A v \in Workers : pc'[v] = "seen" => Justified(v)'
    BY <1>1, <1>2, <1>7, <2>1 DEF Justified, Serial, Polling
  <2>. QED  BY <1>1, <1>6, <1>7, <2>1, <2>2 DEF Serial
<1>8. CASE ReadHead(w)
  <2>1. UNCHANGED <<head, tail, size, next, entry, taken, failed>>
        /\ pc[w] = "head" /\ pc'[w] = "node" /\ node'[w] = head
    BY <1>8 DEF ReadHead, Types
  <2>2. Polling(w) /\ Polling(w)'
    BY <2>1 DEF Polling
  <2>3. WorkerSerial(w)'
    BY <1>1, <1>3, <1>6, <2>1, <2>2 DEF WorkerSerial, Unlinks, Counts
  <2>. QED  BY <1>1, <1>7, <2>1, <2>2, <2>3
<1>9. CASE ReadNode(w)
  <2>1. UNCHANGED <<head, tail, size, next, entry, taken, node>>
        /\ pc[w] = "node" /\ pc'[w] = "unlink"
    BY <1>9 DEF ReadNode, Types
  <2>2. Polling(w) /\ Polling(w)'
    BY <2>1 DEF Polling
  <2>3. node[w] = head /\ At(head, Polled + 1)
    BY <1>6, <2>1, <2>2 DEF WorkerSerial, Whole, Heads
  <2>4. IsLive(node[w])
    BY <2>3 DEF IsLive, At
  <2>5. got'[w] = Polled + 1 /\ old'[w] = next[node[w]] /\ ~failed'
    BY <1>9, <2>3, <2>4 DEF ReadNode, Types, At
  <2>6. WorkerSerial(w)'
    BY <1>1, <1>3, <1>6, <2>1, <2>2, <2>3, <2>5 DEF WorkerSerial, Unlinks, Counts
  <2>. QED  BY <1>7, <2>1, <2>2, <2>5, <2>6
<1>10. CASE Unlink(w)
  <2>1. UNCHANGED <<tail, size, next, entry, taken, node, got, failed>>
        /\ pc[w] = "unlink" /\ pc'[w] = "free" /\ head' = old[w]
    BY <1>10 DEF Unlink, Types
  <2>2. Polling(w) /\ Polling(w)'
    BY <2>1 DEF Polling
  <2>3. /\ node[w] = head /\ At(head, Polled + 1) /\ old[w] = next[head] /\ got[w] = Polled + 1
        /\ Chain(Polled, offered) /\ Tails(Polled, offered) /\ size = Left
    BY <1>6, <2>1, <2>2 DEF WorkerSerial, Whole, Heads, Unlinks
  <2>4. Polled' = Polled /\ Left' = Left
    BY <1>1, <2>1 DEF Polled, Left
  <2>5. At(node[w], Polled + 1)' /\ Chain(Polled, offered)' /\ Tails(Polled, offered)'
    BY <1>1, <2>1, <2>3, <2>4 DEF At, Chain, Tails
  <2>6. Heads(Polled + 1, offered)'
    BY <1>1, <1>6, <2>1, <2>2, <2>3, <2>4 DEF At, Chain, Heads
  <2>7. WorkerSerial(w)'
    BY <1>1, <1>6, <2>1, <2>2, <2>3, <2>4, <2>5, <2>6 DEF WorkerSerial, Unlinks, Counts
  <2>. QED  BY <1>1, <1>7, <2>1, <2>2, <2>7
<1>11. CASE FreeNode(w)
  <2>1. UNCHANGED <<head, tail, size, next, taken, node, got>>
        /\ pc[w] = "free" /\ pc'[w] = "size" /\ failed' = ~IsLive(node[w])
    BY <1>11 DEF FreeNode, Types
  <2>2. Polling(w) /\ Polling(w)'
    BY <2>1 DEF Polling
  <2>3. /\ At(node[w], Polled + 1) /\ Chain(Polled, offered) /\ Tails(Polled, offered)
        /\ Heads(Polled + 1, offered) /\ size = Left /\ got[w] = Polled + 1
    BY <1>6, <2>1, <2>2 DEF WorkerSerial, Unlinks
  <2>4. \A a \in Nodes : entry'[a] = IF a = node[w] THEN 0 ELSE entry[a]
    BY <1>11 DEF FreeNode, Types
  <2>5. Polled' = Polled /\ Left' = Left
    BY <1>1, <2>1 DEF Polled, Left
  <2>6. ~failed'
    <3>1. IsLive(node[w])
      BY <2>3 DEF IsLive, At
    <3>. QED  BY <2>1, <3>1
  <2>7. \A p, e : At(p, e) /\ e \in Polled + 2 .. offered => At(p, e)'
    BY <2>3, <2>4 DEF At
  <2>8. Chain(Polled + 1, offered)'
    <3>1. \A e \in Polled + 2 .. offered : \E a \in Nodes : entry'[a] = e
      <4> SUFFICES ASSUME NEW e \in Polled + 2 .. offered PROVE \E a \in Nodes : entry'[a] = e
        OBVIOUS
      <4>1. PICK a \in Nodes : entry[a] = e
        BY <2>3 DEF Chain
      <4>. QED  BY <2>3, <2>4, <4>1 DEF At
    <3>2. ASSUME NEW a \in Nodes, entry'[a] \in Polled + 2 .. offered
          PROVE  IF entry'[a] = offered THEN next'[a] = Null ELSE At(next[a], entry[a] + 1)'
      <4>1. entry'[a] = entry[a] /\ next'[a] = next[a]
        BY <2>1, <2>4, <3>2
      <4>2. IF entry[a] = offered THEN next[a] = Null ELSE At(next[a], entry[a] + 1)
        BY <2>3, <3>2, <4>1 DEF Chain
      <4>3. entry[a] # offered => At(next[a], entry[a] + 1)'
        BY <2>3, <2>4, <3>2, <4>1, <4>2 DEF At
      <4>. QED  BY <4>1, <4>2, <4>3
    <3>. QED  BY <1>1, <2>5, <3>1, <3>2 DEF Chain
  <2>9. Heads(Polled + 1, offered)'
    BY <1>1, <1>6, <2>1, <2>2, <2>3, <2>4, <2>5 DEF Heads, At
  <2>10. (Polled + 1 < offered => Tails(Polled + 1, offered))'
    BY <1>1, <1>6, <2>1, <2>2, <2>3, <2>4, <2>5 DEF Tails, At
  <2>11. WorkerSerial(w)'
    BY <1>1, <1>6, <2>1, <2>2, <2>3, <2>5, <2>8, <2>9, <2>10 DEF WorkerSerial, Unlinks, Counts
  <2>. QED  BY <1>7, <2>1, <2>2, <2>6, <2>11
<1>12. ASSUME UNCHANGED <<head, tail, next, entry, taken>>
       PROVE  /\ Polled' = Polled /\ Left' = Left
              /\ Heads(Polled + 1, offered)' = Heads(Polled + 1, offered)
              /\ Tails(Polled + 1, offered)' = Tails(Polled + 1, offered)
              /\ Chain(Polled + 1, offered)' = Chain(Polled + 1, offered)
  BY <1>1, <1>12 DEF Polled, Left, Chain, Heads, Tails, At
<1>13. CASE CountRead(w)
  <2>1. UNCHANGED <<head, tail, size, next, entry, taken, got, failed>>
        /\ pc[w] = "size" /\ pc'[w] = "count" /\ old'[w] = size
    BY <1>13 DEF CountRead, Types
  <2>2. Polling(w) /\ Polling(w)'
    BY <2>1 DEF Polling
  <2>3. WorkerSerial(w)'
    BY <1>1, <1>6, <1>12, <2>1, <2>2 DEF WorkerSerial, Unlinks, Counts
  <2>. QED  BY <1>1, <1>7, <2>1, <2>2, <2>3
<1>14. CASE CountDown(w)
  <2>1. UNCHANGED <<head, tail, next, entry, taken, got, failed>>
        /\ pc[w] = "count" /\ pc'[w] = "zero" /\ size' = (old[w] + SizeModulus - 1) % SizeModulus
    BY <1>14 DEF CountDown, Types
  <2>2. Polling(w) /\ Polling(w)'
    BY <2>1 DEF Polling
  <2>3. old[w] = Left /\ Left \in 1 .. SizeModulus - 1
    <3>1. old[w] = Left
      BY <1>6, <2>1, <2>2 DEF WorkerSerial
    <3>2. offered \in 0 .. MaxOffers /\ Polled \in Nat
      BY DEF Types
    <3>. QED  BY <1>6, <2>2, <3>1, <3>2 DEF Left
  <2>4. size' = Left - 1
    BY <2>1, <2>3, MinusOne
  <2>5. WorkerSerial(w)'
    BY <1>1, <1>6, <1>12, <2>1, <2>2, <2>4 DEF WorkerSerial, Unlinks, Counts
  <2>. QED  BY <1>1, <1>7, <2>1, <2>2, <2>5
<1>15. CASE TestZero(w)
  <2>1. UNCHANGED <<head, tail, size, next, entry, taken, got, failed>>
        /\ pc[w] = "zero" /\ pc'[w] = IF size = 0 THEN "noTail" ELSE "return"
    BY <1>15 DEF TestZero, Types
  <2>2. Polling(w) /\ Polling(w)'
    BY <2>1 DEF Polling
  <2>3. size = Left - 1 /\ (Polled + 1 < offered => Tails(Polled + 1, offered))
    BY <1>6, <2>1, <2>2 DEF WorkerSerial, Counts
  <2>4. size = 0 <=> Polled + 1 = offered
    BY <2>3 DEF Left
  <2>5. WorkerSerial(w)'
    BY <1>1, <1>6, <1>12, <2>1, <2>2, <2>3, <2>4 DEF WorkerSerial, Unlinks, Counts
  <2>. QED  BY <1>1, <1>7, <2>1, <2>2, <2>5
<1>16. CASE NoTail(w)
  <2>1. UNCHANGED <<head, size, next, entry, taken, got, failed>>
        /\ pc[w] = "noTail" /\ pc'[w] = "noHead" /\ tail' = Null
    BY <1>16 DEF NoTail, Types
  <2>2. Polling(w) /\ Polling(w)'
    BY <2>1 DEF Polling
  <2>3. Polled' = Polled /\ Left' = Left /\ Polled + 1 = offered
    BY <1>1, <1>6, <2>1, <2>2 DEF Polled, Left, WorkerSerial
  <2>4. Heads(Polled + 1, offered)' /\ Chain(Polled + 1, offered)' /\ Tails(Polled + 1, offered)'
    BY <1>1, <1>6, <2>1, <2>2, <2>3 DEF WorkerSerial, Counts, Heads, Chain, Tails, At
  <2>5. WorkerSerial(w)'
    BY <1>1, <1>6, <2>1, <2>2, <2>3, <2>4 DEF WorkerSerial, Unlinks, Counts
  <2>. QED  BY <1>1, <1>7, <2>1, <2>2, <2>5
<1>17. CASE NoHead(w)
  <2>1. UNCHANGED <<tail, size, next, entry, taken, got, failed>>
        /\ pc[w] = "noHead" /\ pc'[w] = "return" /\ head' = Null
    BY <1>17 DEF NoHead, Types
  <2>2. Polling(w) /\ Polling(w)'
    BY <2>1 DEF Polling
  <2>3. Polled' = Polled /\ Left' = Left /\ Polled + 1 = offered
    BY <1>1, <1>6, <2>1, <2>2 DEF Polled, Left, WorkerSerial
  <2>4. Heads(Polled + 1, offered)' /\ Chain(Polled + 1, offered)' /\ Tails(Polled + 1, offered)'
    BY <1>1, <1>6, <2>1, <2>2, <2>3 DEF WorkerSerial, Counts, Heads, Chain, Tails, At
  <2>5. WorkerSerial(w)'
    BY <1>1, <1>6, <2>1, <2>2, <2>3, <2>4 DEF WorkerSerial, Unlinks, Counts
  <2>. QED  BY <1>1, <1>7, <2>1, <2>2, <2>5
<1>18. CASE Return(w)
  <2>1. UNCHANGED <<head, tail, size, next, entry, failed>> /\ taken' = Append(taken, got[w])
        /\ pc[w] = "return" /\ pc'[w] = "idle" /\ taken \in Seq(1 .. MaxOffers)
    BY <1>18 DEF Return, Types
  <2>2. Polling(w) /\ ~Polling(w)'
    BY <2>1 DEF Polling
  <2>3. got[w] = Polled + 1 /\ size = Left - 1 /\ got[w] \in 1 .. MaxOffers
        /\ Chain(Polled + 1, offered) /\ Heads(Polled + 1, offered) /\ Tails(Polled + 1, offered)
    BY <1>6, <2>1, <2>2 DEF WorkerSerial, Counts, Local
  <2>4. /\ Polled' = Polled + 1 /\ Left' = Left - 1
        /\ \A k \in 1 .. Polled + 1 : taken'[k] = IF k = Polled + 1 THEN got[w] ELSE taken[k]
    BY <1>1, <2>1, <2>3 DEF Polled, Left
  <2>5. \A k \in 1 .. Polled' : taken'[k] = k
    BY <2>3, <2>4 DEF Serial
  <2>6. Whole(Polled, offered)'
    BY <1>1, <2>1, <2>3, <2>4 DEF Whole, Chain, Heads, Tails, At
  <2>7. \A v \in Workers : ~Polling(v)'
    BY <1>6, <2>2
  <2>8. \A v \in Workers : pc'[v] = "seen" => Justified(v)'
    BY <1>1, <2>1, <2>4 DEF Justified
  <2>. QED  BY <1>1, <1>6, <2>1, <2>2, <2>3, <2>4, <2>5, <2>6, <2>7, <2>8 DEF Serial
<1>. QED
  BY <1>4, <1>5, <1>8, <1>9, <1>10, <1>11, <1>13, <1>14, <1>15, <1>16, <1>17, <1>18 DEF Poll

LEMMA AlwaysSerial == Spec => []SerialInv
<1>1. Init => SerialInv
  <2> SUFFICES ASSUME Init PROVE SerialInv
    OBVIOUS
  <2>1. Polled = 0 /\ offered = 0 /\ Left = 0
    <3>1. Len(<<>>) = 0 /\ taken = <<>> /\ offered = 0
      BY EmptySeq DEF Init
    <3>2. Polled = 0
      BY <3>1, Zenon DEF Polled
    <3>. QED  BY <3>1, <3>2 DEF Left
  <2>2. bossPc = "idle" /\ size = 0 /\ ~failed /\ \A w \in Workers : pc[w] = "idle"
    BY DEF Init
  <2>3. Whole(Polled, offered)
    <3>1. head = Null /\ tail = Null /\ 1 .. 0 = {}
      BY DEF Init
    <3>. QED  BY <2>1, <3>1 DEF Whole, Chain, Heads, Tails
  <2>4. \A w \in Workers : ~Polling(w) /\ pc[w] # "seen"
    BY <2>2 DEF Polling
  <2>. QED  BY <2>1, <2>2, <2>3, <2>4 DEF SerialInv, Serial
<1>2. Types /\ Types' /\ OrderInv /\ SerialInv /\ [Next]_vars => SerialInv'
  <2> SUFFICES ASSUME Types, Types', OrderInv, SerialInv, [Next]_vars PROVE SerialInv'
    OBVIOUS
  <2>1. CASE UNCHANGED vars
    BY <2>1 DEF vars, list, boss, workers, met, SerialInv, Serial, Polling, BossSerial,
       WorkerSerial, Justified, Whole, Chain, Heads, Tails, At, Polled, Left
  <2>2. CASE Offer
    <3>1. pollsMet' = pollsMet /\ (~offerMet' => ~offerMet)
      <4>1. CASE Allocate
        BY <4>1 DEF Allocate
      <4>2. CASE \/ TestHead \/ TestTail \/ FirstTail \/ FirstHead \/ ReadLast \/ Link
                 \/ NewTail \/ ReadSize \/ Count
        BY <4>2 DEF TestHead, TestTail, FirstTail, FirstHead, ReadLast, Link, NewTail, ReadSize,
           Count, met
      <4>. QED  BY <2>2, <4>1, <4>2 DEF Offer
    <3> SUFFICES ASSUME ~offerMet', ~pollsMet' PROVE Serial'
      BY DEF SerialInv
    <3>2. Serial /\ Entries
      BY <3>1 DEF OrderInv, SerialInv
    <3>. QED  BY <2>2, <3>2, OfferSerial
  <2>3. ASSUME NEW w \in Workers, Look(w) \/ Poll(w) PROVE SerialInv'
    <3>1. (~pollsMet' => ~pollsMet) /\ (~offerMet' => ~offerMet)
      <4>1. CASE PollBegins(w)
        BY <4>1 DEF PollBegins
      <4>2. CASE ~PollBegins(w)
        BY <2>3, <4>2 DEF Look, Poll, ReadHead, ReadNode, Unlink, FreeNode, CountRead,
           CountDown, TestZero, NoTail, NoHead, Return, met
      <4>. QED  BY <4>1, <4>2
    <3> SUFFICES ASSUME ~offerMet', ~pollsMet' PROVE Serial'
      BY DEF SerialInv
    <3>2. Serial /\ Entries /\ OnePoll
      BY <3>1 DEF OrderInv, Ordered, SerialInv
    <3>. QED  BY <2>3, <3>2, PollSerial
  <2>. QED  BY <2>1, <2>2, <2>3 DEF Next
<1>. QED  BY <1>1, <1>2, AlwaysTyped, AlwaysOrdered, PTL DEF Spec

LEMMA WholeIsALine ==
  ASSUME Types, Entries, Polled <= offered, Whole(Polled, offered)
  PROVE  \E nodes \in [1 .. Left -> Nodes] : Holds(nodes, [k \in 1 .. Left |-> Polled + k])
<1> DEFINE line == [k \in 1 .. Left |-> CHOOSE a \in Nodes : entry[a] = Polled + k]
           entries == [k \in 1 .. Left |-> Polled + k]
<1> USE PolledNumber
<1>1. Left \in Nat /\ Left = offered - Polled
  BY DEF Left
<1>2. ASSUME NEW k \in 1 .. Left PROVE line[k] \in Nodes /\ entry[line[k]] = Polled + k
  <2>1. Polled + k \in Polled + 1 .. offered
    BY <1>1
  <2>2. \E a \in Nodes : entry[a] = Polled + k
    BY <2>1 DEF Whole, Chain
  <2>. QED  BY <2>2
<1>3. line \in [1 .. Left -> Nodes] /\ line \in Seq(Nodes)
  <2>1. line \in [1 .. Left -> Nodes]
    BY <1>2
  <2>. QED  BY <1>1, <2>1, SeqDef
<1>4. Len(line) = Left /\ DOMAIN line = 1 .. Left
  BY <1>1, <1>3, LenProperties
<1>5. ASSUME NEW p, NEW k \in 1 .. Left, At(p, Polled + k) PROVE p = line[k]
  BY <1>1, <1>2, <1>5 DEF At, Entries
<1>6. line = <<>> <=> Left = 0
  <2> HIDE DEF line
  <2>. QED  BY <1>1, <1>3, <1>4, EmptySeq
<1>7. (Polled = offered) <=> (Left = 0)
  BY <1>1
<1>8. head = IF line = <<>> THEN Null ELSE line[1]
  BY <1>1, <1>5, <1>6, <1>7 DEF Whole, Heads
<1>9. tail = IF line = <<>> THEN Null ELSE line[Len(line)]
  <2>1. Left # 0 => At(tail, Polled + Left) /\ Left \in 1 .. Left
    BY <1>1, <1>7 DEF Whole, Tails
  <2>. QED  BY <1>4, <1>5, <1>6, <1>7, <2>1 DEF Whole, Tails
<1>10. ASSUME NEW k \in 1 .. Left
       PROVE  /\ next[line[k]] = IF k = Left THEN Null ELSE line[k + 1]
              /\ entry[line[k]] = entries[k]
  <2>1. line[k] \in Nodes /\ entry[line[k]] = Polled + k /\ Polled + k \in Polled + 1 .. offered
        /\ (Polled + k = offered <=> k = Left)
    BY <1>1, <1>2
  <2>2. IF k = Left THEN next[line[k]] = Null ELSE At(next[line[k]], Polled + k + 1)
    BY <2>1 DEF Whole, Chain
  <2>3. k # Left => k + 1 \in 1 .. Left /\ Polled + k + 1 = Polled + (k + 1)
    BY <1>1
  <2>4. k # Left => next[line[k]] = line[k + 1]
    BY <1>5, <2>2, <2>3
  <2>. QED  BY <2>1, <2>2, <2>4
<1>11. Holds(line, entries)
  <2> HIDE DEF line, entries
  <2>. QED  BY <1>4, <1>8, <1>9, <1>10 DEF Holds
<1> HIDE DEF line
<1>. QED  BY <1>3, <1>11

LEMMA TwoOfThem ==
  ASSUME NEW v \in Workers, NEW w \in Workers, v # w PROVE Cardinality(Workers) > 1
<1>1. IsFiniteSet({v}) /\ Cardinality({v}) = 1
  BY FS_Singleton
<1>2. {v, w} = {v} \cup {w} /\ {v, w} \in SUBSET Workers
  OBVIOUS
<1>3. Cardinality({v, w}) = 2
  BY <1>1, <1>2, FS_AddElement
<1>4. IsFiniteSet(Workers) /\ Cardinality(Workers) \in Nat
  BY QueueAssumption, FS_CardinalityType DEF QueueAssumption
<1>. QED  BY <1>2, <1>3, <1>4, FS_Subset

\* As long as no two calls overlap, the list is the queue it is meant to be: what is left
\* stands in it in the order of the offers and is counted, and the process can only fail
\* because another worker polled between a look and a poll (New/Server/Server/s.c:93,
\* 316-318, queue.h).
THEOREM SerialIsFifo == Spec => []SerialCallsAreFifo
<1>1. ASSUME Types, OrderInv, SerialInv PROVE SerialCallsAreFifo
  <2> SUFFICES ASSUME ~offerMet, ~pollsMet
               PROVE  /\ taken = [k \in 1 .. Polled |-> k]
                      /\ failed => Cardinality(Workers) > 1 /\ taken # <<>>
                      /\ bossPc = "idle" /\ (\A w \in Workers : ~Polling(w)) =>
                           /\ size = Left
                           /\ \E nodes \in [1 .. Left -> Nodes] :
                                Holds(nodes, [k \in 1 .. Left |-> Polled + k])
    BY DEF SerialCallsAreFifo, Polled, Left
  <2>1. Serial /\ Entries
    BY <1>1 DEF SerialInv, OrderInv
  <2>2. taken = [k \in 1 .. Polled |-> k]
    <3>1. taken \in [1 .. Polled -> 1 .. MaxOffers]
      BY <1>1, LenProperties DEF Types, Polled
    <3>. QED  BY <2>1, <3>1 DEF Serial
  <2>3. failed => Cardinality(Workers) > 1 /\ taken # <<>>
    <3> SUFFICES ASSUME failed PROVE Cardinality(Workers) > 1 /\ taken # <<>>
      OBVIOUS
    <3>1. taken # <<>>
      BY <2>1 DEF Serial, Polled
    <3>. QED  BY <2>1, <3>1, TwoOfThem DEF Serial
  <2>4. bossPc = "idle" /\ (\A w \in Workers : ~Polling(w)) =>
          /\ size = Left
          /\ \E nodes \in [1 .. Left -> Nodes] :
               Holds(nodes, [k \in 1 .. Left |-> Polled + k])
    BY <1>1, <2>1, WholeIsALine DEF Serial
  <2>. QED  BY <2>2, <2>3, <2>4
<1>. QED  BY <1>1, AlwaysTyped, AlwaysOrdered, AlwaysSerial, PTL
=============================================================================
