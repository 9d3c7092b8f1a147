------------------------ MODULE RoundRobinPoolProofs ------------------------
(***************************************************************************)
(* Theorems about RoundRobinPool, for any number of workers, connections   *)
(* and descriptors.                                                        *)
(***************************************************************************)
EXTENDS RoundRobinPool, TLAPS, WellFoundedInduction

\* The operating system's lowest free descriptor is free.
LEMMA LowestIsFree ==
  ASSUME FreeFds # {}
  PROVE  Lowest(FreeFds) \in Fds /\ open[Lowest(FreeFds)] = Free
<1> DEFINE R == {p \in Nat \X Nat : p[1] < p[2]}
<1>1. PICK d \in FreeFds : \A e \in FreeFds : <<e, d>> \notin R
  <2>1. FreeFds \subseteq Nat
    BY DEF FreeFds, Fds
  <2>2. IsWellFoundedOn(R, Nat)
    BY NatLessThanWellFounded DEF OpToRel
  <2>. HIDE DEF R
  <2>. QED  BY <2>1, <2>2, WFMin
<1>2. ASSUME NEW e \in FreeFds PROVE d <= e
  <2>1. d \in Nat /\ e \in Nat
    BY DEF FreeFds, Fds
  <2>2. ~ (e < d)
    BY <1>1, <2>1
  <2>. QED  BY <2>1, <2>2
<1>3. Lowest(FreeFds) \in FreeFds
  BY <1>2 DEF Lowest
<1>. QED  BY <1>3 DEF FreeFds

\* What accept does to the table of descriptors, and what opening a file does to it.
LEMMA AcceptOpens ==
  ASSUME Accept
  PROVE  \E d \in Fds : /\ open[d] = Free /\ new_sd' = d
                        /\ open' = [open EXCEPT ![d] = accepted + 1]
  BY LowestIsFree DEF Accept

LEMMA FileOpens ==
  ASSUME NEW w \in Workers, ReplyFile(w)
  PROVE  \E d \in Fds : open[d] = Free /\ open' = [open EXCEPT ![d] = File]
  BY LowestIsFree DEF ReplyFile

-----------------------------------------------------------------------------
(* Types.                                                                  *)

\* Where main() never goes back to the first worker, it is at its threadCount-th connection;
\* descriptors are open on accepted connections, and who replies has read an accepted one.
Count ==
  /\ ~wraps => accepted = IF mainPc = "accept" THEN threadCount ELSE threadCount + 1
  /\ \A d \in Fds : open[d] <= accepted
  /\ \A w \in Workers : workerPc[w] \in {"header", "reply"} => request[w] \in 1 .. accepted

TypeInv == TypeOK /\ Count

LEMMA InitType == Init => TypeInv
<1> USE RoundRobinAssumption DEF RoundRobinAssumption, Init
<1>1. Init => TypeOK
  <2>1. Init => threadCount \in (IF wraps THEN Workers ELSE 0 .. MaxConn)
    BY DEF Workers
  <2>2. Init => open \in [Fds -> {File, Free} \cup Conns] /\ handled \subseteq Conns \X Conns
    OBVIOUS
  <2>3. Init => unread \cup shut \subseteq 1 .. accepted
    OBVIOUS
  <2>4. Init => workerPc \in [Workers -> {"start", "waiting", "woken", "read", "header", "reply",
                                         "shutdown", "close", "ended"}]
    OBVIOUS
  <2>5. Init => /\ socketId \in [Workers -> 0 .. MaxFd] /\ sd \in [Workers -> 0 .. MaxFd]
                /\ request \in [Workers -> 0 .. MaxConn]
    BY DEF Uninit
  <2>6. Init => /\ mainPc \in {"accept", "assign", "signal"} /\ new_sd \in 0 .. MaxFd
                /\ accepted \in 0 .. MaxConn /\ spurious \in 0 .. MaxSpurious
    OBVIOUS
  <2>7. Init => wraps \in BOOLEAN /\ alive \in BOOLEAN /\ strayed \in BOOLEAN
    OBVIOUS
  <2>. HIDE DEF Init
  <2>. QED  BY <2>1, <2>2, <2>3, <2>4, <2>5, <2>6, <2>7 DEF TypeOK
<1>2. Init => Count
  BY DEF Count, Fds, Free
<1>. QED  BY <1>1, <1>2 DEF TypeInv

LEMMA MainType == ASSUME TypeInv, Main PROVE TypeInv'
<1> USE RoundRobinAssumption DEF RoundRobinAssumption, TypeInv, Main
<1>1. CASE Accept
  <2>1. accepted' = accepted + 1 /\ accepted' \in 1 .. MaxConn
    BY <1>1 DEF Accept, TypeOK
  <2>2. PICK d \in Fds : open' = [open EXCEPT ![d] = accepted'] /\ new_sd' = d
    BY <1>1, <2>1, AcceptOpens
  <2>3. open' \in [Fds -> {File, Free} \cup Conns]
    BY <2>1, <2>2 DEF TypeOK, Conns
  <2>4. \A e \in Fds : open'[e] <= accepted'
    <3>1. ASSUME NEW e \in Fds PROVE open'[e] <= accepted'
      <4>1. open[e] <= accepted /\ open[e] \in Int /\ accepted \in Int
        BY DEF TypeOK, Count, File, Free, Conns
      <4>. QED  BY <4>1, <2>1, <2>2 DEF TypeOK
    <3>. QED  BY <3>1
  <2>5. unread' \cup shut' \subseteq 1 .. accepted'
    BY <1>1, <2>1 DEF Accept, TypeOK
  <2>6. TypeOK'
    BY <1>1, <2>1, <2>2, <2>3, <2>5 DEF Accept, TypeOK, workers, Fds
  <2>7. Count'
    BY <1>1, <2>1, <2>4 DEF Accept, TypeOK, Count, workers
  <2>. QED  BY <2>6, <2>7
<1>2. CASE AcceptFails
  BY <1>2 DEF AcceptFails, main, workers, net, TypeOK, Count
<1>3. CASE Assign
  <2>1. socketId' \in [Workers -> 0 .. MaxFd] /\ alive' \in BOOLEAN
    BY <1>3 DEF Assign, TypeOK
  <2>. QED  BY <1>3, <2>1 DEF Assign, workers, net, TypeOK, Count
<1>4. CASE Signal
  <2>1. workerPc' \in [Workers -> {"start", "waiting", "woken", "read", "header", "reply",
                                   "shutdown", "close", "ended"}]
    BY <1>4 DEF Signal, TypeOK
  <2>2. \A w \in Workers : workerPc'[w] \in {"header", "reply"} => workerPc'[w] = workerPc[w]
    BY <1>4 DEF Signal
  <2>3. threadCount' \in (IF wraps THEN Workers ELSE 0 .. MaxConn)
    BY <1>4 DEF Signal, TypeOK, Count, Workers
  <2>4. alive' \in BOOLEAN
    BY <1>4 DEF Signal
  <2>5. TypeOK'
    BY <1>4, <2>1, <2>3, <2>4 DEF Signal, net, TypeOK
  <2>6. Count'
    BY <1>4, <2>2 DEF Signal, net, Count, TypeOK
  <2>. QED  BY <2>5, <2>6
<1>. QED  BY <1>1, <1>2, <1>3, <1>4

LEMMA WorkerType == ASSUME TypeInv, NEW w \in Workers, Worker(w) PROVE TypeInv'
<1> USE RoundRobinAssumption DEF RoundRobinAssumption, TypeInv, Worker, main, net, Goto
<1>1. CASE CondWait(w)
  BY <1>1 DEF CondWait, TypeOK, Count
<1>2. CASE TakeRequest(w)
  BY <1>2 DEF TakeRequest, TypeOK, Count
<1>3. CASE ReadRequest(w)
  <2>1. Begun(w) \in 1 .. accepted
    BY <1>3 DEF ReadRequest, Begun, TypeOK, Count
  <2>2. TypeOK'
    BY <1>3, <2>1 DEF ReadRequest, TypeOK
  <2>3. Count'
    BY <1>3, <2>1 DEF ReadRequest, TypeOK, Count
  <2>. QED  BY <2>2, <2>3
<1>9. CASE ReadPart(w)
  <2>1. Peer(w) \in 1 .. accepted
    BY <1>9 DEF ReadPart, TypeOK
  <2>2. TypeOK'
    BY <1>9, <2>1 DEF ReadPart, TypeOK
  <2>3. Count'
    BY <1>9, <2>1 DEF ReadPart, TypeOK, Count
  <2>. QED  BY <2>2, <2>3
<1>4. CASE ReadNothing(w)
  BY <1>4 DEF ReadNothing, TypeOK, Count
<1>5. CASE ReplyFile(w) \/ ReplyError(w)
  <2>1. request[w] \in Conns
    BY <1>5 DEF ReplyFile, ReplyError, TypeOK, Count, Conns
  <2>2. handled' \subseteq Conns \X Conns /\ alive' \in BOOLEAN
    <3>1. Answer(w)
      BY <1>5 DEF ReplyFile, ReplyError
    <3>2. handled' \subseteq handled \cup {<<request[w], Peer(w)>>} /\ (Peer(w) \in Conns \/ handled' = handled)
      BY <3>1 DEF Answer, AnswerTo
    <3>3. alive' \in BOOLEAN
      BY <3>1 DEF Answer
    <3>. QED  BY <2>1, <3>2, <3>3 DEF TypeOK
  <2>3. open' = open \/ \E d \in Fds : open' = [open EXCEPT ![d] = File]
    BY <1>5, FileOpens DEF ReplyError
  <2>4. open' \in [Fds -> {File, Free} \cup Conns]
    BY <2>3 DEF TypeOK
  <2>5. \A d \in Fds : open'[d] <= accepted
    <3>1. File <= accepted
      BY DEF File, TypeOK
    <3>. QED  BY <2>3, <3>1 DEF TypeOK, Count
  <2>6. /\ workerPc' = [workerPc EXCEPT ![w] = "shutdown"]
        /\ UNCHANGED <<mainPc, new_sd, threadCount, socketId, sd, request, accepted, unread, shut>>
    BY <1>5 DEF ReplyFile, ReplyError
  <2>7. TypeOK'
    BY <2>2, <2>4, <2>6 DEF TypeOK
  <2>8. Count'
    BY <2>5, <2>6 DEF Count, TypeOK
  <2>. QED  BY <2>7, <2>8
<1>6. CASE NoReply(w)
  BY <1>6 DEF NoReply, TypeOK, Count
<1>7. CASE Shutdown(w)
  <2>1. shut' \subseteq 1 .. accepted
    <3>1. Peer(w) \in Conns => Peer(w) \in 1 .. accepted
      BY DEF Peer, Fds, Conns, Free, TypeOK, Count
    <3>. QED  BY <1>7, <3>1 DEF Shutdown, TypeOK
  <2>. QED  BY <1>7, <2>1 DEF Shutdown, TypeOK, Count
<1>8. CASE Close(w)
  <2>1. open' \in [Fds -> {File, Free} \cup Conns]
    BY <1>8 DEF Close, TypeOK
  <2>2. \A d \in Fds : open'[d] <= accepted
    <3>1. Free <= accepted
      BY DEF Free, TypeOK
    <3>. QED  BY <1>8, <3>1 DEF Close, TypeOK, Count
  <2>3. workerPc' \in [Workers -> {"start", "waiting", "woken", "read", "header", "reply",
                                   "shutdown", "close", "ended"}]
    BY <1>8 DEF Close, TypeOK
  <2>4. TypeOK'
    BY <1>8, <2>1, <2>3 DEF Close, TypeOK
  <2>5. Count'
    BY <1>8, <2>2 DEF Close, TypeOK, Count
  <2>. QED  BY <2>4, <2>5
<1>. QED  BY <1>1, <1>2, <1>3, <1>4, <1>5, <1>6, <1>7, <1>8, <1>9

LEMMA SpuriousType == ASSUME TypeInv, NEW w \in Workers, SpuriousWake(w), UNCHANGED wraps PROVE TypeInv'
<1>1. strayed' \in BOOLEAN
  BY DEF SpuriousWake
<1>2. spurious' \in 0 .. MaxSpurious
  BY RoundRobinAssumption DEF SpuriousWake, TypeInv, TypeOK, RoundRobinAssumption
<1>3. TypeOK'
  BY <1>1, <1>2 DEF SpuriousWake, Goto, main, net, TypeInv, TypeOK
<1>4. Count'
  BY DEF SpuriousWake, Goto, main, net, TypeInv, TypeOK, Count
<1>. QED  BY <1>3, <1>4 DEF TypeInv

LEMMA NextType == TypeInv /\ [Next]_vars => TypeInv'
<1> SUFFICES ASSUME TypeInv, [Next]_vars PROVE TypeInv'
  OBVIOUS
<1>1. CASE UNCHANGED vars
  BY <1>1 DEF vars, main, workers, net, TypeInv, TypeOK, Count
<1>2. CASE Next
  BY <1>2, MainType, WorkerType, SpuriousType DEF Next
<1>. QED  BY <1>1, <1>2

LEMMA AlwaysTyped == Spec => []TypeInv
  BY InitType, NextType, PTL DEF Spec

\* Every variable keeps its type; in particular no descriptor is open on a connection that
\* main() has not accepted (s.c:89-133, ps.c:88-127).
THEOREM Typed == Spec => []TypeOK
<1>1. TypeInv => TypeOK
  BY DEF TypeInv
<1>. QED  BY <1>1, AlwaysTyped, PTL

-----------------------------------------------------------------------------
(* Whom the answers go to.                                                 *)

\* Who reads a header on or replies is at a client no older than the one it began with.
Order == \A w \in Workers :
  workerPc[w] \in {"header", "reply"} /\ Peer(w) \in Conns => request[w] <= Peer(w)

OrderInv == TypeInv /\ Order /\ AnswersNeverGoBack

\* A step that makes nobody reply, and opens at most a file or a new connection,
\* leaves the order as it was.
LEMMA OrderKept ==
  ASSUME OrderInv, TypeInv', UNCHANGED handled,
         \A w \in Workers : workerPc'[w] \in {"header", "reply"} =>
           workerPc[w] \in {"header", "reply"} /\ sd'[w] = sd[w] /\ request'[w] = request[w],
         \A d \in Fds : open'[d] \in {open[d], File, Free, accepted + 1}
  PROVE  OrderInv'
<1>1. ASSUME NEW w \in Workers, workerPc'[w] \in {"header", "reply"}, Peer(w)' \in Conns
      PROVE  request'[w] <= Peer(w)'
  <2>1. workerPc[w] \in {"header", "reply"} /\ request'[w] = request[w] /\ request[w] \in 1 .. accepted
    BY <1>1 DEF OrderInv, TypeInv, Count
  <2>2. sd[w] \in Fds /\ Peer(w) = open[sd[w]] /\ Peer(w)' = open'[sd[w]]
    BY <1>1 DEF Peer, Conns, Free
  <2>3. Peer(w)' = Peer(w) \/ Peer(w)' = accepted + 1
    BY <1>1, <2>2 DEF Conns, File, Free
  <2>4. accepted \in Nat
    BY DEF OrderInv, TypeInv, TypeOK
  <2>. QED  BY <1>1, <2>1, <2>3, <2>4 DEF OrderInv, Order
<1>. QED  BY <1>1 DEF OrderInv, Order, AnswersNeverGoBack

LEMMA MainOrder == ASSUME OrderInv, Main PROVE OrderInv'
<1>1. TypeInv'
  BY MainType DEF OrderInv
<1>2. CASE Accept
  <2>1. \A d \in Fds : open'[d] \in {open[d], accepted + 1}
    BY <1>2, AcceptOpens DEF OrderInv, TypeInv, TypeOK
  <2>. QED  BY <1>1, <1>2, <2>1, OrderKept DEF Accept, workers
<1>3. CASE AcceptFails
  BY <1>1, <1>3, OrderKept DEF AcceptFails, workers, net
<1>4. CASE Assign
  BY <1>1, <1>4, OrderKept DEF Assign, workers, net
<1>5. CASE Signal
  BY <1>1, <1>5, OrderKept DEF Signal, net
<1>. QED  BY <1>2, <1>3, <1>4, <1>5 DEF Main

LEMMA WorkerOrder == ASSUME OrderInv, NEW w \in Workers, Worker(w) PROVE OrderInv'
<1>1. TypeInv'
  BY WorkerType DEF OrderInv
<1> USE DEF Goto, main, net
<1>2. CASE CondWait(w)
  BY <1>1, <1>2, OrderKept DEF CondWait, OrderInv, TypeInv, TypeOK
<1>3. CASE TakeRequest(w)
  BY <1>1, <1>3, OrderKept DEF TakeRequest, OrderInv, TypeInv, TypeOK
<1>4. CASE ReadRequest(w)
  <2>1. Peer(w) \in Conns
    BY <1>4, RoundRobinAssumption
    DEF ReadRequest, Conns, OrderInv, TypeInv, TypeOK, RoundRobinAssumption
  <2>5. Peer(w)' = Peer(w) /\ request'[w] = Begun(w) /\ Begun(w) \in Nat
    <3>1. Begun(w) \in Nat
      BY <2>1 DEF Begun, Conns, OrderInv, TypeInv, TypeOK
    <3>. QED  BY <1>4, <3>1 DEF ReadRequest, Peer, OrderInv, TypeInv, TypeOK
  <2>2. ASSUME NEW v \in Workers, v # w
        PROVE  workerPc'[v] = workerPc[v] /\ request'[v] = request[v] /\ Peer(v)' = Peer(v)
    BY <1>4, <2>2 DEF ReadRequest, Peer, OrderInv, TypeInv, TypeOK
  <2>3. Begun(w) <= Peer(w)
    BY <1>4, <2>1 DEF ReadRequest, Begun, OrderInv, Order, Conns
  <2>4. Order'
    BY <2>1, <2>2, <2>3, <2>5 DEF OrderInv, Order
  <2>. QED  BY <1>1, <1>4, <2>4 DEF ReadRequest, OrderInv, AnswersNeverGoBack
<1>10. CASE ReadPart(w)
  <2>1. Peer(w) \in Int /\ Peer(w)' = Peer(w) /\ request'[w] = Peer(w)
    BY <1>10 DEF ReadPart, Peer, OrderInv, TypeInv, TypeOK
  <2>2. ASSUME NEW v \in Workers, v # w
        PROVE  workerPc'[v] = workerPc[v] /\ request'[v] = request[v] /\ Peer(v)' = Peer(v)
    BY <1>10, <2>2 DEF ReadPart, Peer, OrderInv, TypeInv, TypeOK
  <2>3. Order'
    BY <2>1, <2>2 DEF OrderInv, Order
  <2>. QED  BY <1>1, <1>10, <2>3 DEF ReadPart, OrderInv, AnswersNeverGoBack
<1>5. CASE ReadNothing(w)
  BY <1>1, <1>5, OrderKept DEF ReadNothing, OrderInv, TypeInv, TypeOK
<1>6. CASE ReplyFile(w) \/ ReplyError(w)
  <2>1. Answer(w) /\ workerPc[w] = "reply"
    BY <1>6 DEF ReplyFile, ReplyError
  <2>2. AnswersNeverGoBack'
    <3>1. \A p \in handled' : p \in handled \/ (Peer(w) \in Conns /\ p = <<request[w], Peer(w)>>)
      BY <2>1 DEF Answer, AnswerTo
    <3>. QED  BY <2>1, <3>1 DEF AnswersNeverGoBack, OrderInv, Order
  <2>3. open' = open \/ \E d \in Fds : open' = [open EXCEPT ![d] = File]
    BY <1>6, FileOpens DEF ReplyError
  <2>4. \A d \in Fds : open'[d] \in {open[d], File}
    BY <2>3 DEF OrderInv, TypeInv, TypeOK
  <2>5. /\ workerPc' = [workerPc EXCEPT ![w] = "shutdown"]
        /\ UNCHANGED <<sd, request>>
    BY <1>6 DEF ReplyFile, ReplyError
  <2>6. Order'
    <3>1. ASSUME NEW v \in Workers, workerPc'[v] \in {"header", "reply"}, Peer(v)' \in Conns
          PROVE  request'[v] <= Peer(v)'
      <4>1. workerPc[v] \in {"header", "reply"}
        BY <2>5, <3>1 DEF OrderInv, TypeInv, TypeOK
      <4>2. Peer(v)' = Peer(v)
        BY <2>4, <2>5, <3>1 DEF Peer, Conns, File, Free
      <4>. QED  BY <2>5, <3>1, <4>1, <4>2 DEF OrderInv, Order
    <3>. QED  BY <3>1 DEF Order
  <2>. QED  BY <1>1, <2>2, <2>6 DEF OrderInv
<1>7. CASE NoReply(w)
  BY <1>1, <1>7, OrderKept DEF NoReply, OrderInv, TypeInv, TypeOK
<1>8. CASE Shutdown(w)
  BY <1>1, <1>8, OrderKept DEF Shutdown, OrderInv, TypeInv, TypeOK
<1>9. CASE Close(w)
  <2>1. \A d \in Fds : open'[d] \in {open[d], Free}
    BY <1>9 DEF Close, OrderInv, TypeInv, TypeOK
  <2>. QED  BY <1>1, <1>9, <2>1, OrderKept DEF Close, OrderInv, TypeInv, TypeOK
<1>. QED  BY <1>2, <1>3, <1>4, <1>5, <1>6, <1>7, <1>8, <1>9, <1>10 DEF Worker

LEMMA SpuriousOrder == ASSUME OrderInv, NEW w \in Workers, SpuriousWake(w), UNCHANGED wraps PROVE OrderInv'
<1>1. TypeInv'
  BY SpuriousType DEF OrderInv
<1>. QED  BY <1>1, OrderKept DEF SpuriousWake, Goto, net, OrderInv, TypeInv, TypeOK

\* However the round-robin hand-over mixes up the workers' descriptors, an answer never
\* reaches a client older than the one that asked (s.c:153-178, 246-339).
THEOREM NeverBack == Spec => []AnswersNeverGoBack
<1>1. Init => OrderInv
  BY InitType DEF Init, OrderInv, Order, AnswersNeverGoBack
<1>2. OrderInv /\ [Next]_vars => OrderInv'
  <2> SUFFICES ASSUME OrderInv, [Next]_vars PROVE OrderInv'
    OBVIOUS
  <2>1. CASE UNCHANGED vars
    <3>1. TypeInv'
      BY <2>1, NextType DEF OrderInv
    <3>2. Order' /\ AnswersNeverGoBack'
      BY <2>1 DEF vars, workers, net, OrderInv, Order, AnswersNeverGoBack, Peer
    <3>. QED  BY <3>1, <3>2 DEF OrderInv
  <2>2. CASE Next
    BY <2>2, MainOrder, WorkerOrder, SpuriousOrder DEF Next
  <2>. QED  BY <2>1, <2>2
<1>3. OrderInv => AnswersNeverGoBack
  BY DEF OrderInv
<1>. QED  BY <1>1, <1>2, <1>3, PTL DEF Spec

-----------------------------------------------------------------------------
(* Who owns a descriptor, where a worker serves one connection only.       *)

\* main() has left worker w its connection, w + 1.
Given(w) == w < threadCount \/ (w = threadCount /\ mainPc = "signal")

\* What a worker holds, from the moment it is given its connection till it ends.
Holds(w) ==
  /\ workerPc[w] \notin {"start", "waiting"} => Given(w)
  /\ ~Given(w) => socketId[w] = Uninit
  /\ Given(w) => /\ socketId[w] \in Fds
                 /\ workerPc[w] # "ended" => open[socketId[w]] = w + 1
  /\ workerPc[w] \in {"read", "header", "reply", "shutdown", "close"} => sd[w] = socketId[w]
  /\ workerPc[w] \in {"header", "reply"} => request[w] = w + 1
  /\ workerPc[w] = "ended" => \A d \in Fds : open[d] # w + 1

\* A connection is open on one descriptor at most.
OneFd == \A d, e \in Fds : open[d] \in Conns /\ open[d] = open[e] => d = e

\* Between accept and the hand-over it is main() that knows the connection.
MainHolds == mainPc = "assign" => new_sd \in Fds /\ open[new_sd] = accepted

Own == OneFd /\ MainHolds /\ \A w \in Workers : Holds(w)

OwnInv == TypeInv /\ (OwnService => Own /\ \A p \in handled : p[1] = p[2])

LEMMA MainOwn ==
  ASSUME TypeInv, ~wraps, Own, Main
  PROVE  Own' /\ handled' = handled
<1> USE RoundRobinAssumption DEF RoundRobinAssumption
<1>1. CASE Accept
  <2>1. PICK d \in Fds : open[d] = Free /\ new_sd' = d /\ open' = [open EXCEPT ![d] = accepted + 1]
    BY <1>1, AcceptOpens
  <2>2. /\ accepted = threadCount /\ accepted' = accepted + 1 /\ accepted \in Nat /\ accepted' \in Conns
        /\ mainPc = "accept" /\ mainPc' = "assign" /\ handled' = handled
        /\ UNCHANGED <<threadCount, socketId, workerPc, sd, request>>
    BY <1>1 DEF Accept, TypeInv, TypeOK, Count, workers, Conns
  <2>3. \A e \in Fds : open'[e] = IF e = d THEN accepted + 1 ELSE open[e]
    BY <2>1 DEF TypeInv, TypeOK
  <2>4. \A e \in Fds : open[e] <= accepted
    BY DEF TypeInv, Count
  <2>5. OneFd'
    <3>1. ASSUME NEW e \in Fds PROVE open[e] # accepted + 1
      <4>1. open[e] <= accepted /\ open[e] \in Int
        BY <2>4 DEF TypeInv, TypeOK, File, Free, Conns
      <4>. QED  BY <2>2, <4>1
    <3>. QED  BY <2>3, <3>1 DEF Own, OneFd, Conns
  <2>6. MainHolds'
    BY <2>1, <2>2, <2>3 DEF MainHolds
  <2>7. ASSUME NEW w \in Workers PROVE Holds(w)'
    <3>1. Holds(w) /\ w \in Nat
      BY DEF Own, Workers
    <3>2. (Given(w)' <=> Given(w)) /\ (Given(w) => w + 1 <= accepted)
      BY <2>2, <3>1 DEF Given
    <3>3. Given(w) /\ workerPc[w] # "ended" => socketId[w] # d
      BY <2>1, <3>1 DEF Holds, Free
    <3>4. workerPc[w] = "ended" => \A e \in Fds : open'[e] # w + 1
      BY <2>2, <2>3, <3>1, <3>2 DEF Holds
    <3>5. Given(w) => socketId[w] \in Fds /\ (workerPc[w] # "ended" => open'[socketId[w]] = w + 1)
      BY <2>3, <3>1, <3>3 DEF Holds
    <3>. QED  BY <2>2, <3>1, <3>2, <3>4, <3>5 DEF Holds
  <2>. QED  BY <2>2, <2>5, <2>6, <2>7 DEF Own
<1>2. CASE AcceptFails
  BY <1>2 DEF AcceptFails, main, workers, net, Own, OneFd, MainHolds, Holds, Given
<1>3. CASE Assign
  <2>1. /\ mainPc = "assign" /\ mainPc' = "signal" /\ new_sd \in Fds /\ open[new_sd] = accepted
        /\ accepted = threadCount + 1 /\ threadCount \in Nat
        /\ UNCHANGED <<threadCount, workerPc, sd, request, open, handled>>
    BY <1>3 DEF Assign, workers, net, Own, MainHolds, TypeInv, TypeOK, Count
  <2>2. \A w \in Workers : socketId'[w] = IF w = threadCount THEN new_sd ELSE socketId[w]
    BY <1>3 DEF Assign, TypeInv, TypeOK
  <2>3. ASSUME NEW w \in Workers PROVE Holds(w)'
    <3>1. Holds(w) /\ w \in Nat
      BY DEF Own, Workers
    <3>2. CASE w = threadCount
      <4>1. workerPc[w] \in {"start", "waiting"} /\ Given(w)'
        BY <2>1, <3>1, <3>2 DEF Holds, Given
      <4>2. socketId'[w] = new_sd /\ open'[new_sd] = w + 1
        BY <2>1, <2>2, <3>2
      <4>. QED  BY <2>1, <3>1, <4>1, <4>2 DEF Holds
    <3>3. CASE w # threadCount
      <4>1. socketId'[w] = socketId[w] /\ (Given(w)' <=> Given(w))
        BY <2>1, <2>2, <3>3 DEF Given
      <4>. QED  BY <2>1, <3>1, <4>1 DEF Holds
    <3>. QED  BY <3>2, <3>3
  <2>. QED  BY <2>1, <2>3 DEF Own, OneFd, MainHolds
<1>4. CASE Signal
  <2>1. /\ mainPc = "signal" /\ mainPc' = "accept" /\ threadCount' = threadCount + 1
        /\ threadCount \in Nat
        /\ UNCHANGED <<socketId, sd, request, open, handled>>
    BY <1>4 DEF Signal, net, TypeInv, TypeOK
  <2>2. ASSUME NEW w \in Workers, workerPc'[w] # workerPc[w]
        PROVE  w = threadCount /\ workerPc[w] = "waiting" /\ workerPc'[w] = "woken"
    <3>1. workerPc'[w] = IF w = threadCount /\ workerPc[w] = "waiting" THEN "woken" ELSE workerPc[w]
      BY <1>4 DEF Signal
    <3>. QED  BY <2>2, <3>1
  <2>3. ASSUME NEW w \in Workers PROVE Holds(w)'
    <3>1. Holds(w) /\ w \in Nat
      BY DEF Own, Workers
    <3>2. Given(w)' <=> Given(w)
      BY <2>1, <3>1 DEF Given
    <3>3. CASE workerPc'[w] = workerPc[w]
      BY <2>1, <3>1, <3>2, <3>3 DEF Holds
    <3>4. CASE w = threadCount /\ workerPc[w] = "waiting" /\ workerPc'[w] = "woken"
      <4>1. Given(w)
        BY <2>1, <3>4 DEF Given
      <4>. QED  BY <2>1, <3>1, <3>2, <3>4, <4>1 DEF Holds
    <3>. QED  BY <2>2, <3>3, <3>4
  <2>. QED  BY <2>1, <2>3 DEF Own, OneFd, MainHolds
<1>. QED  BY <1>1, <1>2, <1>3, <1>4 DEF Main

\* A worker that does not touch the table of descriptors disturbs at most what it holds itself.
LEMMA OthersHold ==
  ASSUME TypeInv, Own, NEW w \in Workers, UNCHANGED <<main, socketId, accepted, open>>,
         \A v \in Workers \ {w} : /\ workerPc'[v] = workerPc[v] /\ sd'[v] = sd[v]
                                  /\ request'[v] = request[v],
         Holds(w)'
  PROVE  Own'
<1>1. ASSUME NEW v \in Workers, v # w PROVE Holds(v)'
  BY <1>1 DEF Own, Holds, Given, main
<1>. QED  BY <1>1 DEF Own, OneFd, MainHolds, main

\* Whoever has been woken has the connection that is its own, on the descriptor it was left.
LEMMA OwnPeer ==
  ASSUME TypeInv, Own, NEW w \in Workers,
         workerPc[w] \in {"read", "header", "reply", "shutdown", "close"}
  PROVE  sd[w] = socketId[w] /\ sd[w] \in Fds /\ Peer(w) = w + 1 /\ open[sd[w]] = w + 1
<1>1. Holds(w) /\ Given(w)
  BY DEF Own, Holds
<1>. QED  BY <1>1 DEF Holds, Peer

LEMMA WorkerOwn ==
  ASSUME TypeInv, ~wraps, Own, NEW w \in Workers, Worker(w)
  PROVE  Own' /\ \A p \in handled' : p \in handled \/ p[1] = p[2]
<1>1. Holds(w)
  BY DEF Own
<1> USE DEF Goto, main, net
<1>2. CASE CondWait(w)
  <2>1. Holds(w)'
    BY <1>1, <1>2 DEF CondWait, Holds, Given, TypeInv, TypeOK
  <2>. QED  BY <1>2, <2>1, OthersHold DEF CondWait, TypeInv, TypeOK
<1>3. CASE TakeRequest(w)
  <2>1. sd'[w] = socketId[w]
    <3>1. socketId[w] # Uninit
      BY <1>1, <1>3 DEF TakeRequest, Holds, Fds, Uninit
    <3>. QED  BY <1>3, <3>1 DEF TakeRequest, TypeInv, TypeOK
  <2>2. /\ workerPc[w] = "woken" /\ workerPc' = [workerPc EXCEPT ![w] = "read"]
        /\ UNCHANGED <<main, socketId, accepted, open, handled, request>>
        /\ \A v \in Workers \ {w} : sd'[v] = sd[v]
    BY <1>3 DEF TakeRequest, TypeInv, TypeOK
  <2>3. Holds(w)'
    BY <1>1, <2>1, <2>2 DEF Holds, Given, TypeInv, TypeOK
  <2>. QED  BY <2>2, <2>3, OthersHold DEF TypeInv, TypeOK
<1>4. CASE ReadRequest(w)
  <2>1. Begun(w) = w + 1
    BY <1>1, <1>4, OwnPeer DEF ReadRequest, Begun, Holds
  <2>2. Holds(w)'
    BY <1>1, <1>4, <2>1 DEF ReadRequest, Holds, Given, TypeInv, TypeOK
  <2>. QED  BY <1>4, <2>2, OthersHold DEF ReadRequest, TypeInv, TypeOK
<1>10. CASE ReadPart(w)
  <2>1. Peer(w) = w + 1
    BY <1>10, OwnPeer DEF ReadPart
  <2>2. Holds(w)'
    BY <1>1, <1>10, <2>1 DEF ReadPart, Holds, Given, TypeInv, TypeOK
  <2>. QED  BY <1>10, <2>2, OthersHold DEF ReadPart, TypeInv, TypeOK
<1>5. CASE ReadNothing(w)
  <2>1. Holds(w)'
    BY <1>1, <1>5 DEF ReadNothing, Holds, Given, TypeInv, TypeOK
  <2>. QED  BY <1>5, <2>1, OthersHold DEF ReadNothing, TypeInv, TypeOK
<1>6. CASE ReplyFile(w) \/ ReplyError(w)
  <2>1. Answer(w) /\ workerPc[w] = "reply"
    BY <1>6 DEF ReplyFile, ReplyError
  <2>2. request[w] = w + 1 /\ Peer(w) = w + 1
    BY <1>1, <2>1, OwnPeer DEF Holds
  <2>3. \A p \in handled' : p \in handled \/ p[1] = p[2]
    BY <2>1, <2>2 DEF Answer, AnswerTo
  <2>4. /\ workerPc' = [workerPc EXCEPT ![w] = "shutdown"]
        /\ UNCHANGED <<mainPc, new_sd, threadCount, socketId, sd, request, accepted>>
    BY <1>6 DEF ReplyFile, ReplyError
  <2>5. open' = open \/ \E d \in Fds : open[d] = Free /\ open' = [open EXCEPT ![d] = File]
    BY <1>6, FileOpens DEF ReplyError
  <2>6. \A d \in Fds : open'[d] = open[d] \/ (open[d] = Free /\ open'[d] = File)
    BY <2>5 DEF TypeInv, TypeOK
  <2>7. \A d \in Fds, c \in Nat \ {0} : open'[d] = c <=> open[d] = c
    BY <2>6 DEF File, Free
  <2>8. OneFd'
    BY <2>7 DEF Own, OneFd, Conns
  <2>9. MainHolds'
    <3>1. mainPc = "assign" => accepted \in Nat \ {0}
      BY DEF TypeInv, TypeOK, Count
    <3>. QED  BY <2>4, <2>7, <3>1 DEF Own, MainHolds
  <2>10. ASSUME NEW v \in Workers PROVE Holds(v)'
    <3>1. Holds(v) /\ v + 1 \in Nat \ {0}
      BY RoundRobinAssumption DEF Own, Workers, RoundRobinAssumption
    <3>2. workerPc'[v] = IF v = w THEN "shutdown" ELSE workerPc[v]
      BY <2>4 DEF TypeInv, TypeOK
    <3>. QED  BY <2>1, <2>4, <2>7, <3>1, <3>2 DEF Holds, Given
  <2>. QED  BY <2>3, <2>8, <2>9, <2>10 DEF Own
<1>7. CASE NoReply(w)
  <2>1. Holds(w)'
    BY <1>1, <1>7 DEF NoReply, Holds, Given, TypeInv, TypeOK
  <2>. QED  BY <1>7, <2>1, OthersHold DEF NoReply, TypeInv, TypeOK
<1>8. CASE Shutdown(w)
  <2>1. Holds(w)'
    BY <1>1, <1>8 DEF Shutdown, Holds, Given, TypeInv, TypeOK
  <2>. QED  BY <1>8, <2>1, OthersHold DEF Shutdown, TypeInv, TypeOK
<1>9. CASE Close(w)
  <2>1. sd[w] = socketId[w] /\ sd[w] \in Fds /\ open[sd[w]] = w + 1
    BY <1>9, OwnPeer DEF Close
  <2>2. /\ workerPc' = [workerPc EXCEPT ![w] = "ended"]
        /\ open' = [open EXCEPT ![sd[w]] = Free] /\ handled' = handled
        /\ UNCHANGED <<mainPc, new_sd, threadCount, socketId, sd, request, accepted>>
    BY <1>9, <2>1 DEF Close
  <2>3. \A d \in Fds : open'[d] = IF d = sd[w] THEN Free ELSE open[d]
    BY <2>2 DEF TypeInv, TypeOK
  <2>4. w \in Nat /\ w < MAX_THREAD_COUNT
    BY RoundRobinAssumption DEF Workers, RoundRobinAssumption
  <2>5. OneFd'
    BY <2>3 DEF Own, OneFd, Conns, Free
  <2>6. MainHolds'
    <3>1. mainPc = "assign" => new_sd # sd[w]
      <4>1. mainPc = "assign" => w < threadCount
        BY <1>1, <1>9 DEF Close, Holds, Given
      <4>. QED  BY <2>1, <2>4, <4>1 DEF Own, MainHolds, TypeInv, TypeOK, Count
    <3>. QED  BY <2>2, <2>3, <3>1 DEF Own, MainHolds
  <2>7. Holds(w)'
    <3>1. \A d \in Fds : open'[d] # w + 1
      <4>1. w + 1 \in Conns
        BY <2>1, <2>4 DEF TypeInv, TypeOK, File, Free
      <4>. QED  BY <2>1, <2>3, <2>4, <4>1 DEF Own, OneFd, Free
    <3>. QED  BY <1>1, <1>9, <2>2, <3>1 DEF Close, Holds, Given, TypeInv, TypeOK
  <2>8. ASSUME NEW v \in Workers, v # w PROVE Holds(v)'
    <3>1. Holds(v) /\ v \in Nat
      BY RoundRobinAssumption DEF Own, Workers, RoundRobinAssumption
    <3>2. workerPc'[v] = workerPc[v]
      BY <2>2, <2>8 DEF TypeInv, TypeOK
    <3>3. Given(v) /\ workerPc[v] # "ended" => socketId[v] # sd[w]
      BY <2>1, <2>4, <2>8, <3>1 DEF Holds
    <3>4. workerPc[v] = "ended" => \A d \in Fds : open'[d] # v + 1
      BY <2>3, <3>1 DEF Holds, Free
    <3>. QED  BY <2>2, <2>3, <3>1, <3>2, <3>3, <3>4 DEF Holds, Given
  <2>. QED  BY <2>2, <2>5, <2>6, <2>7, <2>8 DEF Own
<1>. QED  BY <1>2, <1>3, <1>4, <1>5, <1>6, <1>7, <1>8, <1>9, <1>10 DEF Worker

\* A worker that wakes up unsignalled, and does not stray, has its socket already.
LEMMA SpuriousOwn ==
  ASSUME TypeInv, Own, NEW w \in Workers, SpuriousWake(w), ~strayed'
  PROVE  Own' /\ handled' = handled
<1> USE DEF SpuriousWake, Goto, main, net
<1>1. Holds(w) /\ socketId[w] # Uninit
  BY DEF Own
<1>2. Holds(w)'
  BY <1>1 DEF Holds, Given, TypeInv, TypeOK
<1>. QED  BY <1>2, OthersHold DEF TypeInv, TypeOK

LEMMA AlwaysOwn == Spec => []OwnInv
<1>1. Init => OwnInv
  BY InitType, RoundRobinAssumption DEF RoundRobinAssumption, Init, OwnInv, Own, OneFd, MainHolds,
     Holds, Given, Workers, Conns, Free, Uninit
<1>2. OwnInv /\ [Next]_vars => OwnInv'
  <2> SUFFICES ASSUME OwnInv, [Next]_vars PROVE OwnInv'
    OBVIOUS
  <2>1. TypeInv'
    BY NextType DEF OwnInv
  <2>2. CASE UNCHANGED vars
    BY <2>1, <2>2 DEF vars, main, workers, net, OwnInv, OwnService, Own, OneFd, MainHolds, Holds,
       Given
  <2>3. CASE Next
    <3>1. OwnService' => OwnService
      BY <2>3 DEF Next, Main, Worker, SpuriousWake, OwnService
    <3>2. OwnService' => Own' /\ \A p \in handled' : p \in handled \/ p[1] = p[2]
      <4> SUFFICES ASSUME OwnService'
                   PROVE  Own' /\ \A p \in handled' : p \in handled \/ p[1] = p[2]
        OBVIOUS
      <4>1. TypeInv /\ ~wraps /\ Own /\ ~strayed'
        BY <3>1 DEF OwnInv, OwnService
      <4>2. CASE Main
        BY <4>1, <4>2, MainOwn
      <4>3. ASSUME NEW w \in Workers, Worker(w)
            PROVE  Own' /\ \A p \in handled' : p \in handled \/ p[1] = p[2]
        BY <4>1, <4>3, WorkerOwn
      <4>4. ASSUME NEW w \in Workers, SpuriousWake(w) PROVE Own' /\ handled' = handled
        BY <4>1, <4>4, SpuriousOwn
      <4>. QED  BY <2>3, <4>2, <4>3, <4>4 DEF Next
    <3>. QED  BY <2>1, <3>1, <3>2 DEF OwnInv
  <2>. QED  BY <2>2, <2>3
<1>. QED  BY <1>1, <1>2, PTL DEF Spec

\* Where a worker serves one connection only, a client that gets an answer gets its own, until
\* a worker wakes up that was given no socket (ps.c:144-157, 281-365).
THEOREM OwnAnswers == Spec => []EachItsOwn
<1>1. OwnInv => EachItsOwn
  BY DEF OwnInv, EachItsOwn
<1>. QED  BY <1>1, AlwaysOwn, PTL

\* There, and so long, a connection is open exactly until its worker ends (ps.c:147-156,
\* 360-361).
THEOREM OpenTillTheEnd == Spec => []OpenUntilItsWorkerEnds
<1>1. ASSUME OwnInv PROVE OpenUntilItsWorkerEnds
  <2> SUFFICES ASSUME OwnService, NEW c \in 1 .. accepted, c <= MAX_THREAD_COUNT
               PROVE  workerPc[c - 1] # "ended" <=> \E d \in Fds : open[d] = c
    BY DEF OpenUntilItsWorkerEnds
  <2>1. c \in Int /\ 1 <= c /\ c <= accepted /\ accepted \in Nat
    BY <1>1 DEF OwnInv, TypeInv, TypeOK
  <2>2. c - 1 \in Workers /\ (c - 1) + 1 = c
    BY <2>1, RoundRobinAssumption DEF Workers, RoundRobinAssumption
  <2>3. Holds(c - 1) /\ MainHolds
    BY <1>1, <2>2 DEF OwnInv, Own
  <2>4. threadCount \in Nat /\ mainPc \in {"accept", "assign", "signal"}
        /\ accepted = IF mainPc = "accept" THEN threadCount ELSE threadCount + 1
    BY <1>1, <2>1 DEF OwnInv, OwnService, TypeInv, TypeOK, Count
  <2>5. CASE Given(c - 1)
    BY <2>2, <2>3, <2>5 DEF Holds
  <2>6. CASE ~Given(c - 1)
    <3>1. mainPc = "assign" /\ c = accepted
      BY <2>1, <2>4, <2>6 DEF Given
    <3>2. workerPc[c - 1] # "ended"
      BY <2>1, <2>3, <2>6 DEF Given, Holds
    <3>. QED  BY <2>3, <3>1, <3>2 DEF MainHolds
  <2>. QED  BY <2>5, <2>6
<1>. QED  BY <1>1, AlwaysOwn, PTL
=============================================================================
