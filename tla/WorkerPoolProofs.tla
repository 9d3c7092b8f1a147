-------------------------- MODULE WorkerPoolProofs --------------------------
(***************************************************************************)
(* Theorems about WorkerPool, for any number of workers, connections,      *)
(* descriptors and parts of a header.  Each group of facts is shown        *)
(* inductive by itself, relative to the groups before it.  The second part *)
(* is about PromptPool: where its assumptions hold, every step of the pool *)
(* is a step of Dispatcher or none.                                        *)
(***************************************************************************)
EXTENDS PromptPool, TLAPS

\* What the types rest on: the boss indexes ThreadArray with a worker's number wherever
\* it writes to it, and the workers it has not come to create do not exist.
Control ==
  /\ bossPc \in {"init", "create"} => created \in Workers
  /\ bossPc = "init" => created = 0
  /\ bossPc \in {"init", "create"} =>
       \A w \in Workers : w >= created => workerPc[w] = "absent"
  /\ bossPc \in {"assign", "signal"} => threadCount \in Workers
  /\ \A w \in Workers : workerPc[w] \in {"header", "reply"} => request[w] \in Conns

Inv == TypeOK /\ Control

LEMMA RemainderInRange ==
  ASSUME NEW a \in Int, NEW n \in Nat \ {0}
  PROVE  a % n \in 0 .. n - 1
  OBVIOUS

LEMMA InitInv == Init => Inv
<1> SUFFICES ASSUME Init PROVE Inv
  OBVIOUS
<1> USE PoolAssumption DEF PoolAssumption, Init
<1>1. force \in BOOLEAN /\ crashed \in BOOLEAN
  OBVIOUS
<1>2. TypeOK
  BY <1>1 DEF TypeOK, BossPcs, WorkerPcs, Workers, Sockets, Uninit, BadFd
<1>3. Control
  BY DEF Control, Workers
<1>. QED  BY <1>2, <1>3 DEF Inv

LEMMA BossInv == Inv /\ Boss => Inv'
<1> SUFFICES ASSUME Inv, Boss PROVE Inv'
  OBVIOUS
<1> USE PoolAssumption DEF PoolAssumption, Inv, TypeOK, Control, BossPcs, WorkerPcs, Workers,
      Conns, Fds, Sockets, Uninit, NoConn, BadFd, workerVars, netVars, At
<1>1. CASE InitPrimitives
  BY <1>1 DEF InitPrimitives
<1>2. CASE CreateWorker(TRUE) \/ CreateWorker(FALSE)
  <2>1. TypeOK'
    <3>1. workerPc' \in [Workers -> WorkerPcs]
      BY <1>2 DEF CreateWorker
    <3>2. bossPc' \in BossPcs /\ created' \in 0 .. MaxNumberOfThred
      BY <1>2 DEF CreateWorker
    <3>. QED  BY <1>2, <3>1, <3>2 DEF CreateWorker
  <2>2. Control'
    <3>1. created < MaxNumberOfThred /\ created' = created + 1
      BY <1>2 DEF CreateWorker
    <3>2. bossPc' = "create" => created' < MaxNumberOfThred
      BY <1>2, <3>1 DEF CreateWorker
    <3>3. \A w \in Workers : w >= created' => workerPc'[w] = workerPc[w]
      BY <1>2, <3>1 DEF CreateWorker
    <3>. QED  BY SMTT(30), <1>2, <3>1, <3>2, <3>3 DEF CreateWorker
  <2>. QED  BY <2>1, <2>2
<1>3. CASE Accept
  <2>1. unread' \in [Conns -> 0 .. Parts]
    BY <1>3 DEF Accept
  <2>2. owner' \in [Fds -> Conns \cup {NoConn}] /\ new_sd' \in Sockets
    BY <1>3 DEF Accept, FreeFds
  <2>3. /\ bossPc' = "search" /\ from' = threadCount /\ probe' = threadCount
        /\ accepted' = accepted + 1 /\ accepted < MaxConn /\ bossPc = "accept"
        /\ UNCHANGED <<created, threadCount, workerVars, shut, handled, qsize, IsFree,
                       SocketId, Mutex, crashed>>
    BY <1>3 DEF Accept, BeginSearch
  <2>4. force' \in BOOLEAN
    BY <1>3 DEF Accept, BeginSearch
  <2>5. TypeOK'
    <3>1. accepted' \in 0 .. MaxConn /\ from' \in Workers \cup {-1} /\ bossPc' \in BossPcs
      BY <2>3
    <3>2. workerPc' \in [Workers -> WorkerPcs] /\ handled' \subseteq Conns \X Conns
      BY <2>3
    <3> HIDE PoolAssumption DEF BossPcs, WorkerPcs, Workers, Conns, Fds, Sockets, Control
    <3>. QED  BY <2>1, <2>2, <2>3, <2>4, <3>1, <3>2 DEF workerVars
  <2>6. Control'
    BY <2>3
  <2>. QED  BY <2>5, <2>6
<1>4. CASE AcceptFails
  BY <1>4 DEF AcceptFails
<1>5. CASE ProbeHit
  BY <1>5 DEF ProbeHit
<1>6. CASE ProbeMiss
  <2>1. NextProbe \in Workers
    <3>1. probe + 1 \in Int /\ MaxNumberOfThred \in Nat \ {0}
      OBVIOUS
    <3>. QED  BY <3>1, RemainderInRange DEF NextProbe
  <2>. QED  BY <1>6, <2>1 DEF ProbeMiss
<1>7. CASE SearchAgain
  <2>1. force' \in BOOLEAN
    BY <1>7 DEF SearchAgain, BeginSearch
  <2>. QED  BY SMTT(30), <1>7, <2>1 DEF SearchAgain, BeginSearch
<1>8. CASE GiveUp
  BY <1>8 DEF GiveUp
<1>9. CASE Offer
  BY SMTT(30), <1>9 DEF Offer
<1>10. CASE Assign
  BY <1>10 DEF Assign
<1>11. CASE Signal
  BY SMTT(30), <1>11 DEF Signal, NextThread
<1>. QED
  BY <1>1, <1>2, <1>3, <1>4, <1>5, <1>6, <1>7, <1>8, <1>9, <1>10, <1>11 DEF Boss
LEMMA WorkerInv == ASSUME Inv, NEW w \in Workers, Worker(w) \/ SpuriousWake(w) PROVE Inv'
<1> USE PoolAssumption DEF PoolAssumption, Inv, TypeOK, Control, WorkerPcs, NoConn,
      bossVars, netVars, Goto
<1>1. CASE MarkFree(w)
  BY <1>1 DEF MarkFree
<1>2. CASE CondWait(w)
  BY <1>2 DEF CondWait
<1>3. CASE SpuriousWake(w)
  BY <1>3 DEF SpuriousWake
<1>4. CASE CondReturn(w)
  BY <1>4 DEF CondReturn
<1>5. CASE TakeRequest(w)
  BY <1>5 DEF TakeRequest, Sockets, Fds, BadFd
<1>6. CASE ReadFails(w)
  BY <1>6 DEF ReadFails
<1>7. CASE ReadRequest(w) \/ ReadHeader(w)
  BY <1>7 DEF ReadRequest, ReadHeader, ReadParts, Peer
<1>8. CASE ReadBlocks(w)
  BY <1>8 DEF ReadBlocks, Peer
<1>9. CASE ReadEOF(w)
  BY <1>9 DEF ReadEOF
<1>10. CASE Reply(w)
  <2>1. Peer(w) # NoConn => Peer(w) \in Conns
    BY DEF Peer
  <2>2. handled' \subseteq Conns \X Conns
    BY <1>10, <2>1 DEF Reply
  <2>3. crashed' \in BOOLEAN
    BY <1>10 DEF Reply
  <2>. QED  BY <1>10, <2>2, <2>3 DEF Reply
<1>11. CASE Shutdown(w)
  BY <1>11 DEF Shutdown, Peer
<1>12. CASE CloseSocket(w)
  <2>1. owner' \in [Fds -> Conns \cup {NoConn}]
    BY <1>12 DEF CloseSocket
  <2>2. shut' \subseteq Conns
    BY <1>12 DEF CloseSocket, Peer
  <2>. QED  BY <1>12, <2>1, <2>2 DEF CloseSocket
<1>13. CASE CheckQueue(w)
  BY <1>13 DEF CheckQueue
<1>14. CASE Poll(w)
  BY <1>14 DEF Poll
<1>15. CASE PollEmpty(w)
  <2>1. crashed' \in BOOLEAN
    BY <1>15 DEF PollEmpty
  <2>. QED  BY <1>15, <2>1 DEF PollEmpty, workerVars
<1>16. CASE Deref(w)
  BY <1>16 DEF Deref
<1>17. CASE Reinit(w)
  BY <1>17 DEF Reinit
<1>18. CASE Relock(w)
  BY <1>18 DEF Relock
<1>. QED
  BY <1>1, <1>2, <1>3, <1>4, <1>5, <1>6, <1>7, <1>8, <1>9,
     <1>10, <1>11, <1>12, <1>13, <1>14, <1>15, <1>16, <1>17, <1>18 DEF Worker

LEMMA NextInv == Inv /\ [Next]_vars => Inv'
<1> SUFFICES ASSUME Inv, [Next]_vars PROVE Inv'
  OBVIOUS
<1>1. CASE UNCHANGED vars
  BY <1>1 DEF vars, bossVars, workerVars, netVars, Inv, TypeOK, Control
<1>2. CASE Next
  BY <1>2, BossInv, WorkerInv DEF Next
<1>. QED  BY <1>1, <1>2

\* The variables keep their types; in particular every index the boss writes to in
\* ThreadArray is a worker's, whatever it read at ThreadArray[-1] (s.c:91-104).
THEOREM TypeCorrect == Spec => []TypeOK
<1>1. Inv => TypeOK
  BY DEF Inv
<1>. QED  BY InitInv, NextInv, <1>1, PTL DEF Spec
-----------------------------------------------------------------------------
(* The mutexes and the flags.                                              *)

LEMMA InitMutex == Init => MutexDiscipline
  BY DEF Init, MutexDiscipline

LEMMA BossMutex == ASSUME Inv, MutexDiscipline, Boss PROVE MutexDiscipline'
<1> USE PoolAssumption DEF PoolAssumption, Inv, TypeOK, Control, MutexDiscipline, Workers,
      workerVars, At
<1>1. CASE InitPrimitives
  BY <1>1 DEF InitPrimitives
<1>2. CASE CreateWorker(TRUE) \/ CreateWorker(FALSE)
  BY <1>2 DEF CreateWorker
<1>3. CASE Signal
  BY <1>3 DEF Signal, NextThread
<1>4. CASE \/ Accept \/ AcceptFails \/ ProbeHit \/ ProbeMiss
           \/ SearchAgain \/ GiveUp \/ Offer \/ Assign
  BY <1>4 DEF Accept, AcceptFails, ProbeHit, ProbeMiss, SearchAgain, GiveUp, Offer, Assign,
              BeginSearch
<1>. QED  BY <1>1, <1>2, <1>3, <1>4 DEF Boss

LEMMA WorkerMutex ==
  ASSUME Inv, MutexDiscipline, NEW w \in Workers, Worker(w) \/ SpuriousWake(w)
  PROVE  MutexDiscipline'
<1> USE DEF Inv, TypeOK, MutexDiscipline, bossVars, Goto
<1>1. bossPc # "init"
  BY PoolAssumption DEF PoolAssumption, Control, Workers, Worker, SpuriousWake, MarkFree,
     CondWait, CondReturn, TakeRequest, ReadFails, ReadRequest, ReadHeader, ReadParts,
     ReadBlocks, ReadEOF, Reply, Shutdown, CloseSocket, CheckQueue, Poll, PollEmpty, Deref,
        Reinit, Relock
<1>2. CASE CondWait(w) \/ CondReturn(w) \/ Reinit(w) \/ Relock(w) \/ SpuriousWake(w)
  BY <1>1, <1>2 DEF CondWait, CondReturn, Reinit, Relock, SpuriousWake
<1>3. CASE \/ MarkFree(w) \/ TakeRequest(w) \/ ReadFails(w) \/ ReadRequest(w)
           \/ ReadHeader(w) \/ ReadBlocks(w) \/ ReadEOF(w) \/ Reply(w) \/ Shutdown(w)
           \/ CloseSocket(w) \/ CheckQueue(w) \/ Poll(w) \/ PollEmpty(w) \/ Deref(w)
  BY <1>1, <1>3 DEF MarkFree, TakeRequest, ReadFails, ReadRequest, ReadHeader, ReadParts,
     ReadBlocks, ReadEOF, Reply, Shutdown, CloseSocket, CheckQueue, Poll, PollEmpty, Deref,
     workerVars
<1>. QED  BY <1>2, <1>3 DEF Worker

\* No worker ever locks a mutex that is locked: the pool never blocks on its own mutexes,
\* for all that main() locked them first and that they are initialized again while held.
THEOREM MutexesNeverBlock == Spec => []MutexDiscipline
<1>1. Inv /\ MutexDiscipline /\ [Next]_vars => MutexDiscipline'
  <2> SUFFICES ASSUME Inv, MutexDiscipline, [Next]_vars PROVE MutexDiscipline'
    OBVIOUS
  <2>1. CASE UNCHANGED vars
    BY <2>1 DEF vars, bossVars, workerVars, MutexDiscipline
  <2>2. CASE Next
    BY <2>2, BossMutex, WorkerMutex DEF Next
  <2>. QED  BY <2>1, <2>2
<1>. QED  BY InitInv, NextInv, InitMutex, <1>1, PTL DEF Spec

LEMMA BossFlags == ASSUME Inv, IsFreeIsTrue, Boss PROVE IsFreeIsTrue'
<1> USE PoolAssumption DEF PoolAssumption, Inv, TypeOK, Control, IsFreeIsTrue, Waits, Serves,
      Workers, workerVars, At
<1>1. CASE CreateWorker(TRUE) \/ CreateWorker(FALSE)
  BY <1>1 DEF CreateWorker
<1>2. CASE Signal
  BY <1>2 DEF Signal, NextThread
<1>3. CASE \/ InitPrimitives \/ Accept \/ AcceptFails \/ ProbeHit \/ ProbeMiss
           \/ SearchAgain \/ GiveUp \/ Offer \/ Assign
  BY <1>3 DEF InitPrimitives, Accept, AcceptFails, ProbeHit, ProbeMiss, SearchAgain, GiveUp,
     Offer, Assign, BeginSearch
<1>. QED  BY <1>1, <1>2, <1>3 DEF Boss

LEMMA WorkerFlags ==
  ASSUME Inv, IsFreeIsTrue, NEW w \in Workers, Worker(w) \/ SpuriousWake(w)
  PROVE  IsFreeIsTrue'
<1> USE DEF Inv, TypeOK, IsFreeIsTrue, Waits, Serves, Goto
<1>1. CASE MarkFree(w) \/ TakeRequest(w)
  BY <1>1 DEF MarkFree, TakeRequest
<1>2. CASE CondWait(w) \/ SpuriousWake(w) \/ CondReturn(w) \/ Reinit(w) \/ Relock(w)
  BY <1>2 DEF CondWait, SpuriousWake, CondReturn, Reinit, Relock
<1>3. CASE \/ ReadFails(w) \/ ReadRequest(w) \/ ReadHeader(w) \/ ReadBlocks(w)
           \/ ReadEOF(w) \/ Reply(w) \/ Shutdown(w) \/ CloseSocket(w)
  BY <1>3 DEF ReadFails, ReadRequest, ReadHeader, ReadParts, ReadBlocks, ReadEOF, Reply,
     Shutdown, CloseSocket
<1>4. CASE CheckQueue(w) \/ Poll(w) \/ PollEmpty(w) \/ Deref(w)
  BY <1>4 DEF CheckQueue, Poll, PollEmpty, Deref, workerVars
<1>. QED  BY <1>1, <1>2, <1>3, <1>4 DEF Worker

\* The flag the boss reads with no lock is never TRUE of a worker that serves and never
\* FALSE of one that waits: what goes wrong goes wrong after the read.
THEOREM FlagsAreTrue == Spec => []IsFreeIsTrue
<1>1. Init => IsFreeIsTrue
  BY DEF Init, IsFreeIsTrue, Waits, Serves
<1>2. Inv /\ IsFreeIsTrue /\ [Next]_vars => IsFreeIsTrue'
  <2> SUFFICES ASSUME Inv, IsFreeIsTrue, [Next]_vars PROVE IsFreeIsTrue'
    OBVIOUS
  <2>1. CASE UNCHANGED vars
    BY <2>1 DEF vars, workerVars, IsFreeIsTrue, Waits, Serves
  <2>2. CASE Next
    BY <2>2, BossFlags, WorkerFlags DEF Next
  <2>. QED  BY <2>1, <2>2
<1>. QED  BY InitInv, NextInv, <1>1, <1>2, PTL DEF Spec

-----------------------------------------------------------------------------
(* The hand-over of a descriptor.                                          *)

\* new_sd has been written by accept before anything can be queued or assigned, and the
\* SocketId a signal is about to announce has been assigned.
HandOver ==
  /\ bossPc \in {"search", "sleep", "assign", "signal", "offer"} => new_sd # Uninit
  /\ qsize > 0 => new_sd # Uninit
  /\ bossPc = "signal" => SocketId[threadCount] # Uninit
  /\ \A w \in Workers : workerPc[w] = "deref" => new_sd # Uninit
  /\ NoUninitialisedSocket

LEMMA BossHandOver == ASSUME Inv, HandOver, Boss PROVE HandOver'
<1> USE PoolAssumption DEF PoolAssumption, Inv, TypeOK, Control, HandOver,
      NoUninitialisedSocket, Workers, Uninit, BadFd, workerVars, At
<1>1. CASE CreateWorker(TRUE) \/ CreateWorker(FALSE)
  BY <1>1 DEF CreateWorker
<1>2. CASE Accept
  BY <1>2 DEF Accept, BeginSearch, FreeFds, Fds
<1>3. CASE AcceptFails
  BY <1>3 DEF AcceptFails
<1>4. CASE Assign
  BY <1>4 DEF Assign
<1>5. CASE Signal
  BY <1>5 DEF Signal, NextThread
<1>6. CASE InitPrimitives \/ ProbeHit \/ ProbeMiss \/ SearchAgain \/ GiveUp \/ Offer
  BY <1>6 DEF InitPrimitives, ProbeHit, ProbeMiss, SearchAgain, GiveUp, Offer, BeginSearch
<1>. QED  BY <1>1, <1>2, <1>3, <1>4, <1>5, <1>6 DEF Boss

LEMMA WorkerHandOver == ASSUME Inv, HandOver, NEW w \in Workers, Worker(w) PROVE HandOver'
<1> USE DEF Inv, TypeOK, HandOver, NoUninitialisedSocket, Uninit, bossVars, Goto
<1>1. CASE CondReturn(w)
  BY <1>1 DEF CondReturn
<1>2. CASE Poll(w)
  BY <1>2 DEF Poll
<1>3. CASE Deref(w)
  BY <1>3 DEF Deref
<1>4. CASE MarkFree(w) \/ CondWait(w) \/ TakeRequest(w) \/ Reinit(w) \/ Relock(w)
  BY <1>4 DEF MarkFree, CondWait, TakeRequest, Reinit, Relock
<1>5. CASE \/ ReadFails(w) \/ ReadRequest(w) \/ ReadHeader(w) \/ ReadBlocks(w)
           \/ ReadEOF(w) \/ Reply(w) \/ Shutdown(w) \/ CloseSocket(w)
           \/ CheckQueue(w) \/ PollEmpty(w)
  BY <1>5 DEF ReadFails, ReadRequest, ReadHeader, ReadParts, ReadBlocks, ReadEOF, Reply,
     Shutdown, CloseSocket,
     CheckQueue, PollEmpty, workerVars
<1>. QED  BY <1>1, <1>2, <1>3, <1>4, <1>5 DEF Worker

\* As long as pthread_cond_wait returns only when it was signalled, no worker serves a
\* SocketId nobody assigned, though a signal may outlive the assignment it announced.
THEOREM SocketsAreAssigned == ~SpuriousWakeups /\ Spec => []NoUninitialisedSocket
<1> SUFFICES ASSUME ~SpuriousWakeups PROVE Spec => []NoUninitialisedSocket
  OBVIOUS
<1>1. Init => HandOver
  BY DEF Init, HandOver, NoUninitialisedSocket
<1>2. Inv /\ HandOver /\ [Next]_vars => HandOver'
  <2> SUFFICES ASSUME Inv, HandOver, [Next]_vars PROVE HandOver'
    OBVIOUS
  <2>1. CASE UNCHANGED vars
    BY <2>1 DEF vars, bossVars, workerVars, HandOver, NoUninitialisedSocket
  <2>2. CASE Next
    BY <2>2, BossHandOver, WorkerHandOver DEF Next, SpuriousWake
  <2>. QED  BY <2>1, <2>2
<1>3. HandOver => NoUninitialisedSocket
  BY DEF HandOver
<1>. QED  BY InitInv, NextInv, <1>1, <1>2, <1>3, PTL DEF Spec

-----------------------------------------------------------------------------
(* The descriptor table.                                                   *)

\* Only accepted connections have a descriptor, were read or were shut down, and a worker
\* whose descriptor has changed hands since it read finds a later connection there.
Table ==
  /\ \A d \in Fds : owner[d] <= accepted
  /\ \A c \in shut : c <= accepted
  /\ \A w \in Workers : workerPc[w] \in {"header", "reply"} =>
       /\ request[w] <= accepted
       /\ sd[w] \in Fds
       /\ owner[sd[w]] # NoConn => request[w] <= owner[sd[w]]
  /\ OneDescriptorPerConnection
  /\ HandledInOrder

\* A step that touches neither the table nor a worker that replies or closes.
LEMMA TableFrame ==
  ASSUME Table, UNCHANGED <<owner, accepted, shut, handled, sd>>,
         \A w \in Workers : workerPc'[w] \in {"header", "reply"} =>
           workerPc[w] \in {"header", "reply"} /\ request'[w] = request[w],
         \A w \in Workers : workerPc[w] = "close" => workerPc'[w] = "close"
  PROVE  Table'
<1>1. OneDescriptorPerConnection'
  BY DEF Table, OneDescriptorPerConnection
<1>2. HandledInOrder'
  BY DEF Table, HandledInOrder
<1>. QED  BY <1>1, <1>2 DEF Table

LEMMA BossTable == ASSUME Inv, Table, Boss PROVE Table'
<1> USE PoolAssumption DEF PoolAssumption, Inv, TypeOK, Control, Table, Conns, Fds, NoConn,
      OneDescriptorPerConnection, HandledInOrder, workerVars, netVars, At
<1>1. CASE Accept
  <2>1. PICK d \in FreeFds : owner' = [owner EXCEPT ![d] = accepted + 1]
    BY <1>1 DEF Accept
  <2>2. d \in Fds /\ owner[d] = NoConn /\ accepted' = accepted + 1 /\ shut' = shut
    BY <1>1, <2>1 DEF Accept, FreeFds
  <2>3. (\A e \in Fds : owner[e] <= accepted)' /\ (\A c \in shut : c <= accepted)'
    BY <2>1, <2>2
  <2>4. OneDescriptorPerConnection'
    BY SMTT(30), <1>1, <2>1, <2>2 DEF Accept
  <2>. QED  BY SMTT(30), <1>1, <2>1, <2>2, <2>3, <2>4 DEF Accept
<1>2. CASE CreateWorker(TRUE) \/ CreateWorker(FALSE)
  <2>1. \A w \in Workers : workerPc'[w] = workerPc[w] \/ workerPc'[w] = "idle"
    BY <1>2 DEF CreateWorker
  <2>2. workerPc[created] = "absent" /\ created \in Workers
    BY <1>2 DEF CreateWorker, Workers
  <2>3. \A w \in Workers : workerPc[w] = "close" => workerPc'[w] = "close"
    BY <1>2, <2>2 DEF CreateWorker
  <2>. QED  BY <1>2, <2>1, <2>3, TableFrame DEF CreateWorker
<1>3. CASE Signal
  BY <1>3, TableFrame DEF Signal, NextThread
<1>4. CASE \/ InitPrimitives \/ AcceptFails \/ ProbeHit \/ ProbeMiss
           \/ SearchAgain \/ GiveUp \/ Offer \/ Assign
  <2>1. UNCHANGED <<workerVars, netVars>>
    BY <1>4 DEF InitPrimitives, AcceptFails, ProbeHit, ProbeMiss, SearchAgain, GiveUp, Offer,
       Assign
  <2>. QED  BY <2>1, TableFrame
<1>. QED  BY <1>1, <1>2, <1>3, <1>4 DEF Boss

LEMMA WorkerTable ==
  ASSUME Inv, Table, NEW w \in Workers, Worker(w) \/ SpuriousWake(w)
  PROVE  Table'
<1> USE DEF Inv, TypeOK, Control, Table, Conns, Fds, Sockets, BadFd, NoConn,
      OneDescriptorPerConnection, HandledInOrder, bossVars, netVars, Goto
<1>1. CASE \/ MarkFree(w) \/ CondWait(w) \/ SpuriousWake(w) \/ CondReturn(w)
           \/ ReadFails(w) \/ Reinit(w) \/ Relock(w)
  BY <1>1, TableFrame
  DEF MarkFree, CondWait, SpuriousWake, CondReturn, ReadFails, Reinit, Relock
<1>2. CASE TakeRequest(w)
  BY <1>2 DEF TakeRequest
<1>3. CASE ReadRequest(w) \/ ReadHeader(w)
  <2>1. UNCHANGED <<sd, owner, accepted, shut, handled>>
        /\ \A v \in Workers : v # w => workerPc'[v] = workerPc[v] /\ request'[v] = request[v]
    BY <1>3 DEF ReadRequest, ReadHeader, ReadParts
  <2>2. Peer(w) # NoConn /\ (request'[w] = Peer(w) \/ request'[w] = request[w])
        /\ workerPc[w] # "close" /\ (request'[w] = request[w] => request[w] <= Peer(w))
    BY <1>3 DEF ReadRequest, ReadHeader, ReadParts, Peer
  <2>3. sd[w] \in Fds /\ Peer(w) = owner[sd[w]] /\ request'[w] <= Peer(w)
    BY <2>2 DEF Peer
  <2>4. OneDescriptorPerConnection'
    <3>1. \A v \in Workers : workerPc[v] = "close" => workerPc'[v] = "close"
      BY <2>1, <2>2
    <3>. QED  BY <2>1, <3>1
  <2>5. HandledInOrder'
    BY <2>1
  <2>6. \A d \in Fds : owner'[d] <= accepted'
    BY <2>1
  <2>7. ASSUME NEW v \in Workers, workerPc'[v] \in {"header", "reply"}
        PROVE  request'[v] <= accepted' /\ sd'[v] \in Fds
               /\ (owner'[sd'[v]] # NoConn => request'[v] <= owner'[sd'[v]])
    <3>1. CASE v = w
      <4>1. request'[w] \in Int /\ owner[sd[w]] \in Int /\ owner[sd[w]] <= accepted
        BY <2>2, <2>3
      <4>. QED  BY <2>1, <2>3, <3>1, <4>1
    <3>2. CASE v # w
      BY <2>1, <2>7, <3>2
    <3>. QED  BY <3>1, <3>2
  <2>8. \A c \in shut' : c <= accepted'
    BY <2>1
  <2>. QED  BY <2>4, <2>5, <2>6, <2>7, <2>8
<1>4. CASE ReadBlocks(w) \/ ReadEOF(w)
  BY <1>4, TableFrame DEF ReadBlocks, ReadEOF
<1>5. CASE Reply(w)
  BY <1>5 DEF Reply, Peer
<1>6. CASE Shutdown(w)
  BY <1>6 DEF Shutdown, Peer
<1>7. CASE CloseSocket(w)
  BY <1>7 DEF CloseSocket, Peer
<1>8. CASE CheckQueue(w) \/ Poll(w) \/ PollEmpty(w) \/ Deref(w)
  BY <1>8, TableFrame DEF CheckQueue, Poll, PollEmpty, Deref, workerVars
<1>. QED  BY <1>1, <1>2, <1>3, <1>4, <1>5, <1>6, <1>7, <1>8 DEF Worker

LEMMA TableInvariant == Spec => []Table
<1>1. Init => Table
  BY PoolAssumption DEF PoolAssumption, Init, Table, OneDescriptorPerConnection,
     HandledInOrder, NoConn
<1>2. Inv /\ Table /\ [Next]_vars => Table'
  <2> SUFFICES ASSUME Inv, Table, [Next]_vars PROVE Table'
    OBVIOUS
  <2>1. CASE UNCHANGED vars
    BY <2>1 DEF vars, workerVars, netVars, Table, OneDescriptorPerConnection, HandledInOrder
  <2>2. CASE Next
    BY <2>2, BossTable, WorkerTable DEF Next
  <2>. QED  BY <2>1, <2>2
<1>. QED  BY InitInv, NextInv, <1>1, <1>2, PTL DEF Spec

\* However often a stale number is closed, no two descriptors name one connection, and one
\* that was shut down is on its way to be closed by the worker that did it.
THEOREM DescriptorsAreUnique == Spec => []OneDescriptorPerConnection
<1>1. Table => OneDescriptorPerConnection
  BY DEF Table
<1>. QED  BY TableInvariant, <1>1, PTL

\* An answer never goes to a connection older than its request.
THEOREM AnswersNeverGoBack == Spec => []HandledInOrder
<1>1. Table => HandledInOrder
  BY DEF Table
<1>. QED  BY TableInvariant, <1>1, PTL

-----------------------------------------------------------------------------
(* The prompt pool.  Inv, IsFreeIsTrue and Table hold of it as of any.     *)

\* The boss has accepted a connection that no worker has been signalled to serve yet.
Fresh == bossPc \in {"search", "assign", "signal"}

\* From the signal to the close worker w holds a descriptor, and with it a connection.
Has(w)  == workerPc[w] \in {"woken", "take", "read", "header", "blocked",
                            "reply", "shutdown", "close"}
Held(w) == IF workerPc[w] \in {"woken", "take"} THEN SocketId[w] ELSE sd[w]
Conn(w) == owner[Held(w)]

\* Nobody queues, sleeps or searches in vain, and every thread is created.
Calm ==
  /\ qsize = 0
  /\ bossPc \notin {"sleep", "offer"}
  /\ threadCount \in Workers /\ from \in Workers /\ probe \in Workers
  /\ \A w \in Workers :
       /\ workerPc[w] \notin {"poll", "deref"}
       /\ workerPc[w] = "absent" => bossPc \in {"init", "create"} /\ w >= created
  /\ bossPc \in {"init", "create"} => accepted = 0

\* Worker w is still to be read by the search that is at probe and ends before from.
Ahead(w) == IF probe >= from THEN w >= probe \/ w < from ELSE probe <= w /\ w < from

\* The search has a waiting worker ahead of it, and what it found waits until the signal.
Found ==
  /\ bossPc = "search" => \E w \in Workers : workerPc[w] = "waiting" /\ Ahead(w)
  /\ bossPc \in {"assign", "signal"} => workerPc[threadCount] = "waiting"

\* Workers, and the boss's fresh connection, hold descriptors of their own, all open.
Holds ==
  /\ \A w \in Workers : Has(w) => Held(w) \in Fds /\ Conn(w) # NoConn
  /\ \A v, w \in Workers : Has(v) /\ Has(w) /\ Held(v) = Held(w) => v = w
  /\ Fresh => /\ new_sd \in Fds /\ owner[new_sd] = accepted /\ accepted # NoConn
              /\ \A w \in Workers : Has(w) => Held(w) # new_sd
  /\ bossPc = "signal" => SocketId[threadCount] = new_sd

\* How far the connection of each worker has come.
Come(w) ==
  /\ workerPc[w] \in {"header", "blocked", "reply"} => request[w] = Conn(w)
  /\ Has(w) => (Conn(w) \in shut <=> workerPc[w] = "close")
  /\ workerPc[w] = "reply" => Conn(w) \notin Silent
  /\ workerPc[w] = "shutdown" => Conn(w) \in Silent \/ <<Conn(w), Conn(w)>> \in handled
  /\ workerPc[w] \in {"woken", "take", "read", "header", "blocked", "reply"} =>
       <<Conn(w), Conn(w)>> \notin handled

Begun ==
  /\ ~crashed
  /\ \A w \in Workers : Come(w)
  /\ \A c \in Conns \cap Silent : unread[c] = 0
  /\ \A h \in handled : h[2] <= accepted
  /\ Fresh => accepted \notin shut /\ <<accepted, accepted>> \notin handled

\* No accepted connection is forgotten.
Covered ==
  \A c \in 1 .. accepted :
    c \in shut \/ (\E w \in Workers : Job(w) = c) \/ (Fresh /\ c = accepted)

-----------------------------------------------------------------------------
(* The search.                                                             *)

LEMMA NextIndex ==
  ASSUME NEW n \in Nat \ {0}, NEW i \in 0 .. n - 1
  PROVE  (i + 1) % n = IF i + 1 = n THEN 0 ELSE i + 1
<1>1. CASE i + 1 = n
  <2>1. n % n = 0
    OBVIOUS
  <2>. QED  BY <1>1, <2>1
<1>2. CASE i + 1 # n
  <2>1. i + 1 \in 0 .. n - 1
    BY <1>2
  <2>. QED  BY <1>2, <2>1
<1>. QED  BY <1>1, <1>2

LEMMA BossSettled ==
  ASSUME Inv, IsFreeIsTrue, Calm, Found, Boss, Prompt
  PROVE  Calm' /\ Found'
<1> USE PoolAssumption DEF PoolAssumption, Inv, TypeOK, Control, Calm, Found, Ahead, Workers,
      BossPcs, WorkerPcs, workerVars, netVars, At
<1>1. CASE InitPrimitives
  BY <1>1 DEF InitPrimitives
<1>2. CASE CreateWorker(TRUE)
  <2>1. created < MaxNumberOfThred /\ created' = created + 1 /\ created \in Workers
    BY <1>2 DEF CreateWorker
  <2>2. \A w \in Workers : workerPc'[w] = IF w = created THEN "idle" ELSE workerPc[w]
    BY <1>2 DEF CreateWorker
  <2>3. bossPc' = IF created + 1 = MaxNumberOfThred THEN "accept" ELSE "create"
    BY <1>2 DEF CreateWorker
  <2>. QED  BY <1>2, <2>1, <2>2, <2>3 DEF CreateWorker
<1>3. CASE CreateWorker(FALSE)
  BY <1>3 DEF Prompt
<1>4. CASE Accept
  <2>1. PICK w \in Workers : workerPc[w] = "waiting"
    BY <1>4 DEF Accept, Prompt
  <2>. QED  BY <1>4, <2>1 DEF Accept, BeginSearch
<1>5. CASE AcceptFails
  BY <1>5 DEF AcceptFails
<1>6. CASE ProbeHit
  <2>1. workerPc[probe] = "waiting"
    BY <1>6 DEF ProbeHit, Prompt
  <2>. QED  BY <1>6, <2>1 DEF ProbeHit
<1>7. CASE ProbeMiss
  <2>1. IsFree[probe] = FALSE
    BY <1>7 DEF ProbeMiss, Reads
  <2>2. PICK w \in Workers : workerPc[w] = "waiting" /\ Ahead(w)
    BY <1>7 DEF ProbeMiss
  <2>3. w # probe
    BY <2>1, <2>2 DEF IsFreeIsTrue, Waits
  <2>4. NextProbe = IF probe + 1 = MaxNumberOfThred THEN 0 ELSE probe + 1
    <3>1. MaxNumberOfThred \in Nat \ {0} /\ probe \in 0 .. MaxNumberOfThred - 1
      OBVIOUS
    <3>. QED  BY <3>1, NextIndex, Zenon DEF NextProbe
  <2>5. NextProbe # from
    BY <2>2, <2>3, <2>4
  <2>6. bossPc' = bossPc /\ probe' = NextProbe /\ from' = from /\ workerPc' = workerPc
    BY <1>7, <2>5 DEF ProbeMiss
  <2>7. Ahead(w)'
    BY <2>2, <2>3, <2>4, <2>5, <2>6
  <2>. QED  BY <1>7, <2>2, <2>4, <2>6, <2>7 DEF ProbeMiss
<1>8. CASE SearchAgain \/ GiveUp \/ Offer
  BY <1>8 DEF SearchAgain, GiveUp, Offer
<1>9. CASE Assign
  BY <1>9 DEF Assign
<1>10. CASE Signal
  BY <1>10 DEF Signal, NextThread
<1>. QED  BY <1>1, <1>2, <1>3, <1>4, <1>5, <1>6, <1>7, <1>8, <1>9, <1>10 DEF Boss

LEMMA WorkerSettled ==
  ASSUME Inv, Calm, Found, NEW w \in Workers, Worker(w)
  PROVE  Calm' /\ Found' /\ UNCHANGED bossVars
<1> USE DEF Inv, TypeOK, Calm, Found, Ahead, Goto, bossVars, netVars
<1>1. CASE \/ MarkFree(w) \/ CondWait(w) \/ CondReturn(w) \/ TakeRequest(w)
           \/ Reinit(w) \/ Relock(w)
  BY <1>1 DEF MarkFree, CondWait, CondReturn, TakeRequest, Reinit, Relock
<1>2. CASE ReadFails(w) \/ ReadRequest(w) \/ ReadHeader(w) \/ ReadBlocks(w) \/ ReadEOF(w)
  BY <1>2 DEF ReadFails, ReadRequest, ReadHeader, ReadParts, ReadBlocks, ReadEOF
<1>3. CASE Reply(w) \/ Shutdown(w) \/ CloseSocket(w) \/ CheckQueue(w)
  BY <1>3 DEF Reply, Shutdown, CloseSocket, CheckQueue
<1>4. CASE Poll(w) \/ PollEmpty(w) \/ Deref(w)
  BY <1>4 DEF Poll, PollEmpty, Deref
<1>. QED  BY <1>1, <1>2, <1>3, <1>4 DEF Worker
-----------------------------------------------------------------------------
(* The descriptors.                                                        *)

LEMMA BossHolds ==
  ASSUME Inv, Calm, Found, Holds, Boss, Prompt
  PROVE  Holds'
<1> USE PoolAssumption DEF PoolAssumption, Inv, TypeOK, Control, Holds, Has, Held, Conn, Fresh,
      Workers, NoConn, workerVars, netVars, At
<1>1. CASE InitPrimitives \/ AcceptFails
  BY <1>1 DEF InitPrimitives, AcceptFails
<1>2. CASE CreateWorker(TRUE)
  <2>1. created \in Workers /\ workerPc[created] = "absent"
    BY <1>2 DEF CreateWorker
  <2>2. \A w \in Workers : workerPc'[w] = IF w = created THEN "idle" ELSE workerPc[w]
    BY <1>2 DEF CreateWorker
  <2>. QED  BY <1>2, <2>1, <2>2 DEF CreateWorker
<1>3. CASE Accept
  <2>1. PICK d \in FreeFds : new_sd' = d /\ owner' = [owner EXCEPT ![d] = accepted + 1]
    BY <1>3 DEF Accept
  <2>2. d \in Fds /\ owner[d] = NoConn
    BY DEF FreeFds
  <2>3. \A e \in Fds : owner'[e] = IF e = d THEN accepted + 1 ELSE owner[e]
    BY <2>1, <2>2
  <2>4. \A w \in Workers : Has(w)' = Has(w) /\ Held(w)' = Held(w)
    BY <1>3 DEF Accept
  <2>5. \A w \in Workers : Has(w) => Held(w) # d
    BY <2>2
  <2>6. UNCHANGED <<workerPc, sd, SocketId>> /\ bossPc' = "search" /\ accepted' = accepted + 1
    BY <1>3 DEF Accept, BeginSearch
  <2>. QED  BY <2>1, <2>2, <2>3, <2>5, <2>6
<1>4. CASE ProbeHit \/ ProbeMiss
  BY ZenonT(40), <1>4 DEF ProbeHit, ProbeMiss, Calm
<1>5. CASE CreateWorker(FALSE) \/ SearchAgain \/ GiveUp \/ Offer
  BY <1>5 DEF Prompt, Calm, SearchAgain, GiveUp, Offer
<1>6. CASE Assign
  <2>1. \A w \in Workers : SocketId'[w] = IF w = threadCount THEN new_sd ELSE SocketId[w]
    BY <1>6 DEF Assign
  <2>. QED  BY <1>6, <2>1 DEF Assign, Found
<1>7. CASE Signal
  <2>1. workerPc[threadCount] = "waiting" /\ SocketId[threadCount] = new_sd
    BY <1>7 DEF Signal, Found
  <2>2. \A w \in Workers : workerPc'[w] = IF w = threadCount THEN "woken" ELSE workerPc[w]
    BY <1>7, <2>1 DEF Signal
  <2>. QED  BY <1>7, <2>1, <2>2 DEF Signal
<1>. QED  BY <1>1, <1>2, <1>3, <1>4, <1>5, <1>6, <1>7 DEF Boss

\* A step of a worker that opens and closes nothing, and takes nothing it did not have.
LEMMA HoldsFrame ==
  ASSUME Holds, UNCHANGED <<bossPc, new_sd, threadCount, owner, accepted, SocketId>>,
         \A w \in Workers : Has(w)' => Has(w) /\ Held(w)' = Held(w)
  PROVE  Holds'
  BY DEF Holds, Conn, Fresh

LEMMA WorkerHolds ==
  ASSUME Inv, Calm, Holds, NEW w \in Workers, Worker(w)
  PROVE  Holds'
<1> USE DEF Inv, TypeOK, Has, Held, Goto, bossVars, netVars
<1>1. CASE \/ MarkFree(w) \/ CondWait(w) \/ CondReturn(w) \/ Reinit(w) \/ Relock(w)
  BY <1>1, HoldsFrame DEF MarkFree, CondWait, CondReturn, Reinit, Relock
<1>2. CASE TakeRequest(w)
  <2>1. SocketId[w] # Uninit
    BY <1>2 DEF TakeRequest, Holds, Fds, Uninit
  <2>2. \A v \in Workers : sd'[v] = IF v = w THEN SocketId[w] ELSE sd[v]
    BY <1>2, <2>1 DEF TakeRequest
  <2>. QED  BY <1>2, <2>2, HoldsFrame DEF TakeRequest
<1>3. CASE ReadFails(w) \/ ReadRequest(w) \/ ReadHeader(w) \/ ReadBlocks(w) \/ ReadEOF(w)
  BY <1>3, HoldsFrame DEF ReadFails, ReadRequest, ReadHeader, ReadParts, ReadBlocks, ReadEOF
<1>4. CASE Reply(w) \/ Shutdown(w) \/ CheckQueue(w)
  BY <1>4, HoldsFrame DEF Reply, Shutdown, CheckQueue
<1>5. CASE CloseSocket(w)
  <2>1. Has(w) /\ Held(w) = sd[w] /\ ~Has(w)'
    BY <1>5 DEF CloseSocket
  <2>2. \A v \in Workers : v # w => workerPc'[v] = workerPc[v]
    BY <1>5 DEF CloseSocket
  <2>3. \A d \in Fds : d # sd[w] => owner'[d] = owner[d]
    BY <1>5 DEF CloseSocket
  <2>. QED  BY <1>5, <2>1, <2>2, <2>3 DEF CloseSocket, Holds, Conn, Fresh
<1>6. CASE Poll(w) \/ PollEmpty(w) \/ Deref(w)
  BY <1>6 DEF Poll, PollEmpty, Deref, Calm
<1>. QED  BY <1>1, <1>2, <1>3, <1>4, <1>5, <1>6 DEF Worker
-----------------------------------------------------------------------------
(* What became of each connection.                                         *)

\* Descriptors of one's own are connections of one's own.
LEMMA OwnConnections ==
  ASSUME Inv, Table, Holds
  PROVE  /\ \A v, w \in Workers : Has(v) /\ Has(w) /\ Conn(v) = Conn(w) => v = w
         /\ Fresh => \A w \in Workers : Has(w) => Conn(w) # accepted
  BY DEF Holds, Conn, Table, OneDescriptorPerConnection, NoConn

LEMMA HolderPeer ==
  ASSUME Holds, NEW w \in Workers, Has(w), workerPc[w] \notin {"woken", "take"}
  PROVE  Peer(w) = Conn(w) /\ sd[w] = Held(w) /\ Conn(w) # NoConn
  BY DEF Holds, Peer, Conn, Held

LEMMA BossBegun ==
  ASSUME Inv, Table, Calm, Found, Holds, Begun, Boss, Prompt
  PROVE  Begun'
<1> USE PoolAssumption DEF PoolAssumption, Inv, TypeOK, Control, Begun, Come, Has, Held,
   Conn, Fresh,
      Workers, NoConn, workerVars, netVars, At
<1>1. CASE InitPrimitives \/ AcceptFails \/ ProbeHit \/ ProbeMiss
  <2>1. UNCHANGED <<workerVars, netVars, SocketId, crashed>>
    BY <1>1 DEF InitPrimitives, AcceptFails, ProbeHit, ProbeMiss
  <2>2. Fresh' => Fresh
    BY <1>1 DEF InitPrimitives, AcceptFails, ProbeHit, ProbeMiss
  <2>. QED  BY <2>1, <2>2
<1>2. CASE CreateWorker(TRUE)
  <2>1. created \in Workers /\ workerPc[created] = "absent"
    BY <1>2 DEF CreateWorker
  <2>2. \A w \in Workers : workerPc'[w] = IF w = created THEN "idle" ELSE workerPc[w]
    BY <1>2 DEF CreateWorker
  <2>. QED  BY <1>2, <2>1, <2>2 DEF CreateWorker
<1>3. CASE Accept
  <2>1. PICK d \in FreeFds : owner' = [owner EXCEPT ![d] = accepted + 1]
    BY <1>3 DEF Accept
  <2>2. d \in Fds /\ owner[d] = NoConn
    BY DEF FreeFds
  <2>3. \A w \in Workers : Has(w) => Held(w) # d
    BY <2>2 DEF Holds
  <2>4. UNCHANGED <<workerPc, sd, SocketId, request, shut, handled, crashed>>
        /\ accepted' = accepted + 1
    BY <1>3 DEF Accept
  <2>5. \A w \in Workers : Has(w) => Conn(w)' = Conn(w)
    BY <2>1, <2>2, <2>3, <2>4 DEF Holds
  <2>6. (\A c \in Conns \cap Silent : unread[c] = 0)'
    BY <1>3 DEF Accept
  <2>7. accepted' \notin shut /\ <<accepted', accepted'>> \notin handled
    BY <2>4 DEF Table
  <2>8. \A w \in Workers : Come(w)'
    BY SMTT(30), <2>4, <2>5
  <2>9. \A h \in handled : h[2] \in Int
    BY DEF Conns
  <2>10. \A h \in handled' : h[2] <= accepted'
    BY <2>4, <2>9
  <2>. QED  BY <2>4, <2>6, <2>7, <2>8, <2>10
<1>4. CASE CreateWorker(FALSE) \/ SearchAgain \/ GiveUp \/ Offer
  BY <1>4 DEF Prompt, Calm, SearchAgain, GiveUp, Offer
<1>5. CASE Assign
  <2>1. \A w \in Workers : SocketId'[w] = IF w = threadCount THEN new_sd ELSE SocketId[w]
    BY <1>5 DEF Assign
  <2>. QED  BY <1>5, <2>1 DEF Assign, Found
<1>6. CASE Signal
  <2>1. workerPc[threadCount] = "waiting" /\ SocketId[threadCount] = new_sd
    BY <1>6 DEF Signal, Found, Holds
  <2>2. \A w \in Workers : workerPc'[w] = IF w = threadCount THEN "woken" ELSE workerPc[w]
    BY <1>6, <2>1 DEF Signal
  <2>3. owner[new_sd] = accepted
    BY <1>6 DEF Signal, Holds
  <2>. QED  BY ZenonT(40), <1>6, <2>1, <2>2, <2>3 DEF Signal
<1>. QED  BY <1>1, <1>2, <1>3, <1>4, <1>5, <1>6 DEF Boss

LEMMA WorkerBegun ==
  ASSUME Inv, Table, Calm, Holds, Begun, NEW w \in Workers, Worker(w)
  PROVE  Begun'
<1> USE DEF Inv, TypeOK, Begun, Come, Has, Held, Conn, Fresh, Goto, bossVars, netVars
<1>1. CASE \/ MarkFree(w) \/ CondWait(w) \/ CondReturn(w) \/ Reinit(w) \/ Relock(w)
           \/ CheckQueue(w)
  BY <1>1 DEF MarkFree, CondWait, CondReturn, Reinit, Relock, CheckQueue
<1>2. CASE TakeRequest(w)
  <2>1. SocketId[w] # Uninit
    BY <1>2 DEF TakeRequest, Holds, Fds, Uninit
  <2>2. \A v \in Workers : sd'[v] = IF v = w THEN SocketId[w] ELSE sd[v]
    BY <1>2, <2>1 DEF TakeRequest
  <2>3. \A v \in Workers : workerPc'[v] = IF v = w THEN "read" ELSE workerPc[v]
    BY <1>2 DEF TakeRequest
  <2>. QED  BY <1>2, <2>2, <2>3 DEF TakeRequest
<1>3. CASE ReadFails(w)
  BY <1>3, HolderPeer DEF ReadFails
<1>4. CASE ReadRequest(w) \/ ReadHeader(w) \/ ReadBlocks(w)
  <2>1. Peer(w) = Conn(w)
    BY <1>4, HolderPeer DEF ReadRequest, ReadHeader, ReadParts, ReadBlocks
  <2>2. request[w] = Conn(w) \/ request'[w] = Conn(w)
    BY <1>4, <2>1 DEF ReadRequest, ReadHeader, ReadParts, ReadBlocks
  <2>3. request'[w] = Conn(w)
    BY <1>4, <2>1, <2>2 DEF ReadRequest, ReadHeader, ReadParts, ReadBlocks
  <2>4. \A v \in Workers : v # w => workerPc'[v] = workerPc[v] /\ request'[v] = request[v]
    BY <1>4 DEF ReadRequest, ReadHeader, ReadParts, ReadBlocks
  <2>5. /\ workerPc[w] \in {"read", "header"}
        /\ workerPc'[w] \in {"header", "blocked", "reply"}
        /\ UNCHANGED <<sd, SocketId, owner, accepted, shut, handled, bossPc, crashed>>
    BY <1>4 DEF ReadRequest, ReadHeader, ReadParts, ReadBlocks
  <2>6. workerPc'[w] = "reply" => Conn(w) \notin Silent
    BY <1>4, <2>1 DEF ReadRequest, ReadHeader, ReadParts, ReadBlocks, Peer
  <2>7. (\A c \in Conns \cap Silent : unread[c] = 0)'
    BY <1>4 DEF ReadRequest, ReadHeader, ReadParts, ReadBlocks
  <2>8. ASSUME NEW v \in Workers PROVE Come(v)'
    BY <2>3, <2>4, <2>5, <2>6
  <2>. QED  BY <2>5, <2>7, <2>8
<1>5. CASE ReadEOF(w)
  BY <1>5 DEF ReadEOF
<1>6. CASE Reply(w)
  <2>1. Peer(w) = Conn(w) /\ Conn(w) # NoConn /\ request[w] = Conn(w) /\ Conn(w) \notin shut
    BY <1>6, HolderPeer DEF Reply
  <2>2. handled' = handled \cup {<<Conn(w), Conn(w)>>} /\ ~crashed'
    BY <1>6, <2>1 DEF Reply
  <2>3. \A v \in Workers : Has(v) /\ v # w => Conn(v) # Conn(w)
    BY <1>6, OwnConnections DEF Reply
  <2>4. Fresh => Conn(w) # accepted
    BY <1>6, OwnConnections DEF Reply
  <2>5. Conn(w) <= accepted
    BY <1>6 DEF Holds, Table, Reply
  <2>6. /\ \A v \in Workers : workerPc'[v] = IF v = w THEN "shutdown" ELSE workerPc[v]
        /\ \A v \in Workers : v # w => request'[v] = request[v]
        /\ UNCHANGED <<sd, SocketId, owner, accepted, unread, shut, bossPc>>
    BY <1>6 DEF Reply
  <2>7. ASSUME NEW v \in Workers PROVE Come(v)'
    BY <1>6, <2>1, <2>2, <2>3, <2>6 DEF Reply
  <2>8. \A h \in handled' : h[2] <= accepted'
    BY <2>2, <2>5, <2>6
  <2>. QED  BY <2>2, <2>4, <2>6, <2>7, <2>8
<1>7. CASE Shutdown(w)
  <2>1. Peer(w) = Conn(w) /\ Conn(w) # NoConn
    BY <1>7, HolderPeer DEF Shutdown
  <2>2. shut' = shut \cup {Conn(w)}
    BY <1>7, <2>1 DEF Shutdown
  <2>3. \A v \in Workers : Has(v) /\ v # w => Conn(v) # Conn(w)
    BY <1>7, OwnConnections DEF Shutdown
  <2>4. Fresh => Conn(w) # accepted
    BY <1>7, OwnConnections DEF Shutdown
  <2>5. /\ \A v \in Workers : workerPc'[v] = IF v = w THEN "close" ELSE workerPc[v]
        /\ UNCHANGED <<sd, SocketId, owner, accepted, unread, handled, bossPc, request,
                       crashed>>
    BY <1>7 DEF Shutdown
  <2>6. ASSUME NEW v \in Workers PROVE Come(v)'
    BY <1>7, <2>2, <2>3, <2>5 DEF Shutdown
  <2>. QED  BY <2>2, <2>4, <2>5, <2>6
<1>8. CASE CloseSocket(w)
  <2>1. Peer(w) = Conn(w) /\ sd[w] = Held(w) /\ Conn(w) \in shut
    BY <1>8, HolderPeer DEF CloseSocket
  <2>2. shut' = shut
    BY <1>8, <2>1 DEF CloseSocket
  <2>3. \A v \in Workers : Has(v) /\ v # w => Conn(v)' = Conn(v)
    BY <1>8, <2>1 DEF CloseSocket, Holds
  <2>4. /\ \A v \in Workers : workerPc'[v] = IF v = w THEN "check" ELSE workerPc[v]
        /\ UNCHANGED <<sd, SocketId, accepted, unread, handled, bossPc, request, crashed>>
    BY <1>8 DEF CloseSocket
  <2>. QED  BY <2>2, <2>3, <2>4
<1>9. CASE Poll(w) \/ PollEmpty(w) \/ Deref(w)
  BY <1>9 DEF Poll, PollEmpty, Deref, Calm
<1>. QED  BY <1>1, <1>2, <1>3, <1>4, <1>5, <1>6, <1>7, <1>8, <1>9 DEF Worker
-----------------------------------------------------------------------------
(* The steps of Dispatcher.                                                *)

LEMMA JobOfHolder ==
  ASSUME Holds, NEW w \in Workers
  PROVE  Job(w) = IF Has(w) /\ workerPc[w] # "close" THEN Conn(w) ELSE NoConn
<1>1. CASE workerPc[w] \in {"woken", "take"}
  BY <1>1 DEF Job, Named, Has, Held, Conn, Holds
<1>2. CASE workerPc[w] \in {"read", "header", "blocked", "reply", "shutdown"}
  BY <1>2 DEF Job, Named, Has, Held, Conn, Holds
<1>3. CASE workerPc[w] \notin {"woken", "take", "read", "header", "blocked", "reply",
                          "shutdown"}
  BY <1>3 DEF Job, Has
<1>. QED  BY <1>1, <1>2, <1>3

LEMMA JobThen ==
  ASSUME Holds', NEW w \in Workers
  PROVE  Job(w)' = (IF Has(w) /\ workerPc[w] # "close" THEN Conn(w) ELSE NoConn)'
<1>1. CASE workerPc'[w] \in {"woken", "take"}
  BY <1>1 DEF Job, Named, Has, Held, Conn, Holds
<1>2. CASE workerPc'[w] \in {"read", "header", "blocked", "reply", "shutdown"}
  BY <1>2 DEF Job, Named, Has, Held, Conn, Holds
<1>3. CASE workerPc'[w] \notin {"woken", "take", "read", "header", "blocked", "reply",
                          "shutdown"}
  BY <1>3 DEF Job, Has
<1>. QED  BY <1>1, <1>2, <1>3

LEMMA SameJob ==
  ASSUME Holds, Holds', NEW w \in Workers, workerPc'[w] = workerPc[w],
         Has(w) => Conn(w)' = Conn(w)
  PROVE  Job(w)' = Job(w)
<1>1. Has(w)' = Has(w)
  BY DEF Has
<1>. QED  BY JobOfHolder, JobThen, <1>1

\* A step that changes no worker's connection is none of Dispatcher's.
LEMMA Stutter ==
  ASSUME Covered, \A w \in Workers : Job(w)' = Job(w),
         UNCHANGED <<accepted, handled, shut>>, Fresh => Fresh'
  PROVE  Covered' /\ UNCHANGED D!dvars
<1>1. UNCHANGED [w \in Workers |-> Job(w)]
  OBVIOUS
<1>. QED  BY <1>1 DEF Covered, D!dvars

LEMMA BossDispatches ==
  ASSUME Inv, Table, Calm, Calm', Found, Holds, Holds', Begun, Covered, Boss, Prompt
  PROVE  Covered' /\ [D!Next]_(D!dvars)
<1> USE PoolAssumption DEF PoolAssumption, Inv, TypeOK, Control, Has, Held, Conn, Fresh,
      Workers, NoConn, workerVars, netVars, At
<1> DEFINE job == [w \in Workers |-> Job(w)]
<1>1. CASE InitPrimitives \/ AcceptFails \/ ProbeHit \/ ProbeMiss
  <2>1. UNCHANGED <<workerVars, netVars, SocketId, crashed>>
    BY <1>1 DEF InitPrimitives, AcceptFails, ProbeHit, ProbeMiss
  <2>2. Fresh => Fresh'
    BY <1>1 DEF InitPrimitives, AcceptFails, ProbeHit, ProbeMiss, Calm
  <2>3. \A w \in Workers : Job(w)' = Job(w)
    BY ZenonT(40), JobOfHolder, JobThen, <2>1
  <2>. QED  BY <2>1, <2>2, <2>3, Stutter
<1>2. CASE CreateWorker(TRUE)
  <2>1. created \in Workers /\ workerPc[created] = "absent"
    BY <1>2 DEF CreateWorker
  <2>2. \A w \in Workers : workerPc'[w] = IF w = created THEN "idle" ELSE workerPc[w]
    BY <1>2 DEF CreateWorker
  <2>3. UNCHANGED <<sd, SocketId, owner>>
    BY <1>2 DEF CreateWorker
  <2>4. ASSUME NEW w \in Workers PROVE Job(w)' = Job(w)
    <3>1. CASE w = created
      BY <2>1, <2>2, <3>1 DEF Job
    <3>2. CASE w # created
      <4>1. workerPc'[w] = workerPc[w] /\ Conn(w)' = Conn(w)
        BY <2>2, <2>3, <3>2
      <4> HIDE DEF Has, Held, Conn
      <4>. QED  BY <4>1, SameJob
    <3>. QED  BY <3>1, <3>2
  <2>5. UNCHANGED <<accepted, handled, shut>> /\ (Fresh => Fresh')
    BY <1>2 DEF CreateWorker
  <2> HIDE DEF Fresh
  <2>. QED  BY <2>4, <2>5, Stutter
<1>3. CASE Accept
  <2>1. PICK d \in FreeFds : owner' = [owner EXCEPT ![d] = accepted + 1]
    BY <1>3 DEF Accept
  <2>2. d \in Fds /\ owner[d] = NoConn
    BY DEF FreeFds
  <2>3. \A w \in Workers : Has(w) => Held(w) # d
    BY <2>2 DEF Holds
  <2>4. UNCHANGED <<workerPc, sd, SocketId, shut, handled>>
        /\ accepted' = accepted + 1 /\ accepted < MaxConn /\ bossPc = "accept" /\ Fresh'
    BY <1>3 DEF Accept, BeginSearch
  <2>5. ASSUME NEW w \in Workers PROVE Job(w)' = Job(w)
    <3>1. Has(w) => Conn(w)' = Conn(w)
      BY <2>1, <2>2, <2>3, <2>4 DEF Holds
    <3> HIDE DEF Has, Held, Conn
    <3>. QED  BY <2>4, <3>1, SameJob
  <2>6. Covered'
    BY <2>4, <2>5 DEF Covered
  <2>7. UNCHANGED job
    BY <2>5
  <2>8. D!Arrive
    BY <2>4, <2>7 DEF D!Arrive
  <2>. QED  BY <2>6, <2>8 DEF D!Next
<1>4. CASE CreateWorker(FALSE) \/ SearchAgain \/ GiveUp \/ Offer
  BY <1>4 DEF Prompt, Calm, SearchAgain, GiveUp, Offer
<1>5. CASE Assign
  <2>1. \A w \in Workers : SocketId'[w] = IF w = threadCount THEN new_sd ELSE SocketId[w]
    BY <1>5 DEF Assign
  <2>2. \A w \in Workers : Job(w)' = Job(w)
    <3>1. workerPc[threadCount] = "waiting" /\ UNCHANGED <<workerPc, sd, owner>>
      BY <1>5 DEF Assign, Found
    <3>2. \A w \in Workers : Has(w) => Held(w)' = Held(w)
      BY <2>1, <3>1
    <3>3. \A w \in Workers : Has(w) => Conn(w)' = Conn(w)
      BY <3>1, <3>2
    <3>4. \A w \in Workers : Has(w)' = Has(w)
      BY <3>1
    <3> HIDE DEF Has, Held, Conn
    <3>. QED  BY JobOfHolder, JobThen, <3>1, <3>3, <3>4
  <2>. QED  BY <1>5, <2>2, Stutter DEF Assign
<1>6. CASE Signal
  <2>1. PICK t \in Workers : t = threadCount
    BY DEF Calm
  <2>2. workerPc[t] = "waiting" /\ SocketId[t] = new_sd /\ owner[new_sd] = accepted
    BY <1>6, <2>1 DEF Signal, Found, Holds
  <2>3. \A w \in Workers : workerPc'[w] = IF w = t THEN "woken" ELSE workerPc[w]
    BY <1>6, <2>1, <2>2 DEF Signal
  <2>4. UNCHANGED <<sd, SocketId, owner, accepted, shut, handled>> /\ Fresh
    BY <1>6 DEF Signal
  <2>5. Job(t) = NoConn /\ Job(t)' = accepted
    <3>1. ~Has(t) /\ Has(t)' /\ workerPc'[t] # "close" /\ Conn(t)' = accepted
      BY <2>2, <2>3, <2>4
    <3>. QED  BY JobOfHolder, JobThen, <3>1
  <2>6. \A w \in Workers : w # t => Job(w)' = Job(w)
    <3>1. \A w \in Workers : w # t => /\ workerPc'[w] = workerPc[w] /\ Has(w)' = Has(w)
                                      /\ Conn(w)' = Conn(w)
      BY <2>3, <2>4
    <3> HIDE DEF Has, Held, Conn
    <3>. QED  BY JobOfHolder, JobThen, <3>1
  <2>7. Covered'
    BY <2>4, <2>5, <2>6 DEF Covered
  <2>8. job' = [job EXCEPT ![t] = accepted]
    BY <2>5, <2>6
  <2>9. accepted \in D!Pending /\ \A c \in D!Pending : c = accepted
    <3>1. accepted # NoConn /\ accepted \notin shut
      BY <2>4 DEF Holds, Begun
    <3>2. ASSUME NEW w \in Workers PROVE Job(w) # accepted
      <4> HIDE DEF Has, Held, Conn, Fresh
      <4>. QED  BY JobOfHolder, <2>4, <3>1, OwnConnections
    <3>3. \A c \in D!Pending : c \in 1 .. accepted /\ c \notin shut
                                /\ \A w \in Workers : Job(w) # c
      BY DEF D!Pending
    <3>4. \A c \in D!Pending : c = accepted
      BY <3>3 DEF Covered
    <3>5. accepted \in D!Pending
      BY <3>1, <3>2 DEF D!Pending
    <3>. QED  BY <3>4, <3>5
  <2>10. D!Dispatch(t)
    <3>1. job[t] = D!NoConn
      BY <2>5 DEF D!NoConn
    <3>2. \A c \in D!Pending : accepted <= c
      BY <2>9
    <3>. QED  BY <2>4, <2>8, <2>9, <3>1, <3>2 DEF D!Dispatch
  <2>. QED  BY <2>1, <2>7, <2>10 DEF D!Next
<1>. QED  BY <1>1, <1>2, <1>3, <1>4, <1>5, <1>6 DEF Boss

LEMMA WorkerDispatches ==
  ASSUME Inv, Table, Calm, Holds, Holds', Begun, Covered, NEW w \in Workers, Worker(w)
  PROVE  Covered' /\ [D!Next]_(D!dvars)
<1> USE DEF Inv, TypeOK, Goto, bossVars, netVars
<1> DEFINE job == [v \in Workers |-> Job(v)]
<1>1. CASE \/ MarkFree(w) \/ CondWait(w) \/ CondReturn(w) \/ TakeRequest(w)
           \/ ReadFails(w) \/ ReadRequest(w) \/ ReadHeader(w) \/ ReadBlocks(w) \/ ReadEOF(w)
           \/ CheckQueue(w) \/ Reinit(w) \/ Relock(w)
  <2>1. UNCHANGED <<owner, accepted, shut, handled, SocketId, bossPc>>
    BY <1>1 DEF MarkFree, CondWait, CondReturn, TakeRequest, ReadFails, ReadRequest,
       ReadHeader, ReadParts, ReadBlocks,
       ReadEOF, CheckQueue, Reinit, Relock
  <2>2. \A v \in Workers : v # w => workerPc'[v] = workerPc[v] /\ sd'[v] = sd[v]
    BY <1>1 DEF MarkFree, CondWait, CondReturn, TakeRequest, ReadFails, ReadRequest,
       ReadHeader, ReadParts, ReadBlocks,
       ReadEOF, CheckQueue, Reinit, Relock
  <2>3. \A v \in Workers : v # w => Job(v)' = Job(v)
    BY <2>1, <2>2, SameJob DEF Has, Held, Conn
  <2>4. Job(w)' = Job(w)
    <3>1. CASE MarkFree(w) \/ CondWait(w) \/ CheckQueue(w) \/ Reinit(w) \/ Relock(w)
      BY <3>1 DEF Job, MarkFree, CondWait, CheckQueue, Reinit, Relock
    <3>2. CASE CondReturn(w)
      BY <2>1, <3>2 DEF Job, Named, CondReturn
    <3>3. CASE TakeRequest(w)
      <4>1. SocketId[w] # Uninit
        BY <3>3 DEF TakeRequest, Holds, Has, Held, Fds, Uninit
      <4>2. sd'[w] = SocketId[w] /\ workerPc[w] = "take" /\ workerPc'[w] = "read"
        BY <3>3, <4>1 DEF TakeRequest
      <4>. QED  BY <2>1, <4>2 DEF Job, Named
    <3>4. CASE ReadFails(w) \/ ReadRequest(w) \/ ReadHeader(w) \/ ReadBlocks(w) \/ ReadEOF(w)
      BY <2>1, <3>4 DEF Job, Named, ReadFails, ReadRequest, ReadHeader, ReadParts,
         ReadBlocks, ReadEOF
    <3>. QED  BY <1>1, <3>1, <3>2, <3>3, <3>4
  <2>. QED  BY <2>1, <2>3, <2>4, Stutter DEF Fresh
<1>2. CASE Reply(w)
  <2>1. /\ Has(w) /\ Peer(w) = Conn(w) /\ request[w] = Conn(w)
        /\ Conn(w) \notin shut \cup {NoConn} \cup Silent
        /\ <<Conn(w), Conn(w)>> \notin handled
    BY <1>2, HolderPeer DEF Reply, Has, Begun, Come
  <2>2. Job(w) = Conn(w)
    BY <1>2, <2>1, JobOfHolder DEF Reply
  <2>3. handled' = handled \cup {<<Job(w), Job(w)>>}
    BY <1>2, <2>1, <2>2 DEF Reply
  <2>4. \A v \in Workers : Job(v)' = Job(v)
    <3>1. \A v \in Workers : v # w => Job(v)' = Job(v)
      BY <1>2, SameJob DEF Reply, Has, Held, Conn
    <3>2. Job(w)' = Job(w)
      BY <1>2 DEF Reply, Job, Named
    <3>. QED  BY <3>1, <3>2
  <2>5. UNCHANGED <<bossPc, accepted, shut>>
    BY <1>2 DEF Reply
  <2>6. Covered'
    BY <2>4, <2>5 DEF Covered, Fresh
  <2>7. D!Answer(w)
    <3>1. UNCHANGED job
      BY <2>4
    <3>. QED  BY <2>1, <2>2, <2>3, <2>5, <3>1 DEF D!Answer, D!NoConn, NoConn
  <2>. QED  BY <2>6, <2>7 DEF D!Next
<1>3. CASE Shutdown(w)
  <2>1. Has(w) /\ Peer(w) = Conn(w) /\ Conn(w) # NoConn
    BY <1>3, HolderPeer DEF Shutdown, Has
  <2>2. Job(w) = Conn(w)
    BY <1>3, <2>1, JobOfHolder DEF Shutdown
  <2>3. shut' = shut \cup {Job(w)}
    BY <1>3, <2>1, <2>2 DEF Shutdown
  <2>4. \A v \in Workers : v # w => Job(v)' = Job(v)
    BY <1>3, SameJob DEF Shutdown, Has, Held, Conn
  <2>5. Job(w)' = NoConn
    BY <1>3 DEF Shutdown, Job
  <2>6. UNCHANGED <<bossPc, accepted, handled>>
    BY <1>3 DEF Shutdown
  <2>7. Covered'
    BY <2>3, <2>4, <2>5, <2>6 DEF Covered, Fresh
  <2>8. job' = [job EXCEPT ![w] = NoConn]
    BY <2>4, <2>5
  <2>9. Job(w) \in Silent \/ <<Job(w), Job(w)>> \in handled
    BY <1>3, <2>2 DEF Shutdown, Begun, Come
  <2>10. D!Finish(w)
    BY <2>1, <2>2, <2>3, <2>6, <2>8, <2>9 DEF D!Finish, D!NoConn, NoConn
  <2>. QED  BY <2>7, <2>10 DEF D!Next
<1>4. CASE CloseSocket(w)
  <2>1. Has(w) /\ Peer(w) = Conn(w) /\ sd[w] = Held(w) /\ Conn(w) \in shut
    BY <1>4, HolderPeer DEF CloseSocket, Has, Begun, Come
  <2>2. UNCHANGED <<shut, accepted, handled, bossPc>>
    BY <1>4, <2>1 DEF CloseSocket
  <2>3. \A v \in Workers : Has(v) /\ v # w => Conn(v)' = Conn(v)
    BY <1>4, <2>1 DEF CloseSocket, Holds, Held, Conn
  <2>4. \A v \in Workers : v # w => Job(v)' = Job(v)
    BY <1>4, <2>3, SameJob DEF CloseSocket
  <2>5. Job(w)' = Job(w)
    BY <1>4 DEF CloseSocket, Job
  <2>. QED  BY <2>2, <2>4, <2>5, Stutter DEF Fresh
<1>5. CASE Poll(w) \/ PollEmpty(w) \/ Deref(w)
  BY <1>5 DEF Poll, PollEmpty, Deref, Calm
<1>. QED  BY <1>1, <1>2, <1>3, <1>4, <1>5 DEF Worker

-----------------------------------------------------------------------------
(* The theorems.                                                           *)

PromptInv == Inv /\ IsFreeIsTrue /\ Table /\ Calm /\ Found /\ Holds /\ Begun /\ Covered

LEMMA PromptStarts == Init => PromptInv /\ D!Init
<1> SUFFICES ASSUME Init PROVE PromptInv /\ D!Init
  OBVIOUS
<1> USE PoolAssumption DEF PoolAssumption, Init
<1>1. IsFreeIsTrue
  BY DEF IsFreeIsTrue, Waits, Serves
<1>2. Table
  BY DEF Table, OneDescriptorPerConnection, HandledInOrder, NoConn
<1>3. Calm /\ Found
  BY DEF Calm, Found, Workers
<1>4. Holds /\ Begun /\ Covered
  BY DEF Holds, Begun, Come, Covered, Has, Fresh
<1>5. \A w \in Workers : Job(w) = NoConn
  BY DEF Job
<1>6. D!Init
  BY <1>5 DEF D!Init, D!NoConn, NoConn
<1>. QED  BY InitInv, <1>1, <1>2, <1>3, <1>4, <1>6 DEF PromptInv

\* One step of the prompt pool keeps the invariant and is one of Dispatcher's, or none.
LEMMA PromptStep ==
  ASSUME ~SpuriousWakeups, PromptInv, [PromptNext]_vars
  PROVE  PromptInv' /\ [D!Next]_(D!dvars)
<1> USE DEF PromptInv
<1>1. CASE UNCHANGED vars
  <2>1. UNCHANGED <<bossVars, workerVars, netVars, qsize, IsFree, SocketId, Mutex, crashed>>
    BY <1>1 DEF vars
  <2>2. UNCHANGED D!dvars
    BY <2>1 DEF D!dvars, Job, Named, workerVars, netVars
  <2>3. (IsFreeIsTrue /\ Table /\ Calm /\ Found)'
    BY <2>1 DEF IsFreeIsTrue, Waits, Serves, Table, OneDescriptorPerConnection, HandledInOrder,
       Calm, Found, Ahead, bossVars, workerVars, netVars
  <2>4. (Holds /\ Begun /\ Covered)'
    BY <2>1 DEF Holds, Begun, Come, Covered, Has, Held, Conn, Fresh, Job, Named, bossVars,
       workerVars, netVars
  <2>. QED  BY <1>1, <2>2, <2>3, <2>4, NextInv
<1>2. CASE Boss /\ Prompt
  BY <1>2, BossInv, BossFlags, BossTable, BossSettled, BossHolds, BossBegun, BossDispatches
<1>3. ASSUME NEW w \in Workers, Worker(w) PROVE PromptInv' /\ [D!Next]_(D!dvars)
  BY <1>3, WorkerInv, WorkerFlags, WorkerTable, WorkerSettled, WorkerHolds, WorkerBegun,
     WorkerDispatches
<1>. QED  BY <1>1, <1>2, <1>3 DEF PromptNext, Next, SpuriousWake

LEMMA AlwaysPrompt == ~SpuriousWakeups /\ PromptSpec => []PromptInv
<1> SUFFICES ASSUME ~SpuriousWakeups PROVE PromptSpec => []PromptInv
  OBVIOUS
<1>. QED  BY PromptStarts, PromptStep, PTL DEF PromptSpec

\* The safety half of ImplementsDispatcher: where every thread is created, a client comes
\* only while a worker waits, the worker the boss finds marked free is one that waits, and
\* nobody wakes up unsignalled, the pool begins as a dispatcher does, and each of its steps
\* is one of a dispatcher or changes nothing a dispatcher knows of: with the moments left
\* out in which IsFree is not what it says, nothing else of the hand-over goes wrong.
THEOREM Dispatches == ~SpuriousWakeups /\ PromptSpec => D!Init /\ [][D!Next]_(D!dvars)
<1> SUFFICES ASSUME ~SpuriousWakeups PROVE PromptSpec => D!Init /\ [][D!Next]_(D!dvars)
  OBVIOUS
<1>. QED  BY AlwaysPrompt, PromptStarts, PromptStep, PTL DEF PromptSpec
=============================================================================
