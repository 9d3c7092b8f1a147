------------------------------ MODULE WorkerPool ------------------------------
(***************************************************************************)
(* The thread pool of New/Server/Server/s.c (New/PS/PS/ps.c has the same   *)
(* one): a boss thread that accepts connections and hands each of them to  *)
(* a worker, and the workers, which wait on a condition variable of their  *)
(* own, serve the connection and go back to wait.                          *)
(*                                                                         *)
(* Boss and workers share ThreadArray (IsFree, SocketId), the condition    *)
(* variables and the queue of waiting requests with no lock around them:   *)
(* every access to shared memory that another thread can interleave with   *)
(* is a step of its own.  A queue entry is the ADDRESS of the boss's local *)
(* variable new_sd, so the queue is a number of entries and all of them    *)
(* are worth what new_sd is worth when they are read.                      *)
(*                                                                         *)
(* Operators named Mutant... are wrong versions of the operator after them *)
(* that show what a property is worth; nothing uses them.                  *)
(***************************************************************************)
EXTENDS Integers, FiniteSets

CONSTANTS
  MaxNumberOfThred,  \* number of workers (10 in the code)
  MaxConn,           \* number of connections clients open: bounds the model
  MaxFd,             \* number of descriptors the process may have open
  Parts,             \* reads a request header may come in: bounds the model
  Stalled,           \* connections whose request header never ends
  Silent,            \* connections the client closes without sending anything
  SpuriousWakeups    \* may pthread_cond_wait return without a signal?

ASSUME PoolAssumption ==
  /\ MaxNumberOfThred \in Nat /\ MaxNumberOfThred >= 2
  /\ MaxConn \in Nat
  /\ MaxFd \in Nat
  /\ Parts \in Nat /\ Parts >= 1
  /\ Stalled \subseteq 1 .. MaxConn
  /\ Silent \subseteq 1 .. MaxConn
  /\ SpuriousWakeups \in BOOLEAN

Workers == 0 .. MaxNumberOfThred - 1
Conns   == 1 .. MaxConn
Fds     == 1 .. MaxFd
BadFd   == -1          \* what a failed accept leaves in new_sd
Uninit  == 0           \* a SocketId nobody has assigned yet
NoConn  == 0           \* a descriptor that is not open, a worker with no request
Sockets == Fds \cup {BadFd}

VARIABLES
  bossPc,        \* where main() stands
  created,       \* pthread_create calls main() has made
  new_sd,        \* main()'s local, aliased by every queue entry
  threadCount,   \* where the next search starts; -1 after a failed one
  from, probe,   \* the search: its first index and the one it reads next
  force,         \* the search's parameter: TRUE on the first attempt
  qsize,         \* entries of waitingRequestsQueue
  IsFree, SocketId, Mutex,   \* per worker: the shared record and the mutex
  workerPc,      \* where each worker stands in handle_request
  sd,            \* each worker's local new_sd
  request,       \* the connection whose request line the worker has read
  owner,         \* descriptor table: the connection each descriptor is open on
  accepted,      \* how many connections were accepted (1 .. accepted)
  unread,        \* per connection: the parts of its header that nobody has read
  shut,          \* connections that were shut down
  handled,       \* <<r, c>>: the answer to request r was written to connection c
  crashed        \* the process died: a NULL dereference, or SIGPIPE

bossVars   == <<bossPc, created, new_sd, threadCount, from, probe, force>>
workerVars == <<workerPc, sd, request>>
netVars    == <<owner, accepted, unread, shut, handled>>
vars == <<bossVars, workerVars, netVars, qsize, IsFree, SocketId, Mutex, crashed>>

BossPcs == {"init", "create", "accept", "search", "sleep", "assign", "signal", "offer"}
WorkerPcs == {"absent", "idle", "wait", "waiting", "woken", "take", "read", "header",
              "blocked", "reply", "shutdown", "close", "check", "poll", "deref", "reinit",
              "relock"}

\* tm is an uninitialized local of main(): IsFree may start with any value.
Init ==
  /\ bossPc = "init" /\ created = 0
  /\ new_sd = 0 /\ threadCount = 0
  /\ from = 0 /\ probe = 0 /\ force = TRUE
  /\ qsize = 0
  /\ IsFree \in [Workers -> BOOLEAN]
  /\ SocketId = [w \in Workers |-> Uninit]
  /\ Mutex = [w \in Workers |-> "unlocked"]
  /\ workerPc = [w \in Workers |-> "absent"]
  /\ sd = [w \in Workers |-> BadFd]
  /\ request = [w \in Workers |-> NoConn]
  /\ owner = [d \in Fds |-> NoConn]
  /\ accepted = 0 /\ unread = [c \in Conns |-> 0] /\ shut = {} /\ handled = {}
  /\ crashed = FALSE

-----------------------------------------------------------------------------
(* The boss: createThreadPool, then main()'s loop.                         *)

\* A crash of one thread is the end of them all.
At(here) == ~crashed /\ bossPc = here

\* createThreadPool, first loop: main() itself locks every worker's mutex.
InitPrimitives ==
  /\ At("init")
  /\ bossPc' = "create"
  /\ Mutex' = [w \in Workers |-> "locked"]
  /\ UNCHANGED <<created, new_sd, threadCount, from, probe, force, workerVars, netVars,
                 qsize, IsFree, SocketId, crashed>>

\* createThreadPool, second loop: pthread_create may fail, and is then only reported.
CreateWorker(ok) ==
  /\ At("create")
  /\ created' = created + 1
  /\ bossPc' = IF created + 1 = MaxNumberOfThred THEN "accept" ELSE "create"
  /\ workerPc' = IF ok THEN [workerPc EXCEPT ![created] = "idle"] ELSE workerPc
  /\ UNCHANGED <<new_sd, threadCount, from, probe, force, sd, request, netVars,
                 qsize, IsFree, SocketId, Mutex, crashed>>

\* Enter getNextEmptyThreadNumber(&tm, n, f).
BeginSearch(n, f) ==
  /\ bossPc' = "search"
  /\ from' = n /\ probe' = n /\ force' = f

FreeFds == {d \in Fds : owner[d] = NoConn}

\* accept returns the lowest descriptor that is not open, and the search begins.
Accept ==
  /\ At("accept")
  /\ accepted < MaxConn
  /\ \E d \in FreeFds :
       /\ \A e \in FreeFds : d <= e
       /\ new_sd' = d
       /\ owner' = [owner EXCEPT ![d] = accepted + 1]
  /\ accepted' = accepted + 1
  /\ unread' = [unread EXCEPT ![accepted + 1] = IF accepted + 1 \in Silent THEN 0 ELSE Parts]
  /\ BeginSearch(threadCount, TRUE)
  /\ UNCHANGED <<created, threadCount, workerVars, shut, handled,
                 qsize, IsFree, SocketId, Mutex, crashed>>

\* accept returns -1: new_sd is overwritten and main() tries again.
AcceptFails ==
  /\ At("accept")
  /\ new_sd' = BadFd
  /\ UNCHANGED <<bossPc, created, threadCount, from, probe, force, workerVars, netVars,
                 qsize, IsFree, SocketId, Mutex, crashed>>

\* The byte read at ThreadArray[-1] belongs to something else: it may hold anything.
Reads(i) == IF i \in Workers THEN {IsFree[i]} ELSE BOOLEAN

\* One read of the search.  A hit returns the index; a miss goes on to the next one
\* modulo MaxNumberOfThred, and the search is over when that is where it started.
\* Started at -1 it never is.
NextProbe == (probe + 1) % MaxNumberOfThred

ProbeHit ==
  /\ At("search")
  /\ TRUE \in Reads(probe)
  /\ threadCount' = probe
  /\ bossPc' = IF probe = -1 THEN "offer" ELSE "assign"
  /\ UNCHANGED <<created, new_sd, from, probe, force, workerVars, netVars,
                 qsize, IsFree, SocketId, Mutex, crashed>>

ProbeMiss ==
  /\ At("search")
  /\ FALSE \in Reads(probe)
  /\ IF NextProbe = from
     THEN bossPc' = "sleep" /\ probe' = probe
     ELSE bossPc' = bossPc  /\ probe' = NextProbe
  /\ UNCHANGED <<created, new_sd, threadCount, from, force, workerVars, netVars,
                 qsize, IsFree, SocketId, Mutex, crashed>>

\* sleep(1), then one more search, from worker 1, or give up with -1.
SearchAgain ==
  /\ At("sleep") /\ force
  /\ BeginSearch(1, FALSE)
  /\ UNCHANGED <<created, new_sd, threadCount, workerVars, netVars,
                 qsize, IsFree, SocketId, Mutex, crashed>>

GiveUp ==
  /\ At("sleep") /\ ~force
  /\ threadCount' = -1
  /\ bossPc' = "offer"
  /\ UNCHANGED <<created, new_sd, from, probe, force, workerVars, netVars,
                 qsize, IsFree, SocketId, Mutex, crashed>>

\* No free worker: queue_offer(waitingRequestsQueue, &new_sd).
Offer ==
  /\ At("offer")
  /\ qsize' = qsize + 1
  /\ bossPc' = "accept"
  /\ UNCHANGED <<created, new_sd, threadCount, from, probe, force, workerVars, netVars,
                 IsFree, SocketId, Mutex, crashed>>

MutantAssignNothing ==
  /\ At("assign")
  /\ bossPc' = "signal"
  /\ UNCHANGED <<created, new_sd, threadCount, from, probe, force, workerVars, netVars,
                 qsize, IsFree, SocketId, Mutex, crashed>>

Assign ==
  /\ At("assign")
  /\ SocketId' = [SocketId EXCEPT ![threadCount] = new_sd]
  /\ bossPc' = "signal"
  /\ UNCHANGED <<created, new_sd, threadCount, from, probe, force, workerVars, netVars,
                 qsize, IsFree, Mutex, crashed>>

MutantNextThreadUnwrapped == threadCount + 1

NextThread == IF threadCount + 1 >= MaxNumberOfThred THEN 0 ELSE threadCount + 1

\* Mutant: threadCount is advanced before pthread_cond_signal is called.
MutantSignalNext ==
  /\ At("signal")
  /\ threadCount' = NextThread
  /\ workerPc' = IF workerPc[threadCount'] = "waiting"
                 THEN [workerPc EXCEPT ![threadCount'] = "woken"] ELSE workerPc
  /\ bossPc' = "accept"
  /\ UNCHANGED <<created, new_sd, from, probe, force, sd, request, netVars,
                 qsize, IsFree, SocketId, Mutex, crashed>>

\* A signal wakes the worker if it waits at this moment and is lost if it does not.
Signal ==
  /\ At("signal")
  /\ workerPc' = IF workerPc[threadCount] = "waiting"
                 THEN [workerPc EXCEPT ![threadCount] = "woken"] ELSE workerPc
  /\ threadCount' = NextThread
  /\ bossPc' = "accept"
  /\ UNCHANGED <<created, new_sd, from, probe, force, sd, request, netVars,
                 qsize, IsFree, SocketId, Mutex, crashed>>

Boss ==
  \/ InitPrimitives \/ CreateWorker(TRUE) \/ CreateWorker(FALSE)
  \/ Accept \/ AcceptFails
  \/ ProbeHit \/ ProbeMiss \/ SearchAgain \/ GiveUp \/ Offer
  \/ Assign \/ Signal

-----------------------------------------------------------------------------
(* The workers: handle_request.                                            *)

Goto(w, here, there) ==
  /\ ~crashed /\ workerPc[w] = here
  /\ workerPc' = [workerPc EXCEPT ![w] = there]

MutantMarkFree(w) ==
  /\ Goto(w, "idle", "wait")
  /\ UNCHANGED <<bossVars, sd, request, netVars, qsize, IsFree, SocketId, Mutex, crashed>>

MarkFree(w) ==
  /\ Goto(w, "idle", "wait")
  /\ IsFree' = [IsFree EXCEPT ![w] = TRUE]
  /\ UNCHANGED <<bossVars, sd, request, netVars, qsize, SocketId, Mutex, crashed>>

\* pthread_cond_wait: release the mutex and start waiting, in one step ...
CondWait(w) ==
  /\ Goto(w, "wait", "waiting")
  /\ Mutex' = [Mutex EXCEPT ![w] = "unlocked"]
  /\ UNCHANGED <<bossVars, sd, request, netVars, qsize, IsFree, SocketId, crashed>>

\* ... which may end though nobody signalled: the code does not look again ...
SpuriousWake(w) ==
  /\ SpuriousWakeups
  /\ Goto(w, "waiting", "woken")
  /\ UNCHANGED <<bossVars, sd, request, netVars, qsize, IsFree, SocketId, Mutex, crashed>>

\* ... and, once woken, take the mutex back before returning.
CondReturn(w) ==
  /\ Goto(w, "woken", "take")
  /\ Mutex[w] = "unlocked"
  /\ Mutex' = [Mutex EXCEPT ![w] = "locked"]
  /\ UNCHANGED <<bossVars, sd, request, netVars, qsize, IsFree, SocketId, crashed>>

\* Mutant: IsFree = false is left out.
MutantTakeRequest(w) ==
  /\ Goto(w, "take", "read")
  /\ sd' = [sd EXCEPT ![w] = SocketId[w]]
  /\ UNCHANGED <<bossVars, request, netVars, qsize, IsFree, SocketId, Mutex, crashed>>

\* ReloadPendingRequest: an unassigned SocketId holds whatever was on main()'s stack.
TakeRequest(w) ==
  /\ Goto(w, "take", "read")
  /\ IsFree' = [IsFree EXCEPT ![w] = FALSE]
  /\ \E s \in IF SocketId[w] = Uninit THEN Sockets ELSE {SocketId[w]} :
       sd' = [sd EXCEPT ![w] = s]
  /\ UNCHANGED <<bossVars, request, netVars, qsize, SocketId, Mutex, crashed>>

\* The connection a worker's descriptor is open on now, if any.
Peer(w) == IF sd[w] \in Fds THEN owner[sd[w]] ELSE NoConn

\* read fails (bad descriptor): perror, then on to shutdown and close.
ReadFails(w) ==
  /\ Peer(w) = NoConn
  /\ Goto(w, "read", "shutdown")
  /\ UNCHANGED <<bossVars, sd, request, netVars, qsize, IsFree, SocketId, Mutex, crashed>>

\* A read brings one part of the header that is there or more; the last part has the
\* blank line the loop looks for, unless the header never ends.
ReadParts(w, here) ==
  /\ Peer(w) # NoConn
  /\ \E n \in 1 .. unread[Peer(w)] :
       /\ unread' = [unread EXCEPT ![Peer(w)] = @ - n]
       /\ Goto(w, here, IF n = unread[Peer(w)] /\ Peer(w) \notin Stalled
                        THEN "reply" ELSE "header")

\* The first read, whose words say what the request is.
ReadRequest(w) ==
  /\ ReadParts(w, "read")
  /\ request' = [request EXCEPT ![w] = Peer(w)]
  /\ UNCHANGED <<bossVars, sd, owner, accepted, shut, handled,
                 qsize, IsFree, SocketId, Mutex, crashed>>

\* One more read of the loop, on whatever the descriptor is open on by now.  A read that
\* blocks, and one that fails or returns 0 and is repeated for ever, is no step at all: the
\* buffer stays without a blank line, and the code after the loop that looks at the
\* result of the last read is not reached.
ReadHeader(w) ==
  /\ ReadParts(w, "header")
  /\ UNCHANGED <<bossVars, sd, request, owner, accepted, shut, handled,
                 qsize, IsFree, SocketId, Mutex, crashed>>

\* Nothing to read, or another worker has read it: the first read blocks, and returns 0 when
\* the client closes the connection or another worker shuts it down.
ReadBlocks(w) ==
  /\ Peer(w) # NoConn /\ unread[Peer(w)] = 0
  /\ Goto(w, "read", "blocked")
  /\ request' = [request EXCEPT ![w] = Peer(w)]
  /\ UNCHANGED <<bossVars, sd, netVars, qsize, IsFree, SocketId, Mutex, crashed>>

ReadEOF(w) ==
  /\ request[w] \in shut \cup Silent
  /\ Goto(w, "blocked", "shutdown")
  /\ request' = [request EXCEPT ![w] = NoConn]
  /\ UNCHANGED <<bossVars, sd, netVars, qsize, IsFree, SocketId, Mutex, crashed>>

\* Mutant: the request is parsed into a static buffer that the workers share.
MutantReply(w) ==
  /\ Goto(w, "reply", "shutdown")
  /\ \E v \in Workers :
       /\ request[v] # NoConn
       /\ handled' = IF Peer(w) \in shut \cup {NoConn} THEN handled
                     ELSE handled \cup {<<request[v], Peer(w)>>}
  /\ UNCHANGED <<bossVars, sd, request, owner, accepted, unread, shut,
                 qsize, IsFree, SocketId, Mutex, crashed>>

\* The handler writes its answer to the descriptor, whatever that is open on by now.
\* Written to a connection that is shut down, SIGPIPE ends the process.
Reply(w) ==
  /\ Goto(w, "reply", "shutdown")
  /\ handled' = IF Peer(w) \in shut \cup {NoConn} THEN handled
                ELSE handled \cup {<<request[w], Peer(w)>>}
  /\ crashed' = (Peer(w) \in shut)
  /\ request' = [request EXCEPT ![w] = NoConn]
  /\ UNCHANGED <<bossVars, sd, owner, accepted, unread, shut,
                 qsize, IsFree, SocketId, Mutex>>

Shutdown(w) ==
  /\ Goto(w, "shutdown", "close")
  /\ shut' = shut \cup ({Peer(w)} \ {NoConn})
  /\ UNCHANGED <<bossVars, sd, request, owner, accepted, unread, handled,
                 qsize, IsFree, SocketId, Mutex, crashed>>

\* Mutant: close is left out after shutdown.
MutantCloseSocket(w) ==
  /\ Goto(w, "close", "check")
  /\ UNCHANGED <<bossVars, sd, request, netVars, qsize, IsFree, SocketId, Mutex, crashed>>

\* The number is closed again if another worker closed it, on whatever it names now;
\* closing ends the connection for its client as shutdown does.
CloseSocket(w) ==
  /\ Goto(w, "close", "check")
  /\ shut' = shut \cup ({Peer(w)} \ {NoConn})
  /\ owner' = [d \in Fds |-> IF d = sd[w] THEN NoConn ELSE owner[d]]
  /\ UNCHANGED <<bossVars, sd, request, accepted, unread, handled,
                 qsize, IsFree, SocketId, Mutex, crashed>>

CheckQueue(w) ==
  /\ Goto(w, "check", IF qsize = 0 THEN "reinit" ELSE "poll")
  /\ UNCHANGED <<bossVars, sd, request, netVars, qsize, IsFree, SocketId, Mutex, crashed>>

\* Mutant: queue_peek in the place of queue_poll.
MutantPoll(w) ==
  /\ qsize > 0
  /\ Goto(w, "poll", "deref")
  /\ UNCHANGED <<bossVars, sd, request, netVars, qsize, IsFree, SocketId, Mutex, crashed>>

Poll(w) ==
  /\ qsize > 0
  /\ Goto(w, "poll", "deref")
  /\ qsize' = qsize - 1
  /\ UNCHANGED <<bossVars, sd, request, netVars, IsFree, SocketId, Mutex, crashed>>

\* queue_poll returns NULL on an empty queue, and *socketID is read all the same.
PollEmpty(w) ==
  /\ ~crashed /\ workerPc[w] = "poll"
  /\ qsize = 0
  /\ crashed' = TRUE
  /\ UNCHANGED <<bossVars, workerVars, netVars, qsize, IsFree, SocketId, Mutex>>

Deref(w) ==
  /\ Goto(w, "deref", "take")
  /\ SocketId' = [SocketId EXCEPT ![w] = new_sd]
  /\ UNCHANGED <<bossVars, sd, request, netVars, qsize, IsFree, Mutex, crashed>>

\* Mutant: only the condition variable is initialized again.
MutantReinit(w) ==
  /\ Goto(w, "reinit", "relock")
  /\ UNCHANGED <<bossVars, sd, request, netVars, qsize, IsFree, SocketId, Mutex, crashed>>

\* pthread_mutex_init and pthread_cond_init on the worker's own objects, which it holds.
Reinit(w) ==
  /\ Goto(w, "reinit", "relock")
  /\ Mutex' = [Mutex EXCEPT ![w] = "unlocked"]
  /\ UNCHANGED <<bossVars, sd, request, netVars, qsize, IsFree, SocketId, crashed>>

Relock(w) ==
  /\ Goto(w, "relock", "idle")
  /\ Mutex[w] = "unlocked"
  /\ Mutex' = [Mutex EXCEPT ![w] = "locked"]
  /\ UNCHANGED <<bossVars, sd, request, netVars, qsize, IsFree, SocketId, crashed>>

\* A worker's steps but for the wake-ups nobody sent.
Worker(w) ==
  \/ MarkFree(w) \/ CondWait(w) \/ CondReturn(w) \/ TakeRequest(w)
  \/ ReadFails(w) \/ ReadRequest(w) \/ ReadHeader(w) \/ ReadBlocks(w) \/ ReadEOF(w)
  \/ Reply(w) \/ Shutdown(w) \/ CloseSocket(w)
  \/ CheckQueue(w) \/ Poll(w) \/ PollEmpty(w) \/ Deref(w)
  \/ Reinit(w) \/ Relock(w)

Next ==
  \/ Boss
  \/ \E w \in Workers : Worker(w) \/ SpuriousWake(w)

Spec == Init /\ [][Next]_vars

\* Threads run: none stops between two steps.  Nothing makes a client connect, accept
\* fail, or a byte outside the array hold a given value for ever.
BossWork == Boss /\ bossPc # "accept"
Fairness ==
  /\ WF_vars(BossWork)
  /\ \A w \in Workers : WF_vars(Worker(w))

FairSpec == Spec /\ Fairness
-----------------------------------------------------------------------------
(* Properties.                                                             *)

TypeOK ==
  /\ bossPc \in BossPcs /\ created \in 0 .. MaxNumberOfThred
  /\ new_sd \in Sockets \cup {Uninit}
  /\ threadCount \in Workers \cup {-1}
  /\ from \in Workers \cup {-1} /\ probe \in Workers \cup {-1} /\ force \in BOOLEAN
  /\ qsize \in Nat
  /\ IsFree \in [Workers -> BOOLEAN]
  /\ SocketId \in [Workers -> Sockets \cup {Uninit}]
  /\ Mutex \in [Workers -> {"unlocked", "locked"}]
  /\ workerPc \in [Workers -> WorkerPcs]
  /\ sd \in [Workers -> Sockets]
  /\ request \in [Workers -> Conns \cup {NoConn}]
  /\ owner \in [Fds -> Conns \cup {NoConn}]
  /\ accepted \in 0 .. MaxConn
  /\ unread \in [Conns -> 0 .. Parts] /\ shut \subseteq Conns
  /\ handled \subseteq Conns \X Conns
  /\ crashed \in BOOLEAN

\* The mutex of a worker, which main() locks first and the worker initializes again while
\* it is locked, is free exactly while the worker waits or is about to lock it itself:
\* no thread ever blocks on it for good (s.c:349-354, 243, 323-329).
MutexDiscipline ==
  bossPc # "init" =>
    \A w \in Workers :
      Mutex[w] = "unlocked" <=> workerPc[w] \in {"waiting", "woken", "relock"}

\* IsFree, written by its worker alone and read by the boss with no lock, tells the truth
\* from the worker's first round on: a worker that serves is not marked free, and one
\* that waits is (s.c:242, 247).
Waits(w)  == workerPc[w] \in {"wait", "waiting", "woken"}
Serves(w) == workerPc[w] \in {"read", "header", "blocked", "reply", "shutdown", "close",
                              "check", "poll", "deref", "reinit", "relock"}
IsFreeIsTrue == \A w \in Workers : /\ Waits(w) => IsFree[w]
                                   /\ Serves(w) => ~IsFree[w]

\* A worker that has been woken, by a signal or by the queue, finds a SocketId that the
\* boss or the worker has written: it never serves what was on main()'s stack.
NoUninitialisedSocket ==
  \A w \in Workers : workerPc[w] \in {"woken", "take"} => SocketId[w] # Uninit

\* The descriptor table never names one connection twice, and one that is still named
\* has not been shut down, but by a worker between its shutdown and its close.
OneDescriptorPerConnection ==
  \A d \in Fds : owner[d] # NoConn =>
    /\ \A e \in Fds : owner[e] = owner[d] => e = d
    /\ owner[d] \in shut => \E w \in Workers : workerPc[w] = "close" /\ sd[w] = d

\* An answer may go to another client, whose connection was given the descriptor of the
\* one that asked, but then to one that was accepted later: no answer is ever written to
\* a connection that was closed before its request was read.
HandledInOrder == \A h \in handled : h[1] <= h[2]

\* A worker with nothing to read and nobody to tell it so: it reads on for a blank line
\* although its client stalls, or another worker on the same descriptor has taken the rest
\* of the header, shut the connection down or closed it; or it waits in its first read for
\* a client that stalls, after another worker has taken what that client sent.
Starved(w) ==
  \/ workerPc[w] = "header" /\ (Peer(w) # NoConn => unread[Peer(w)] = 0)
  \/ workerPc[w] = "blocked" /\ request[w] \in Stalled

\* A search of the boss comes to an end, even the one that starts at ThreadArray[-1] and
\* never ends by itself: some worker comes back to wait.  What leaves the boss in
\* getNextEmptyThreadNumber for ever is a process that crashed, or one in which every worker
\* that was ever created waits for text it will not get (s.c:34-52, 261, 270-271).
BossReturns ==
  (bossPc = "search" /\ \E w \in Workers : workerPc[w] # "absent")
    ~> \/ bossPc = "accept" \/ crashed
       \/ \A w \in Workers : workerPc[w] # "absent" => Starved(w)

\* A worker that takes a request, from the boss or from the queue, goes back to wait, for
\* all that others read, shut down and close the descriptor it works on, and however long
\* the queue is.  Reading is the one thing that can keep it: if it does not come back, it
\* is there for good, and starved (s.c:246-331).
WorkerReturns ==
  \A w \in Workers :
    workerPc[w] = "take" ~> (workerPc[w] = "waiting" \/ crashed \/ []Starved(w))

-----------------------------------------------------------------------------
(* What the repository says of the pool and the code does not do.          *)

\* OS A1.tex:140: "If no worker thread is free, server queues these requests. As soon as
\* any worker thread gets free, the boss thread assigns this request to the recently
\* free'd worker thread."
AllCreated == \A w \in Workers : workerPc[w] # "absent"
QueuedIsAssigned == (qsize > 0 /\ AllCreated) ~> (qsize = 0 \/ crashed)
=============================================================================
