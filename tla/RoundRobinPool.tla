--------------------------- MODULE RoundRobinPool ---------------------------
(***************************************************************************)
(* The earlier pools of the repository.  main() hands connection after     *)
(* connection to the next worker without asking whether that is free:      *)
(*   - s.c (and Projects/OS A1 server) goes round, and its workers serve   *)
(*     one connection after another;                                       *)
(*   - ps.c and 16030009-16030012/s.c never go back to the first worker,   *)
(*     and a worker serves one connection and ends.                        *)
(* Neither closes the files it sends, and both leave main() on the first   *)
(* accept that fails.                                                      *)
(*                                                                         *)
(* Each worker's mutex is locked by main() before the worker exists and    *)
(* by the worker alone afterwards, made anew each time: it never blocks    *)
(* and is left out.  Mutant... operators are wrong versions of the next.   *)
(***************************************************************************)
EXTENDS Integers, FiniteSets

CONSTANTS
  MAX_THREAD_COUNT,   \* number of workers
  MaxConn,            \* connections the clients make: bounds the model
  MaxFd,              \* descriptors the process may have open
  MaxSpurious,        \* wake-ups that nobody signalled: bounds the model
  Stalled             \* connections whose client never sends its header

ASSUME RoundRobinAssumption ==
  /\ MAX_THREAD_COUNT \in Nat \ {0} /\ MaxConn \in Nat /\ MaxFd \in Nat /\ MaxSpurious \in Nat
  /\ Stalled \subseteq 1 .. MaxConn

Workers == 0 .. MAX_THREAD_COUNT - 1
Conns   == 1 .. MaxConn
Fds     == 1 .. MaxFd
Uninit  == 0
Free    == 0         \* a descriptor that is not open
File    == -1        \* a descriptor open on a file

VARIABLES
  wraps,                         \* TRUE: s.c, FALSE: ps.c; never changes
  mainPc, new_sd, threadCount,   \* main(): position and locals
  socketId,                      \* per worker: the descriptor main() left for it
  workerPc, sd, request,         \* per worker: position, descriptor, request read
  open,                          \* what each descriptor is open on
  accepted,                      \* connections accepted are 1 .. accepted
  unread, shut,                  \* of these: request not read, shut down
  handled,                       \* <<r, c>>: the answer to r was written to c
  spurious,                      \* wake-ups that nobody signalled
  strayed,                       \* has a worker woken up that was never given a socket?
  alive                          \* the process runs

main    == <<mainPc, new_sd, threadCount>>
workers == <<workerPc, sd, request>>
net     == <<open, accepted, unread, shut>>
vars == <<wraps, main, socketId, workers, net, handled, spurious, strayed, alive>>

Init ==
  /\ wraps \in BOOLEAN
  /\ mainPc = "accept" /\ new_sd = 0 /\ threadCount = 0
  /\ socketId = [w \in Workers |-> Uninit]
  /\ workerPc = [w \in Workers |-> "start"]
  /\ sd = [w \in Workers |-> Uninit] /\ request = [w \in Workers |-> 0]
  /\ open = [d \in Fds |-> Free] /\ accepted = 0 /\ unread = {} /\ shut = {}
  /\ handled = {} /\ spurious = 0 /\ strayed = FALSE /\ alive = TRUE

FreeFds == {d \in Fds : open[d] = Free}
Lowest(S) == CHOOSE d \in S : \A e \in S : d <= e

-----------------------------------------------------------------------------
(* main().                                                                 *)

Accept ==
  /\ alive /\ mainPc = "accept" /\ accepted < MaxConn /\ FreeFds # {}
  /\ accepted' = accepted + 1
  /\ open' = [open EXCEPT ![Lowest(FreeFds)] = accepted + 1]
  /\ unread' = unread \cup {accepted + 1}
  /\ new_sd' = Lowest(FreeFds)
  /\ mainPc' = "assign"
  /\ UNCHANGED <<threadCount, socketId, workers, shut, handled, alive>>

\* No descriptor is left: main() returns, and the process with all its workers is gone.
AcceptFails ==
  /\ alive /\ mainPc = "accept" /\ accepted < MaxConn /\ FreeFds = {}
  /\ alive' = FALSE
  /\ UNCHANGED <<main, socketId, workers, net, handled>>

\* Mutant: every connection goes to the first worker.
MutantAssign ==
  /\ alive /\ mainPc = "assign"
  /\ socketId' = [socketId EXCEPT ![0] = new_sd]
  /\ mainPc' = "signal"
  /\ UNCHANGED <<new_sd, threadCount, workers, net, handled, alive>>

\* Past the last worker the write goes to memory that is not the array's.
Assign ==
  /\ alive /\ mainPc = "assign"
  /\ IF threadCount \in Workers
     THEN socketId' = [socketId EXCEPT ![threadCount] = new_sd] /\ alive' = TRUE
     ELSE socketId' = socketId /\ alive' \in BOOLEAN
  /\ mainPc' = "signal"
  /\ UNCHANGED <<new_sd, threadCount, workers, net, handled>>

\* Mutant: back to the first worker one connection too late.
MutantSignal ==
  /\ alive /\ mainPc = "signal"
  /\ workerPc' = [w \in Workers |-> IF w = threadCount /\ workerPc[w] = "waiting"
                                    THEN "woken" ELSE workerPc[w]]
  /\ threadCount' = IF wraps /\ threadCount = MAX_THREAD_COUNT THEN 0 ELSE threadCount + 1
  /\ mainPc' = "accept"
  /\ UNCHANGED <<new_sd, socketId, sd, request, net, handled, alive>>

\* A signal finds its worker waiting, or is lost; the next connection is the next worker's.
Signal ==
  /\ alive /\ mainPc = "signal"
  /\ workerPc' = [w \in Workers |-> IF w = threadCount /\ workerPc[w] = "waiting"
                                    THEN "woken" ELSE workerPc[w]]
  /\ alive' \in IF threadCount \in Workers THEN {TRUE} ELSE BOOLEAN
  /\ threadCount' = IF wraps /\ threadCount + 1 = MAX_THREAD_COUNT THEN 0 ELSE threadCount + 1
  /\ mainPc' = "accept"
  /\ UNCHANGED <<new_sd, socketId, sd, request, net, handled>>

-----------------------------------------------------------------------------
(* The workers: handle_request and handle_get.                             *)

Goto(w, here, there) ==
  /\ alive /\ workerPc[w] = here
  /\ workerPc' = [workerPc EXCEPT ![w] = there]

CondWait(w) ==
  /\ Goto(w, "start", "waiting")
  /\ UNCHANGED <<main, socketId, sd, request, net, handled, alive>>

\* pthread_cond_wait stands in no loop and may return though nobody signalled.
SpuriousWake(w) ==
  /\ Goto(w, "waiting", "woken")
  /\ spurious < MaxSpurious /\ spurious' = spurious + 1
  /\ strayed' = (strayed \/ socketId[w] = Uninit)
  /\ UNCHANGED <<main, socketId, sd, request, net, handled, alive>>

\* A socketId nobody wrote is whatever main()'s stack held, and may name any descriptor.
TakeRequest(w) ==
  /\ Goto(w, "woken", "read")
  /\ \E d \in IF socketId[w] = Uninit THEN 0 .. MaxFd ELSE {socketId[w]} :
       sd' = [sd EXCEPT ![w] = d]
  /\ UNCHANGED <<main, socketId, request, net, handled, alive>>

Peer(w) == IF sd[w] \in Fds THEN open[sd[w]] ELSE Free

\* The first read brings a part of the header, and the loop to the blank line begins.
ReadPart(w) ==
  /\ Peer(w) \in unread \ Stalled
  /\ Goto(w, "read", "header")
  /\ request' = [request EXCEPT ![w] = Peer(w)]
  /\ UNCHANGED <<main, socketId, sd, net, handled, alive>>

\* The header was begun by this worker's first read, or is brought whole by it.
Begun(w) == IF workerPc[w] = "header" THEN request[w] ELSE Peer(w)

\* Mutant: the workers share one buffer for the request.
MutantReadRequest(w) ==
  /\ Peer(w) \in unread \ Stalled
  /\ Goto(w, "read", "reply") \/ Goto(w, "header", "reply")
  /\ request' = [v \in Workers |-> Begun(w)]
  /\ unread' = unread \ {Peer(w)}
  /\ UNCHANGED <<main, socketId, sd, open, accepted, shut, handled, alive>>

\* The header is read to its end, from whatever the descriptor is open on by now.  If
\* another worker with the descriptor has read the rest, shut the connection down or closed
\* it, the loop has no end: its reads bring nothing.
ReadRequest(w) ==
  /\ Peer(w) \in unread \ Stalled
  /\ Goto(w, "read", "reply") \/ Goto(w, "header", "reply")
  /\ request' = [request EXCEPT ![w] = Begun(w)]
  /\ unread' = unread \ {Peer(w)}
  /\ UNCHANGED <<main, socketId, sd, open, accepted, shut, handled, alive>>

\* read returns 0, or -1 on a descriptor that is not a connection any more.
ReadNothing(w) ==
  /\ Peer(w) \notin Conns \/ Peer(w) \in shut
  /\ Goto(w, "read", "shutdown")
  /\ UNCHANGED <<main, socketId, sd, request, net, handled, alive>>

\* Mutant: the answer goes to the connection main() named last.
MutantAnswerTo(w) == IF new_sd \in Fds THEN open[new_sd] ELSE Free

AnswerTo(w) == Peer(w)

\* Write the answer; SIGPIPE on a connection that was shut down ends the process.
Answer(w) ==
  /\ handled' = IF AnswerTo(w) \in Conns \ shut
                THEN handled \cup {<<request[w], AnswerTo(w)>>} ELSE handled
  /\ alive' = (AnswerTo(w) \notin shut)

\* The page exists: its file stays open for ever.
ReplyFile(w) ==
  /\ FreeFds # {}
  /\ Goto(w, "reply", "shutdown")
  /\ Answer(w)
  /\ open' = [open EXCEPT ![Lowest(FreeFds)] = File]
  /\ UNCHANGED <<main, socketId, sd, request, accepted, unread, shut>>

\* 400, 404 and 501 (404 too when the file cannot be opened for want of a descriptor).
ReplyError(w) ==
  /\ Goto(w, "reply", "shutdown")
  /\ Answer(w)
  /\ UNCHANGED <<main, socketId, sd, request, net>>

\* No answer at all: a page in a subdirectory, and in ps.c every page that is not there.
NoReply(w) ==
  /\ Goto(w, "reply", "shutdown")
  /\ UNCHANGED <<main, socketId, sd, request, net, handled, alive>>

Shutdown(w) ==
  /\ Goto(w, "shutdown", "close")
  /\ shut' = IF Peer(w) \in Conns THEN shut \cup {Peer(w)} ELSE shut
  /\ UNCHANGED <<main, socketId, sd, request, open, accepted, unread, handled, alive>>

\* Mutant: the descriptor main() accepted last is closed.
MutantClose(w) ==
  /\ Goto(w, "close", IF wraps THEN "start" ELSE "ended")
  /\ open' = IF new_sd \in Fds THEN [open EXCEPT ![new_sd] = Free] ELSE open
  /\ UNCHANGED <<main, socketId, sd, request, accepted, unread, shut, handled, alive>>

\* Close, whatever the descriptor is open on by now; go round, or end.
Close(w) ==
  /\ Goto(w, "close", IF wraps THEN "start" ELSE "ended")
  /\ open' = IF sd[w] \in Fds THEN [open EXCEPT ![sd[w]] = Free] ELSE open
  /\ UNCHANGED <<main, socketId, sd, request, accepted, unread, shut, handled, alive>>

Main == UNCHANGED <<wraps, spurious, strayed>> /\ (Accept \/ AcceptFails \/ Assign \/ Signal)
Worker(w) ==
  /\ UNCHANGED <<wraps, spurious, strayed>>
  /\ \/ CondWait(w) \/ TakeRequest(w) \/ ReadPart(w) \/ ReadRequest(w) \/ ReadNothing(w)
     \/ ReplyFile(w) \/ ReplyError(w) \/ NoReply(w) \/ Shutdown(w) \/ Close(w)

Next == Main \/ \E w \in Workers : Worker(w) \/ (UNCHANGED wraps /\ SpuriousWake(w))

Spec == Init /\ [][Next]_vars

\* Every thread of the process runs.
FairSpec == Spec /\ WF_vars(Main) /\ \A w \in Workers : WF_vars(Worker(w))

-----------------------------------------------------------------------------
(* Properties.                                                             *)

TypeOK ==
  /\ mainPc \in {"accept", "assign", "signal"} /\ new_sd \in 0 .. MaxFd
  /\ wraps \in BOOLEAN /\ threadCount \in IF wraps THEN Workers ELSE 0 .. MaxConn
  /\ socketId \in [Workers -> 0 .. MaxFd] /\ sd \in [Workers -> 0 .. MaxFd]
  /\ workerPc \in [Workers -> {"start", "waiting", "woken", "read", "header", "reply",
                               "shutdown", "close", "ended"}]
  /\ request \in [Workers -> 0 .. MaxConn]
  /\ open \in [Fds -> {File, Free} \cup Conns]
  /\ accepted \in 0 .. MaxConn /\ unread \cup shut \subseteq 1 .. accepted
  /\ handled \subseteq Conns \X Conns /\ alive \in BOOLEAN
  /\ spurious \in 0 .. MaxSpurious /\ strayed \in BOOLEAN

\* Whatever the workers do to each other's descriptors, an answer never goes to a client
\* older than the one that asked (s.c:153-178, 246-339).
AnswersNeverGoBack == \A p \in handled : p[1] <= p[2]

\* Where a worker serves one connection only, a client that gets an answer gets the one to
\* its own request, though descriptors are reused while other workers hold their numbers,
\* and a worker may wake up before its signal: this holds until one wakes up that was given
\* no socket yet (ps.c:144-157, 281-365).
OwnService == ~wraps /\ ~strayed
EachItsOwn == OwnService => \A p \in handled : p[1] = p[2]

\* There, too, a connection is open until the one worker it was given to ends, and then it
\* is not: no other worker closes it, and no descriptor of a connection is left behind
\* (ps.c:147-156, 360-361).
OpenUntilItsWorkerEnds ==
  OwnService => \A c \in 1 .. accepted : c <= MAX_THREAD_COUNT =>
    (workerPc[c - 1] # "ended" <=> \E d \in Fds : open[d] = c)

\* There, too, a connection whose worker waited in time for its signal is dealt with and
\* closed though others stall, unless the process ends or a worker strays
\* (ps.c:144-157, 281-365).
WaitingWorkerServes ==
  \A c \in (Conns \ Stalled) \cap 1 .. MAX_THREAD_COUNT :
    (~wraps /\ accepted = c /\ mainPc = "signal" /\ workerPc[c - 1] = "waiting")
      ~> ((c \in shut /\ workerPc[c - 1] = "ended") \/ ~alive \/ strayed)
=============================================================================
