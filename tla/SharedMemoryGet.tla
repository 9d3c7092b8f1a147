--------------------------- MODULE SharedMemoryGet ---------------------------
(***************************************************************************)
(* A page the proxy does not have, fetched through shared memory: the      *)
(* proxy's handle_get_with_shared_memory (New/PS/PS/RequestHandlers.h) and *)
(* the server's handle_local_get (New/Server/Server/s.c).  The proxy makes *)
(* a System V segment, initializes a mutex and a condition variable in it, *)
(* sends the segment's key to the server and waits at most two seconds;    *)
(* the server looks the key up, writes its answer and signals.             *)
(*                                                                         *)
(* Every request of the proxy is /index.html, so all answers are equal and *)
(* the contents of a segment are told apart only by how much is written.   *)
(* Segments outlive the proxy's process, which may be started again.       *)
(* Operators named Mutant... are wrong versions of the one after them.     *)
(***************************************************************************)
EXTENDS Naturals, FiniteSets

CONSTANTS
  Requests,        \* requests the proxy's workers handle, each one once
  Fd,              \* Fd[r]: the descriptor of r's client
  UnknownHost,     \* requests for a host that has no address
  Leaves,          \* requests whose client may leave before it is answered
  Keyings,         \* what ftok may return for each descriptor, token file there or not
  Workers,         \* size of the proxy's pool: so many handlers run at once
  MaxSegments      \* segments that can be made: one per request is enough

ASSUME SharedMemoryAssumption ==
  /\ \A f \in Keyings, r \in Requests : Fd[r] \in DOMAIN f
  /\ UnknownHost \subseteq Requests /\ Leaves \subseteq Requests
  /\ MaxSegments \in Nat

Keys     == UNION {{f[d] : d \in DOMAIN f} : f \in Keyings}
Segments == 1 .. MaxSegments
None     == 0

VARIABLES
  pc, seg,       \* the proxy's handler of each request and the segment it uses
  unsignalled,   \* did its wait end without a signal?
  reply,         \* what it sent to the client
  srv, srvSeg,   \* the server's handler of each request and the segment it found
  made,          \* how many segments were ever made
  ftok,          \* ftok[d]: the key of descriptor d; never changes
  shared,        \* descriptors that two handlers have been at work on at once
  segOf,         \* the segment a key names now
  locked, waiters, data,   \* in each segment: mutex, condition variable, answer
  proxyUp, serverUp        \* has the process neither exited nor crashed?

proxyVars  == <<pc, seg, unsignalled, reply, proxyUp>>
serverVars == <<srv, srvSeg, serverUp>>
memory     == <<locked, waiters, data>>
vars == <<proxyVars, serverVars, memory, made, segOf, ftok, shared>>

MutantKeyOf(r) == CHOOSE k \in Keys : TRUE   \* ftok of a missing file: one key for all

KeyOf(r) == ftok[Fd[r]]
Exists(s) == \E k \in Keys : segOf[k] = s

\* A fresh segment is filled with zeroes.
Fresh == "empty"

Init ==
  /\ pc = [r \in Requests |-> "new"] /\ seg = [r \in Requests |-> None]
  /\ unsignalled = [r \in Requests |-> FALSE] /\ reply = [r \in Requests |-> "none"]
  /\ srv = [r \in Requests |-> "none"] /\ srvSeg = [r \in Requests |-> None]
  /\ made = 0 /\ ftok \in Keyings /\ shared = {}
  /\ segOf = [k \in Keys |-> None]
  /\ locked = [s \in Segments |-> FALSE]
  /\ waiters = [s \in Segments |-> {}]
  /\ data = [s \in Segments |-> Fresh]
  /\ proxyUp = TRUE /\ serverUp = TRUE

-----------------------------------------------------------------------------
(* The proxy: handle_get_with_shared_memory.                               *)

Goto(r, here, there) ==
  /\ proxyUp /\ pc[r] = here
  /\ pc' = [pc EXCEPT ![r] = there]

Exit(r, here) == proxyUp /\ pc[r] = here /\ proxyUp' = FALSE

\* The pool may give a descriptor to a second worker while the first is at work on it.
FdIsFree(r) == \A q \in Requests : Fd[q] = Fd[r] => pc[q] \in {"new", "done", "killed"}
NoteSharing(r) == shared' = IF FdIsFree(r) THEN shared ELSE shared \cup {Fd[r]}

\* A write raises SIGPIPE, which nobody handles, if the client has left, or if another
\* worker with the same descriptor has shut it down.
MayBreak(r) == r \in Leaves \/ Fd[r] \in shared \/ ~FdIsFree(r)

\* The page names a directory: the handler does nothing at all.
Ignore(r) ==
  /\ Goto(r, "new", "done")
  /\ UNCHANGED <<seg, unsignalled, reply, proxyUp, serverVars, memory, made, segOf>>

ServeFile(r) ==
  /\ Goto(r, "new", "done")
  /\ reply' = [reply EXCEPT ![r] = "file"]
  /\ UNCHANGED <<seg, unsignalled, proxyUp, serverVars, memory, made, segOf>>

ServeFileBreaks(r) ==
  /\ MayBreak(r) /\ Goto(r, "new", "file")
  /\ proxyUp' = FALSE
  /\ UNCHANGED <<seg, unsignalled, reply, serverVars, memory, made, segOf>>

NoFile(r) ==
  /\ Goto(r, "new", "create")
  /\ UNCHANGED <<seg, unsignalled, reply, proxyUp, serverVars, memory, made, segOf>>

\* shmget(IPC_CREAT | IPC_EXCL): a new segment, or an error if the key has one.
CreateSegment(r) ==
  /\ segOf[KeyOf(r)] = None /\ made < MaxSegments
  /\ Goto(r, "create", "attach")
  /\ made' = made + 1
  /\ segOf' = [segOf EXCEPT ![KeyOf(r)] = made + 1]
  /\ seg' = [seg EXCEPT ![r] = made + 1]
  /\ UNCHANGED <<unsignalled, reply, proxyUp, serverVars, memory>>

SegmentExists(r) ==
  /\ segOf[KeyOf(r)] # None
  /\ Goto(r, "create", "reopen")
  /\ UNCHANGED <<seg, unsignalled, reply, proxyUp, serverVars, memory, made, segOf>>

\* The second shmget, "as a client"; if the segment is gone by now, exit(1).
ReopenSegment(r) ==
  /\ segOf[KeyOf(r)] # None
  /\ Goto(r, "reopen", "attach")
  /\ seg' = [seg EXCEPT ![r] = segOf[KeyOf(r)]]
  /\ UNCHANGED <<unsignalled, reply, proxyUp, serverVars, memory, made, segOf>>

ReopenFails(r) ==
  /\ segOf[KeyOf(r)] = None
  /\ Exit(r, "reopen")
  /\ UNCHANGED <<pc, seg, unsignalled, reply, serverVars, memory, made, segOf>>

\* shmat of a segment that was removed fails, and the handler calls exit(1).
Attach(r) ==
  /\ Exists(seg[r])
  /\ Goto(r, "attach", "init")
  /\ UNCHANGED <<seg, unsignalled, reply, proxyUp, serverVars, memory, made, segOf>>

AttachFails(r) ==
  /\ ~Exists(seg[r])
  /\ Exit(r, "attach")
  /\ UNCHANGED <<pc, seg, unsignalled, reply, serverVars, memory, made, segOf>>

\* Mutant: a handler that finds the segment there does not initialize it again.
MutantInitSync(r) ==
  /\ Goto(r, "init", "lock")
  /\ UNCHANGED <<seg, unsignalled, reply, proxyUp, serverVars, memory, made, segOf>>

\* The mutex and the condition variable are initialized whether or not another handler
\* uses them: that one's lock is gone, and whether a signal still finds it is undefined.
InitSync(r) ==
  /\ Goto(r, "init", "lock")
  /\ locked' = [locked EXCEPT ![seg[r]] = FALSE]
  /\ \E w \in {waiters[seg[r]], {}} : waiters' = [waiters EXCEPT ![seg[r]] = w]
  /\ UNCHANGED <<seg, unsignalled, reply, proxyUp, serverVars, data, made, segOf>>

Lock(r) ==
  /\ Goto(r, "lock", "connect")
  /\ ~locked[seg[r]]
  /\ locked' = [locked EXCEPT ![seg[r]] = TRUE]
  /\ UNCHANGED <<seg, unsignalled, reply, proxyUp, serverVars, waiters, data, made, segOf>>

\* gethostbyname does not know the host the client named: exit(1).
HostUnknown(r) ==
  /\ r \in UnknownHost
  /\ Exit(r, "connect")
  /\ UNCHANGED <<pc, seg, unsignalled, reply, serverVars, memory, made, segOf>>

\* The early return of a failed connect leaves the segment behind, its mutex locked.
ConnectFails(r) ==
  /\ r \notin UnknownHost
  /\ Goto(r, "connect", "done")
  /\ UNCHANGED <<seg, unsignalled, reply, proxyUp, serverVars, memory, made, segOf>>

Connect(r) ==
  /\ serverUp /\ r \notin UnknownHost
  /\ Goto(r, "connect", "send")
  /\ UNCHANGED <<seg, unsignalled, reply, proxyUp, serverVars, memory, made, segOf>>

\* Write "LOCAL-GET ... &key=<key>" and close the connection: a worker of the server,
\* if that is still up, reads the request.
SendKey(r) ==
  /\ Goto(r, "send", "wait")
  /\ srv' = IF serverUp THEN [srv EXCEPT ![r] = "open"] ELSE srv
  /\ UNCHANGED <<seg, unsignalled, reply, proxyUp, srvSeg, serverUp, memory, made, segOf>>

\* The proxy has connected to the server's backlog, and the server is gone.
SendKeyBreaks(r) ==
  /\ ~serverUp
  /\ Exit(r, "send")
  /\ UNCHANGED <<pc, seg, unsignalled, reply, serverVars, memory, made, segOf>>

Wait(r) ==
  /\ Goto(r, "wait", "waiting")
  /\ locked' = [locked EXCEPT ![seg[r]] = FALSE]
  /\ waiters' = [waiters EXCEPT ![seg[r]] = @ \cup {r}]
  /\ UNCHANGED <<seg, unsignalled, reply, proxyUp, serverVars, data, made, segOf>>

\* pthread_cond_timedwait ends by itself: the time is up, or it returns for no reason, as it
\* may.  It is in no loop, and its result is only printed, so that both do the same.
WaitEnds(r) ==
  /\ Goto(r, "waiting", "awake")
  /\ unsignalled' = [unsignalled EXCEPT ![r] = TRUE]
  /\ waiters' = [waiters EXCEPT ![seg[r]] = @ \ {r}]
  /\ UNCHANGED <<seg, reply, proxyUp, serverVars, locked, data, made, segOf>>

WaitReturns(r) ==
  /\ Goto(r, "awake", "reply")
  /\ ~locked[seg[r]]
  /\ locked' = [locked EXCEPT ![seg[r]] = TRUE]
  /\ UNCHANGED <<seg, unsignalled, reply, proxyUp, serverVars, waiters, data, made, segOf>>

\* Signalled or not, what the segment holds goes to the client.
Reply(r) ==
  /\ Goto(r, "reply", "unlock")
  /\ reply' = [reply EXCEPT ![r] = data[seg[r]]]
  /\ UNCHANGED <<seg, unsignalled, proxyUp, serverVars, memory, made, segOf>>

ReplyBreaks(r) ==
  /\ MayBreak(r)
  /\ Exit(r, "reply")
  /\ UNCHANGED <<pc, seg, unsignalled, reply, serverVars, memory, made, segOf>>

Unlock(r) ==
  /\ Goto(r, "unlock", "remove")
  /\ locked' = [locked EXCEPT ![seg[r]] = FALSE]
  /\ UNCHANGED <<seg, unsignalled, reply, proxyUp, serverVars, waiters, data, made, segOf>>

\* Mutant: the segment is detached and not removed.
MutantRemove(r) ==
  /\ Goto(r, "remove", "done")
  /\ UNCHANGED <<seg, unsignalled, reply, proxyUp, serverVars, memory, made, segOf>>

\* shmctl(IPC_RMID): the key names no segment any more.  If another handler removed the
\* segment, that is only reported.
Remove(r) ==
  /\ Goto(r, "remove", "done")
  /\ segOf' = [k \in Keys |-> IF segOf[k] = seg[r] THEN None ELSE segOf[k]]
  /\ UNCHANGED <<seg, unsignalled, reply, proxyUp, serverVars, memory, made>>

-----------------------------------------------------------------------------
(* The server: handle_local_get.                                           *)

ServerGoto(r, here, there) ==
  /\ serverUp /\ srv[r] = here
  /\ srv' = [srv EXCEPT ![r] = there]

\* The server can open the page: it is written to the connection, which the proxy has
\* closed, and SIGPIPE ends the server unless the proxy's reset comes too late.
WriteToClosed(r) ==
  /\ ServerGoto(r, "open", "done")
  /\ serverUp' \in BOOLEAN
  /\ UNCHANGED <<srvSeg, proxyVars, memory, made, segOf>>

LookUp(r) ==
  /\ segOf[KeyOf(r)] # None
  /\ ServerGoto(r, "open", "attach")
  /\ srvSeg' = [srvSeg EXCEPT ![r] = segOf[KeyOf(r)]]
  /\ UNCHANGED <<serverUp, proxyVars, memory, made, segOf>>

\* No such segment any more: the server signals through an uninitialized pointer.
LookUpFails(r) ==
  /\ segOf[KeyOf(r)] = None
  /\ ServerGoto(r, "open", "done")
  /\ serverUp' \in BOOLEAN
  /\ UNCHANGED <<srvSeg, proxyVars, memory, made, segOf>>

\* Mutant: the server signals without having written its answer.
MutantServerAttach(r) ==
  /\ Exists(srvSeg[r])
  /\ ServerGoto(r, "attach", "signal")
  /\ UNCHANGED <<srvSeg, serverUp, proxyVars, memory, made, segOf>>

ServerAttach(r) ==
  /\ Exists(srvSeg[r])
  /\ ServerGoto(r, "attach", "copy")
  /\ UNCHANGED <<srvSeg, serverUp, proxyVars, memory, made, segOf>>

\* exit(1)
ServerAttachFails(r) ==
  /\ ~Exists(srvSeg[r])
  /\ ServerGoto(r, "attach", "done")
  /\ serverUp' = FALSE
  /\ UNCHANGED <<srvSeg, proxyVars, memory, made, segOf>>

\* strcpy, with the mutex not locked.  Writing the same answer again changes nothing.
CopyBegins(r) ==
  /\ ServerGoto(r, "copy", "copying")
  /\ data' = [data EXCEPT ![srvSeg[r]] = IF @ = "whole" THEN @ ELSE "partial"]
  /\ UNCHANGED <<srvSeg, serverUp, proxyVars, locked, waiters, made, segOf>>

CopyEnds(r) ==
  /\ ServerGoto(r, "copying", "signal")
  /\ data' = [data EXCEPT ![srvSeg[r]] = "whole"]
  /\ UNCHANGED <<srvSeg, serverUp, proxyVars, locked, waiters, made, segOf>>

\* Wake one handler that waits in the segment; with none, or one whose process has ended,
\* the signal is lost.
SignalProxy(r) ==
  /\ ServerGoto(r, "signal", "done")
  /\ IF waiters[srvSeg[r]] = {}
     THEN UNCHANGED <<pc, waiters>>
     ELSE \E q \in waiters[srvSeg[r]] :
            /\ pc' = [pc EXCEPT ![q] = IF @ = "waiting" THEN "awake" ELSE @]
            /\ waiters' = [waiters EXCEPT ![srvSeg[r]] = @ \ {q}]
  /\ UNCHANGED <<srvSeg, serverUp, seg, unsignalled, reply, proxyUp, locked, data, made, segOf>>

\* Somebody starts the proxy again.  What its handlers were at is lost; the segments, with
\* their mutexes and whoever waited in them, are still there.
Restart ==
  /\ ~proxyUp /\ proxyUp' = TRUE
  /\ pc' = [r \in Requests |-> IF pc[r] \in {"new", "done"} THEN pc[r] ELSE "killed"]
  /\ UNCHANGED <<seg, unsignalled, reply, serverVars, memory, made, segOf, ftok, shared>>

\* One of the pool's workers has nothing to do.
AtWork == {r \in Requests : pc[r] \notin {"new", "done", "killed"}}
WorkerFree == Cardinality(AtWork) < Workers

Begin(r) ==
  /\ WorkerFree /\ NoteSharing(r) /\ UNCHANGED ftok
  /\ Ignore(r) \/ ServeFile(r) \/ ServeFileBreaks(r) \/ NoFile(r)

GoOn(r) ==
  /\ UNCHANGED <<ftok, shared>>
  /\ \/ CreateSegment(r) \/ SegmentExists(r) \/ ReopenSegment(r) \/ ReopenFails(r)
     \/ Attach(r) \/ AttachFails(r) \/ InitSync(r) \/ Lock(r)
     \/ HostUnknown(r) \/ ConnectFails(r) \/ Connect(r) \/ SendKey(r)
     \/ SendKeyBreaks(r) \/ ReplyBreaks(r)
     \/ Wait(r) \/ WaitEnds(r) \/ WaitReturns(r) \/ Reply(r) \/ Unlock(r) \/ Remove(r)

Proxy(r) == Begin(r) \/ GoOn(r)

Server(r) ==
  /\ UNCHANGED <<ftok, shared>>
  /\ \/ WriteToClosed(r) \/ LookUp(r) \/ LookUpFails(r)
     \/ ServerAttach(r) \/ ServerAttachFails(r)
     \/ CopyBegins(r) \/ CopyEnds(r) \/ SignalProxy(r)

Next == Restart \/ \E r \in Requests : Proxy(r) \/ Server(r)

Spec == Init /\ [][Next]_vars

\* The proxy's threads run and its timer expires; the server may be as slow as it likes.
FairSpec == Spec /\ \A r \in Requests : WF_vars(GoOn(r))

-----------------------------------------------------------------------------
(* Properties.                                                             *)

\* A handler that was signalled sends the whole answer, although the server writes it with
\* the mutex not locked, late answers land in later segments of the same key, and handlers
\* share segments: only a wait that ended without a signal, timed out or spurious, sends
\* less, and then it may (RequestHandlers.h:140-148).
WholeIfSignalled == \A r \in Requests : reply[r] \in {"empty", "partial"} => unsignalled[r]

\* A key has a segment only while a handler is at work with it, or after one whose connect
\* failed, or whose process ended, left it behind (RequestHandlers.h:104, 114-123, 151-159).
LeakNeedsFailure ==
  \A k \in Keys : segOf[k] # None =>
    \E r \in Requests : /\ seg[r] = segOf[k]
                        /\ pc[r] = "done" => reply[r] = "none"

\* With a key for each descriptor, the proxy never exits for want of a segment: unless two
\* workers were given a handler's descriptor, nobody removes the segment between its shmget
\* and its shmat, or before its answer is sent (RequestHandlers.h:58-72, 148-159).
KeysDiffer == \A c, d \in DOMAIN ftok : ftok[c] = ftok[d] => c = d
Busy == {"attach", "init", "lock", "connect", "send", "wait", "waiting", "awake", "reply",
         "unlock", "remove"}
SegmentStays ==
  \A r \in Requests : KeysDiffer /\ Fd[r] \notin shared =>
    /\ pc[r] = "reopen" => segOf[KeyOf(r)] # None
    /\ pc[r] \in Busy => segOf[KeyOf(r)] = seg[r]

\* With a key for each descriptor, two handlers are in the critical section of one segment
\* only if both were given one descriptor, whatever an earlier one left behind
\* (RequestHandlers.h:74-150).
Holds(r) == pc[r] \in {"connect", "send", "wait", "reply", "unlock"}
OneHolder ==
  KeysDiffer =>
    \A q, r \in Requests : Holds(q) /\ Holds(r) /\ seg[q] = seg[r] =>
      q = r \/ (Fd[q] = Fd[r] /\ Fd[r] \in shared)

\* With a key for each descriptor, a handler whose descriptor no other was given returns
\* whatever the server does, the mutex that an earlier one left locked in its segment
\* included, or its process ends: in the end, and for good, nobody is at work
\* (RequestHandlers.h:54-165).
HandlerReturns ==
  <>[](KeysDiffer => \A r \in AtWork : ~proxyUp \/ Fd[r] \in shared)
=============================================================================
