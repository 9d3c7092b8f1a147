----------------------------- MODULE PromptPool -----------------------------
(***************************************************************************)
(* The pool of WorkerPool where the three things happen that it counts on  *)
(* and does nothing to bring about:                                        *)
(*   - every pthread_create succeeds;                                      *)
(*   - a client connects only while a worker waits, so none is queued;     *)
(*   - a worker the boss finds marked free does wait.  IsFree is TRUE a    *)
(*     little before that, and a little after the worker was signalled:    *)
(*     a boss that reads it then would overwrite the SocketId of the       *)
(*     worker, or signal it too early.                                     *)
(* The boss runs interleaved with all else the workers do.  WorkerPool's   *)
(* own runs show what happens otherwise.  Here, and where nobody wakes up  *)
(* unsignalled, the pool implements Dispatcher.                            *)
(***************************************************************************)
EXTENDS WorkerPool

Prompt ==
  /\ ~CreateWorker(FALSE)
  /\ accepted' # accepted => \E w \in Workers : workerPc[w] = "waiting"
  /\ bossPc = "search" /\ bossPc' = "assign" => workerPc[probe] = "waiting"

PromptNext == Next /\ Prompt

PromptSpec ==
  /\ Init /\ [][PromptNext]_vars
  /\ WF_vars(BossWork /\ Prompt)
  /\ \A w \in Workers : WF_vars(Worker(w) /\ Prompt)

-----------------------------------------------------------------------------
\* The connection a worker has: from the signal on, the one its SocketId names; then the
\* one its own descriptor names; none once it has shut it down.
Named(s) == IF s \in Fds THEN owner[s] ELSE NoConn
Job(w) ==
  CASE workerPc[w] \in {"woken", "take"} -> Named(SocketId[w])
    [] workerPc[w] \in {"read", "header", "blocked", "reply", "shutdown"} -> Named(sd[w])
    [] OTHER -> NoConn

D == INSTANCE Dispatcher WITH
       Threads  <- Workers,
       arrived  <- accepted,
       job      <- [w \in Workers |-> Job(w)],
       answered <- handled,
       finished <- shut

\* Where Prompt holds and nobody wakes up unsignalled, the pool is a dispatcher: each
\* connection, in the order of arrival, goes to one worker, gets its own answer however
\* its header is cut, and is finished, and none waits for ever (s.c:83-104, 241-332).
ImplementsDispatcher == D!Spec
=============================================================================
