----------------------------- MODULE Dispatcher -----------------------------
(***************************************************************************)
(* What the thread pool of New/Server/Server/s.c is for, without threads,  *)
(* descriptors, flags or signals: connections arrive one after the other,  *)
(* each is given to one worker that has none, answered once, and finished  *)
(* by the worker that has it.                                              *)
(***************************************************************************)
EXTENDS Integers

CONSTANTS Threads, MaxConn, Silent

Conn   == 1 .. MaxConn
NoConn == 0

VARIABLES
  arrived,     \* connections 1 .. arrived have arrived
  job,         \* the connection each worker has
  answered,    \* <<r, c>>: the answer to the request of r was written to c
  finished     \* connections a worker has finished with

dvars == <<arrived, job, answered, finished>>

Init ==
  /\ arrived = 0
  /\ job = [w \in Threads |-> NoConn]
  /\ answered = {} /\ finished = {}

Pending == (1 .. arrived) \ (finished \cup {job[w] : w \in Threads})

Arrive ==
  /\ arrived < MaxConn
  /\ arrived' = arrived + 1
  /\ UNCHANGED <<job, answered, finished>>

\* First come, first served.
Dispatch(w) ==
  /\ job[w] = NoConn
  /\ \E c \in Pending :
       /\ \A d \in Pending : c <= d
       /\ job' = [job EXCEPT ![w] = c]
  /\ UNCHANGED <<arrived, answered, finished>>

Answer(w) ==
  /\ job[w] \notin {NoConn} \cup Silent
  /\ <<job[w], job[w]>> \notin answered
  /\ answered' = answered \cup {<<job[w], job[w]>>}
  /\ UNCHANGED <<arrived, job, finished>>

Finish(w) ==
  /\ job[w] # NoConn
  /\ job[w] \in Silent \/ <<job[w], job[w]>> \in answered
  /\ finished' = finished \cup {job[w]}
  /\ job' = [job EXCEPT ![w] = NoConn]
  /\ UNCHANGED <<arrived, answered>>

Next == Arrive \/ \E w \in Threads : Dispatch(w) \/ Answer(w) \/ Finish(w)

\* Clients need not come; a connection that is there is given to some worker and is
\* served to the end.
Spec ==
  /\ Init /\ [][Next]_dvars
  /\ WF_dvars(\E w \in Threads : Dispatch(w))
  /\ \A w \in Threads : WF_dvars(Answer(w) \/ Finish(w))
=============================================================================
