------------------------------ MODULE LoadClient ------------------------------
(***************************************************************************)
(* The load generators: c.c (and its copies) and New/Client/Client/c.c.    *)
(* main() opens a connection for each thread and the thread sends its      *)
(* requests on it one after the other, reading each answer to the end of   *)
(* the input.  The server closes a connection after one answer.            *)
(*                                                                         *)
(* c.c shuts down and closes the connection after EACH request and goes on *)
(* with the same descriptor number, which main() may have opened again for *)
(* another thread; New/Client closes once, after the last request.         *)
(*                                                                         *)
(* The server is external: it answers the first request of a connection.   *)
(* Operators named Mutant... are wrong versions of the one after them.     *)
(***************************************************************************)
EXTENDS Integers, Sequences, Functions

CONSTANTS
  MaxThreads,       \* the largest first argument of the program
  MaxRequests,      \* the largest second argument
  MaxFd             \* descriptors the process may have open

ASSUME ClientAssumption ==
  MaxThreads \in Nat \ {0} /\ MaxRequests \in Nat /\ MaxFd \in Nat

Threads == 1 .. MaxThreads     \* and the connection main() makes for each of them
Fds     == 1 .. MaxFd
Free    == 0
Dead    == -1                    \* a socket that never connected: nobody closes it

VARIABLES
  ClosesEachTime,         \* which program: TRUE c.c, FALSE New/Client/Client/c.c
  TotalThreads,           \* its first argument
  RequestsPerThread,      \* its second argument
  mainPc, i, sd,          \* main(): position, loop variable, descriptor
  created,                \* threads that exist
  pc, mySd, sent,         \* per thread: position, descriptor, requests sent
  open,                   \* what each descriptor is open on
  connected,              \* connections in the order main() made them
  asked, answered, ended, reset,   \* connections: with a request, an answer, closed by the
                                   \* server, reset
  shut,                   \* connections the client shut down
  answers,                \* answers on their way: at most one per connection
  received,               \* <<t, c, n>>: t read c's answer for its n-th request
  alive                   \* the process runs

main    == <<mainPc, i, sd, created, connected>>
threads == <<pc, mySd, sent>>
server  == <<asked, answered, ended, reset, answers>>
program == <<ClosesEachTime, TotalThreads, RequestsPerThread>>
vars == <<program, main, threads, open, server, shut, received, alive>>

Init ==
  /\ ClosesEachTime \in BOOLEAN
  /\ TotalThreads \in Threads /\ RequestsPerThread \in 0 .. MaxRequests
  /\ mainPc = "socket" /\ i = 1 /\ sd = Free /\ created = {}
  /\ pc = [t \in Threads |-> "none"] /\ mySd = [t \in Threads |-> Free]
  /\ sent = [t \in Threads |-> 0]
  /\ open = [d \in Fds |-> Free] /\ connected = <<>>
  /\ asked = {} /\ answered = {} /\ ended = {} /\ reset = {} /\ shut = {} /\ answers = {}
  /\ received = {} /\ alive = TRUE

FreeFds == {d \in Fds : open[d] = Free}
Lowest(S) == CHOOSE d \in S : \A e \in S : d <= e

-----------------------------------------------------------------------------
(* main().                                                                 *)

At(here) == alive /\ mainPc = here
NextThread == /\ i' = IF i = TotalThreads THEN 1 ELSE i + 1
              /\ mainPc' = IF i = TotalThreads THEN "join" ELSE "socket"

Socket ==
  /\ At("socket") /\ FreeFds # {}
  /\ sd' = Lowest(FreeFds)
  /\ open' = [open EXCEPT ![Lowest(FreeFds)] = Dead]
  /\ mainPc' = "connect"
  /\ UNCHANGED <<i, created, connected, threads, server, shut, received, alive>>

\* No descriptor is left: c.c calls exit(1), New/Client goes on to the next thread.
SocketFails ==
  /\ At("socket") /\ FreeFds = {}
  /\ IF ClosesEachTime THEN alive' = FALSE /\ UNCHANGED <<i, mainPc>>
                       ELSE NextThread /\ UNCHANGED alive
  /\ UNCHANGED <<sd, created, connected, threads, open, server, shut, received>>

Connect ==
  /\ At("connect")
  /\ open' = [open EXCEPT ![sd] = i]
  /\ connected' = Append(connected, i)
  /\ mainPc' = "create"
  /\ UNCHANGED <<i, sd, created, threads, server, shut, received, alive>>

\* "Skipping": the socket stays open and the thread does not exist.
ConnectFails ==
  /\ At("connect")
  /\ NextThread
  /\ UNCHANGED <<sd, created, connected, threads, open, server, shut, received, alive>>

\* Where a thread begins: one that has no request to send closes its connection all the
\* same in New/Client, and leaves it open in c.c, whose shutdown and close are in the loop.
Begins == IF RequestsPerThread > 0 THEN "write" ELSE IF ClosesEachTime THEN "done" ELSE "shutdown"

\* pthread_create, whose result nobody looks at.
Create(ok) ==
  /\ At("create")
  /\ NextThread
  /\ IF ok
     THEN /\ created' = created \cup {i}
          /\ pc' = [pc EXCEPT ![i] = Begins]
          /\ mySd' = [mySd EXCEPT ![i] = sd]
     ELSE UNCHANGED <<created, pc, mySd>>
  /\ UNCHANGED <<sd, connected, sent, open, server, shut, received, alive>>

NextJoin == /\ i' = IF i = TotalThreads THEN i ELSE i + 1
            /\ mainPc' = IF i = TotalThreads THEN "return" ELSE "join"

Join ==
  /\ At("join") /\ i \in created /\ pc[i] = "done"
  /\ NextJoin
  /\ UNCHANGED <<sd, created, connected, threads, open, server, shut, received, alive>>

\* pthread_join with an identifier that nobody wrote: an error, or a crash.
JoinUnknown ==
  /\ At("join") /\ i \notin created
  /\ NextJoin
  /\ alive' \in BOOLEAN
  /\ UNCHANGED <<sd, created, connected, threads, open, server, shut, received>>

-----------------------------------------------------------------------------
(* make_request.                                                           *)

Goto(t, here, there) ==
  /\ alive /\ pc[t] = here
  /\ pc' = [pc EXCEPT ![t] = there]

Peer(t) == open[mySd[t]]

\* A write on a connection the server closed makes that reset it; one on a connection that
\* was reset or shut down is SIGPIPE, the end of the process; else an error goes unnoticed.
Write(t) ==
  /\ Goto(t, "write", "read")
  /\ sent' = [sent EXCEPT ![t] = @ + 1]
  /\ alive' = (Peer(t) \notin reset \cup shut)
  /\ asked' = IF Peer(t) \in Threads \ (ended \cup shut) THEN asked \cup {Peer(t)} ELSE asked
  /\ \E late \in BOOLEAN :
       reset' = IF Peer(t) \in ended /\ ~late THEN reset \cup {Peer(t)} ELSE reset
  /\ UNCHANGED <<main, mySd, open, answered, ended, answers, shut, received>>

ReadAnswer(t) ==
  /\ alive /\ pc[t] = "read"
  /\ Peer(t) \in answers \ shut
  /\ answers' = answers \ {Peer(t)}
  /\ received' = received \cup {<<t, Peer(t), sent[t]>>}
  /\ UNCHANGED <<main, threads, open, asked, answered, ended, reset, shut, alive>>

NextRequest(t) == IF sent[t] < RequestsPerThread THEN "write" ELSE "done"

\* Mutant: New/Client with c.c's shutdown and close inside the loop.
MutantAfterRead(t) == "shutdown"

\* Where the thread goes when an answer has ended.
AfterRead(t) ==
  IF ClosesEachTime \/ sent[t] = RequestsPerThread THEN "shutdown" ELSE "write"

\* Mutant: a read that gives up after a while.
MutantReadEnd(t) ==
  /\ Goto(t, "read", AfterRead(t))
  /\ UNCHANGED <<main, mySd, sent, open, server, shut, received, alive>>

\* End of input, or an error: the descriptor is not open, the connection is down.
ReadEnd(t) ==
  /\ Goto(t, "read", AfterRead(t))
  /\ \/ Peer(t) \notin Threads
     \/ Peer(t) \in shut
     \/ Peer(t) \in ended /\ Peer(t) \notin answers
  /\ UNCHANGED <<main, mySd, sent, open, server, shut, received, alive>>

Shutdown(t) ==
  /\ Goto(t, "shutdown", "close")
  /\ shut' = IF Peer(t) \in Threads THEN shut \cup {Peer(t)} ELSE shut
  /\ UNCHANGED <<main, mySd, sent, open, server, received, alive>>

Close(t) ==
  /\ Goto(t, "close", NextRequest(t))
  /\ open' = [open EXCEPT ![mySd[t]] = Free]
  /\ UNCHANGED <<main, mySd, sent, server, shut, received, alive>>

-----------------------------------------------------------------------------
(* The server, external.                                                   *)

\* A request was read: one answer, or none.
ServerAnswers(c) ==
  /\ c \in asked \ (answered \cup ended)
  /\ answered' = answered \cup {c} /\ answers' = answers \cup {c}
  /\ UNCHANGED <<main, threads, open, asked, ended, reset, shut, received, alive>>

\* Did the client, or the end of its process, let go of a connection it made?
Gone(c) ==
  /\ c \in Range(connected)
  /\ c \in shut \/ mainPc = "return" \/ ~alive \/ \A d \in Fds : open[d] # c

\* Nothing more is to be read: the connection is closed.
ServerCloses(c) ==
  /\ c \notin ended /\ (c \in asked \/ Gone(c))
  /\ ended' = ended \cup {c}
  /\ UNCHANGED <<main, threads, open, asked, answered, reset, answers, shut, received, alive>>

Main == /\ UNCHANGED program
        /\ \/ Socket \/ SocketFails \/ Connect \/ ConnectFails
           \/ \E ok \in BOOLEAN : Create(ok)
           \/ Join \/ JoinUnknown
Thread(t) == /\ UNCHANGED program
             /\ Write(t) \/ ReadAnswer(t) \/ ReadEnd(t) \/ Shutdown(t) \/ Close(t)
Server(c) == UNCHANGED program /\ ServerAnswers(c)
Closes(c) == UNCHANGED program /\ ServerCloses(c)

Next == Main \/ \E t \in Threads : Thread(t) \/ Server(t) \/ Closes(t)

Spec == Init /\ [][Next]_vars

\* The program's threads run, and the server closes every connection it read a request on.
FairSpec == Spec /\ WF_vars(Main)
                 /\ \A t \in Threads : WF_vars(Thread(t)) /\ WF_vars(Closes(t))

-----------------------------------------------------------------------------
(* Properties.                                                             *)

\* Where the connection is closed once, no thread reads the answer to another thread's
\* request, nor an answer late, in the place of that to a later request
\* (New/Client/Client/c.c:168-186).
OwnAnswersInOrder ==
  ~ClosesEachTime => \A r \in received : r[1] = r[2] /\ r[3] = 1

\* Thread t sends a second request, or has: in c.c, on a descriptor that it closed.
Again(t) == sent[t] >= 2 \/ (sent[t] = 1 /\ pc[t] = "write")

\* The descriptor of a thread at work is its own connection's, and what main() opens meanwhile
\* never takes its place: in New/Client always, in c.c until the first thread goes on to a
\* second request (c.c:142-162, 193-212, New/Client/Client/c.c:168-186).
OwnDescriptor ==
  ~ClosesEachTime \/ (\A u \in created : ~Again(u)) =>
    \A t \in created : pc[t] \in {"write", "read", "shutdown", "close"} => Peer(t) = t
=============================================================================
