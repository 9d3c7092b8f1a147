----------------------------- MODULE ClientServer -----------------------------
(***************************************************************************)
(* 16030009-16030012: the load client c.c and the server s.c it was handed *)
(* in with (both on port 5569).  LoadClient is the client, an instance of  *)
(* RoundRobinPool whose workers serve one connection each is the server,   *)
(* and what LoadClient's external server did is now done by the workers:   *)
(*   - the k-th connection the server accepts is the k-th the client made; *)
(*   - a worker reads what the client wrote, its answer and its shutdown   *)
(*     are what the client reads, and the end of the server's process ends *)
(*     every connection.                                                   *)
(* With alone = TRUE there is no such server, and the steps are those of   *)
(* LoadClient.                                                             *)
(***************************************************************************)
EXTENDS LoadClient

CONSTANTS
  MaxPaired,        \* threads of the client that meets this server: bounds the model
  ServerWorkers,    \* MAX_THREAD_COUNT of s.c
  ServerFds,        \* descriptors the server may have open
  MaxSpurious       \* wake-ups of the server's workers that nobody signalled

ASSUME PairAssumption ==
  MaxPaired \in Nat /\ ServerWorkers \in Nat \ {0} /\ ServerFds \in Nat /\ MaxSpurious \in Nat

VARIABLES
  alone,                                   \* is the server external?
  serverPc, new_sd, threadCount, socketId, \* the server: see RoundRobinPool
  workerPc, workerSd, request, serverOpen, accepted, unread, serverShut, handled,
  spurious, strayed, serverAlive

Pool == INSTANCE RoundRobinPool WITH
  MAX_THREAD_COUNT <- ServerWorkers, MaxConn <- MaxThreads, MaxFd <- ServerFds,
  Stalled <- {}, wraps <- FALSE, mainPc <- serverPc, sd <- workerSd, open <- serverOpen,
  shut <- serverShut, alive <- serverAlive

serverMain == <<serverPc, new_sd, threadCount>>
net  == <<serverOpen, accepted, unread, serverShut>>
wakeUps == <<spurious, strayed>>
pool == <<serverMain, socketId, workerPc, workerSd, request, net, handled, wakeUps, serverAlive>>
pair == <<vars, alone, pool>>

\* The server is started first: createThreadPool, then main() waits for connections.
InitPair ==
  /\ Init /\ Pool!Init
  /\ alone \in BOOLEAN
  /\ ~alone => ClosesEachTime /\ TotalThreads <= MaxPaired

-----------------------------------------------------------------------------
(* The server's steps, and what the client sees of them.                   *)

Connection(w) == IF Pool!Peer(w) \in 1 .. Len(connected) THEN connected[Pool!Peer(w)] ELSE Free

\* The worker's first read returns 0: the client has gone and never asked, or another worker
\* with the same descriptor read what it wrote.
EndOfInput(w) ==
  /\ Gone(Connection(w)) /\ (Connection(w) \notin asked \/ Pool!Peer(w) \notin unread)
  /\ Pool!Goto(w, "read", "shutdown")
  /\ UNCHANGED <<serverMain, socketId, workerSd, request, net, handled, serverAlive>>

\* SIGPIPE: the client has gone, and the answer takes more than one write (handle_get).
BrokenPipe(w) ==
  /\ Gone(Connection(w))
  /\ Pool!Goto(w, "reply", "shutdown")
  /\ serverAlive' = FALSE
  /\ UNCHANGED <<serverMain, socketId, workerSd, request, net, handled>>

\* main() of the server.
ServerMain ==
  /\ UNCHANGED wakeUps
  /\ \/ accepted < Len(connected) /\ (Pool!Accept \/ Pool!AcceptFails)
     \/ Pool!Assign \/ Pool!Signal

HandleRequest(w) ==
  /\ UNCHANGED wakeUps
  /\ \/ Pool!CondWait(w) \/ Pool!TakeRequest(w)
     \/ Connection(w) \in asked /\ (Pool!ReadPart(w) \/ Pool!ReadRequest(w))
     \/ EndOfInput(w) \/ Pool!ReadNothing(w)
     \/ Pool!ReplyFile(w) \/ Pool!ReplyError(w) \/ Pool!NoReply(w) \/ BrokenPipe(w)
     \/ Pool!Shutdown(w) \/ Pool!Close(w)

\* Answers reach the client; a connection that is shut down, or whose process ends, ends.
Seen ==
  LET new == {connected[p[2]] : p \in handled' \ handled}
  IN  /\ answers' = answers \cup new /\ answered' = answered \cup new
      /\ ended' = IF serverAlive' THEN {connected[k] : k \in serverShut'}
                                  ELSE Range(connected)
      /\ UNCHANGED <<program, main, threads, open, asked, reset, shut, received, alive>>

\* The server is followed until a worker strays: from there on nothing is claimed of the pair,
\* and RoundRobinPool has what the workers do.
ServerStep(A) == ~alone /\ ~strayed /\ A /\ Seen /\ UNCHANGED alone

\* The client's steps; nobody accepts connections for a process that has ended.
ClientStep(A) ==
  /\ A
  /\ alone \/ serverAlive \/ connected' = connected
  /\ UNCHANGED <<alone, pool>>

ClientMain  == ClientStep(Main)
MakeRequest(t) == ClientStep(Thread(t))
External(c) == alone /\ ClientStep(Server(c))
ExternalCloses(c) == alone /\ ClientStep(Closes(c))

NextPair ==
  \/ ClientMain \/ ServerStep(ServerMain)
  \/ \E t \in Threads : MakeRequest(t) \/ External(t) \/ ExternalCloses(t)
  \/ \E w \in Pool!Workers : ServerStep(HandleRequest(w)) \/ ServerStep(Pool!SpuriousWake(w))

\* Every thread of both processes runs.
SpecPair ==
  /\ InitPair /\ [][NextPair]_pair
  /\ WF_pair(ClientMain) /\ WF_pair(ServerStep(ServerMain))
  /\ \A t \in Threads : WF_pair(MakeRequest(t)) /\ WF_pair(ExternalCloses(t))
  /\ \A w \in Pool!Workers : WF_pair(ServerStep(HandleRequest(w)))

-----------------------------------------------------------------------------
(* Properties.                                                             *)

\* While its process runs, and until a worker wakes up that was given no socket, all that the
\* server does to a connection is what the client was checked against: at most one answer,
\* after a request, and a close, after a request or the client's own
\* (16030009-16030012/s.c:239-318).
ServerKeepsContract == [][~alone /\ serverAlive' /\ ~strayed' => Next]_vars

\* accept finds no descriptor: nothing else happens in the step that ends the server.
AcceptHasFailed ==
  /\ serverPc = "accept" /\ accepted < Len(connected) /\ Pool!FreeFds = {}
  /\ UNCHANGED <<serverMain, workerPc, accepted>>

\* A client whose threads send one request each, and are no more than the server's workers,
\* never ends the server: as long as it runs itself and no worker strays, no step of a worker
\* is the server's last, so that SIGPIPE cannot happen, and the one step that is is main()'s,
\* when accept finds no descriptor (16030009-16030012/s.c:147-173, 180-227, c.c:193-212).
OnlyAcceptEndsServer ==
  [][~alone /\ RequestsPerThread <= 1 /\ TotalThreads <= ServerWorkers /\ alive /\ ~strayed
       => (serverAlive /\ ~serverAlive' => AcceptHasFailed)]_pair

\* Where the connection is closed once, or each thread sends one request, no thread stays in
\* its read: main() joins them all and returns, unless SIGPIPE or the identifier of a thread
\* that does not exist ends it (c.c:164-170, 193-212, New/Client/Client/c.c:96-98, 168-186).
\* This takes a server that closes what it read; the one here is that if it has as many
\* workers as the client has threads, the first connection finds them all waiting, and none
\* wakes up before it is given a socket (16030009-16030012/s.c:153-171, 239-318).
ClientReturns ==
  (/\ ~ClosesEachTime \/ RequestsPerThread <= 1
   /\ \/ alone
      \/ /\ TotalThreads <= ServerWorkers /\ connected = <<>>
         /\ \A w \in Pool!Workers : workerPc[w] = "waiting")
    ~> (mainPc = "return" \/ ~alive \/ strayed)
=============================================================================
