--------------------------- MODULE FrameworkServer ---------------------------
(***************************************************************************)
(* WebServers-master: the C# server and what MainForm, its client, does to *)
(* it.  Main() takes one connection at a time: it starts a listener,       *)
(* accepts, reads once, queues what it read on the .NET thread pool and    *)
(* then always throws; the handler stops the listener, which resets        *)
(* whoever still waits to be accepted, sleeps and starts again.  An        *)
(* exception in a pool thread ends the process.                            *)
(*                                                                         *)
(* Nobody closes an accepted connection; the collector does, once nothing  *)
(* refers to it.                                                           *)
(* Operators named Mutant... are wrong versions of the one after them.     *)
(***************************************************************************)
EXTENDS Integers, Sequences, SequencesExt

CONSTANTS
  Clients,
  Populations,       \* the manners of the clients: functions from Clients to Manners
  WorkerThreads,     \* the first answer to the console's questions
  MaxRequests        \* bound: requests a client writes on its connection

\* A client may cut its request in two, leave, or never read: MainForm looks for an
\* answer in a buffer that it has not read into, and so never reads.
Manners == {"reads", "cuts", "leaves", "neverReads"}

ASSUME FrameworkAssumption ==
  /\ Populations \subseteq [Clients -> Manners]
  /\ WorkerThreads \in Nat \ {0} /\ MaxRequests \in Nat \ {0}
  /\ "nobody" \notin Clients

\* What a client asks for: no file, one that cannot be opened, or one that can.
FileStates == {"absent", "locked", "readable"}

Threads == 1 .. WorkerThreads
None    == [c |-> "nobody", text |-> "nothing"]

VARIABLES
  manner,            \* what each client may do
  file, filesChange, \* the state of each client's file, and whether it may change
  pc, clientSocket,  \* Main(): position, connection
  listening, backlog,
  conn,              \* connections as the client sees them
  arrived,           \* what of the client's text the server has not read
  requests,          \* requests each client wrote
  queue,             \* work items of the pool
  at, item, responce,\* per thread of the pool: position, item, ResponceToClient
  answers,           \* what each client was sent
  up                 \* the server process runs

boss   == <<pc, clientSocket, listening, backlog>>
client == <<arrived, requests>>
pool   == <<at, item, responce>>
fixed  == <<manner, filesChange>>
vars == <<fixed, file, boss, conn, client, queue, pool, answers, up>>

Init ==
  /\ manner \in Populations
  /\ file \in [Clients -> FileStates] /\ filesChange \in BOOLEAN
  /\ pc = "start" /\ clientSocket = "nobody"
  /\ listening = FALSE /\ backlog = <<>>
  /\ conn = [c \in Clients |-> "none"]
  /\ arrived = [c \in Clients |-> "nothing"] /\ requests = [c \in Clients |-> 0]
  /\ queue = <<>>
  /\ at = [t \in Threads |-> "idle"] /\ item = [t \in Threads |-> None]
  /\ responce = [t \in Threads |-> "none"]
  /\ answers = [c \in Clients |-> <<>>]
  /\ up = TRUE

-----------------------------------------------------------------------------
(* Clients and files.                                                      *)

\* Connect in Form1_Load or btnRefresh_Click; nobody listens while Main() sleeps.
Connect(c) ==
  /\ up /\ conn[c] = "none" /\ listening
  /\ conn' = [conn EXCEPT ![c] = "open"]
  /\ backlog' = Append(backlog, c)
  /\ UNCHANGED <<fixed, file, pc, clientSocket, listening, client, queue, pool, answers, up>>

\* RequestFilesFromServer: "name$", from any of its tasks, all on one connection.
Request(c) ==
  /\ up /\ conn[c] = "open" /\ requests[c] < MaxRequests /\ arrived[c] # "part"
  /\ requests' = [requests EXCEPT ![c] = @ + 1]
  /\ \E text \in {"whole"} \cup (IF manner[c] = "cuts" /\ arrived[c] = "nothing"
                                 THEN {"part"} ELSE {}) :
       arrived' = [arrived EXCEPT ![c] = text]
  /\ UNCHANGED <<fixed, file, boss, conn, queue, pool, answers, up>>

RestArrives(c) ==
  /\ up /\ conn[c] = "open" /\ arrived[c] = "part"
  /\ arrived' = [arrived EXCEPT ![c] = "whole"]
  /\ UNCHANGED <<fixed, file, boss, conn, requests, queue, pool, answers, up>>

Leave(c) ==
  /\ up /\ manner[c] = "leaves" /\ conn[c] = "open"
  /\ conn' = [conn EXCEPT ![c] = "gone"]
  /\ UNCHANGED <<fixed, file, boss, client, queue, pool, answers, up>>

FileChanges(c) ==
  /\ up /\ filesChange
  /\ \E s \in FileStates \ {file[c]} : file' = [file EXCEPT ![c] = s]
  /\ UNCHANGED <<fixed, boss, conn, client, queue, pool, answers, up>>

\* The collector closes an accepted connection that neither Main() nor the pool refers to.
InUse(c) == \/ clientSocket = c /\ pc = "read"
            \/ \E n \in DOMAIN queue : queue[n].c = c
            \/ \E t \in Threads : item[t].c = c

Collect(c) ==
  /\ up /\ conn[c] = "open" /\ ~ Contains(backlog, c) /\ ~ InUse(c)
  /\ conn' = [conn EXCEPT ![c] = "collected"]
  /\ UNCHANGED <<fixed, file, boss, client, queue, pool, answers, up>>

-----------------------------------------------------------------------------
(* Main().                                                                 *)

At(here) == up /\ pc = here

Start ==
  /\ At("start")
  /\ listening' = TRUE /\ pc' = "accept"
  /\ UNCHANGED <<fixed, file, clientSocket, backlog, conn, client, queue, pool, answers, up>>

AcceptTcpClient ==
  /\ At("accept") /\ backlog # <<>>
  /\ clientSocket' = Head(backlog) /\ backlog' = Tail(backlog)
  /\ pc' = "read"
  /\ UNCHANGED <<fixed, file, listening, conn, client, queue, pool, answers, up>>

\* One Read of whatever is there; "part" is a first piece that holds no "$".  A client
\* that left without a word makes Read return 0 or throw, and nothing is queued.
Read ==
  LET c == clientSocket IN
  /\ At("read") /\ (arrived[c] # "nothing" \/ conn[c] = "gone")
  /\ queue' = IF arrived[c] = "nothing" THEN queue
              ELSE Append(queue, [c |-> c, text |-> arrived[c]])
  /\ arrived' = [arrived EXCEPT ![c] = "nothing"]
  /\ pc' = "stop"
  /\ UNCHANGED <<fixed, file, clientSocket, listening, backlog, conn, requests, pool, answers, up>>

Reset(C) == [c \in Clients |-> IF c \in C /\ conn[c] = "open" THEN "reset" ELSE conn[c]]

\* clientSocket.Close() before serverSocket.Stop(), as in the lines after the loop.
MutantStop ==
  /\ At("stop")
  /\ conn' = Reset(ToSet(backlog) \cup {clientSocket})
  /\ listening' = FALSE /\ backlog' = <<>>
  /\ pc' = "sleep"
  /\ UNCHANGED <<fixed, file, clientSocket, client, queue, pool, answers, up>>

\* The exception thrown after every read: serverSocket.Stop().
Stop ==
  /\ At("stop")
  /\ conn' = Reset(ToSet(backlog))
  /\ listening' = FALSE /\ backlog' = <<>>
  /\ pc' = "sleep"
  /\ UNCHANGED <<fixed, file, clientSocket, client, queue, pool, answers, up>>

\* Thread.Sleep(1500) and goto RestartApplication.
Sleep ==
  /\ At("sleep")
  /\ pc' = "start"
  /\ UNCHANGED <<fixed, file, clientSocket, listening, backlog, conn, client, queue, pool, answers, up>>

-----------------------------------------------------------------------------
(* ThreadPoolExtended.ThreadProc.                                          *)

Working(t, here) == up /\ at[t] = here
GoTo(t, there) == at' = [at EXCEPT ![t] = there]
Respond(t, what) == GoTo(t, "write") /\ responce' = [responce EXCEPT ![t] = what]
\* catch ... throw in a pool thread: an unhandled exception.
Throw == up' = FALSE /\ UNCHANGED pool

\* A thread that takes an item and leaves it in the queue.
MutantTake(t) ==
  /\ Working(t, "idle") /\ queue # <<>>
  /\ item' = [item EXCEPT ![t] = Head(queue)]
  /\ GoTo(t, "parse")
  /\ UNCHANGED <<fixed, file, boss, conn, client, queue, responce, answers, up>>

Take(t) ==
  /\ Working(t, "idle") /\ queue # <<>>
  /\ item' = [item EXCEPT ![t] = Head(queue)] /\ queue' = Tail(queue)
  /\ GoTo(t, "parse")
  /\ UNCHANGED <<fixed, file, boss, conn, client, responce, answers, up>>

\* Substring(0, IndexOf("$")): -1 when there is no "$".
Parse(t) ==
  /\ Working(t, "parse")
  /\ IF item[t].text = "whole" THEN GoTo(t, "exists") /\ UNCHANGED <<item, responce, up>>
                               ELSE Throw
  /\ UNCHANGED <<fixed, file, boss, conn, client, queue, answers>>

FileOf(t) == file[item[t].c]

\* A file that is not there is not answered.
MutantExists(t) ==
  /\ Working(t, "exists")
  /\ IF FileOf(t) = "absent" THEN GoTo(t, "idle") /\ item' = [item EXCEPT ![t] = None]
                             ELSE GoTo(t, "check") /\ UNCHANGED item
  /\ UNCHANGED <<fixed, file, boss, conn, client, queue, responce, answers, up>>

Exists(t) ==
  /\ Working(t, "exists")
  /\ IF FileOf(t) = "absent" THEN Respond(t, "404")
                             ELSE GoTo(t, "check") /\ UNCHANGED responce
  /\ UNCHANGED <<fixed, file, boss, conn, client, queue, item, answers, up>>

\* The file is not tried first.
MutantIsReadable(t) ==
  /\ Working(t, "check")
  /\ GoTo(t, "load")
  /\ UNCHANGED <<fixed, file, boss, conn, client, queue, item, responce, answers, up>>

\* Any exception at all means 403.
IsReadable(t) ==
  /\ Working(t, "check")
  /\ IF FileOf(t) = "readable" THEN GoTo(t, "load") /\ UNCHANGED responce
                               ELSE Respond(t, "403")
  /\ UNCHANGED <<fixed, file, boss, conn, client, queue, item, answers, up>>

\* Opens the file again, and throws when that fails now.
ReadFully(t) ==
  /\ Working(t, "load")
  /\ IF FileOf(t) = "readable" THEN Respond(t, "file") /\ UNCHANGED <<item, up>> ELSE Throw
  /\ UNCHANGED <<fixed, file, boss, conn, client, queue, answers>>

\* A file is more than the connection holds, a message is not.
Blocked(t) == responce[t] = "file" /\ manner[item[t].c] = "neverReads"

\* A first write to a client that is gone may succeed, or throw.
Write(t) ==
  LET c == item[t].c IN
  /\ Working(t, "write") /\ ~ Blocked(t)
  /\ \/ /\ GoTo(t, "idle") /\ UNCHANGED up
        /\ item' = [item EXCEPT ![t] = None] /\ responce' = [responce EXCEPT ![t] = "none"]
        /\ answers' = [answers EXCEPT ![c] = Append(@, responce[t])]
     \/ conn[c] # "open" /\ Throw /\ UNCHANGED answers
  /\ UNCHANGED <<fixed, file, boss, conn, client, queue>>

-----------------------------------------------------------------------------
Main == Start \/ AcceptTcpClient \/ Read \/ Stop \/ Sleep

ThreadProc(t) ==
  Take(t) \/ Parse(t) \/ Exists(t) \/ IsReadable(t) \/ ReadFully(t) \/ Write(t)

Next ==
  \/ \E c \in Clients : \/ Connect(c) \/ Request(c) \/ RestArrives(c) \/ Leave(c)
                        \/ FileChanges(c) \/ Collect(c)
  \/ Main
  \/ \E t \in Threads : ThreadProc(t)

\* The server's threads run; clients, files and the collector do as they please.
Spec == /\ Init /\ [][Next]_vars
        /\ WF_vars(Main) /\ \A t \in Threads : WF_vars(ThreadProc(t))

-----------------------------------------------------------------------------
(* Properties.                                                             *)

\* Only a request cut in two, a client that leaves or a file that changes while it is read
\* ends the process: whatever else the clients ask, and whenever the listener is stopped
\* under them, it stays up (ThreadProc rethrows every exception).
QuietClientsKeepItUp ==
  up \/ filesChange \/ \E c \in Clients : manner[c] \in {"cuts", "leaves"}

Taken(c) == answers[c] # <<>> \/ (\E n \in DOMAIN queue : queue[n].c = c)
                             \/ \E t \in Threads : item[t].c = c

\* Stopping the listener after every read resets only connections of which nothing was
\* read: a request that is in the pool keeps its connection.
ResetMeansUnread == \A c \in Clients : conn[c] = "reset" => ~ Taken(c)

Expected(f) == CASE f = "absent" -> "404" [] f = "locked" -> "403" [] f = "readable" -> "file"

\* However many requests a client writes, its connection is answered once, and with what
\* its file's state calls for while no file changes.
OneAnswer ==
  \A c \in Clients :
    /\ Len(answers[c]) <= 1
    /\ (~ filesChange /\ answers[c] # <<>>) => answers[c][1] = Expected(file[c])

PoolIsStuck == \A t \in Threads : at[t] = "write" /\ Blocked(t)

\* A request that Main() read is answered, unless the process ends, the request's client
\* does not read, or clients that do not read hold every thread of the pool.
TakenIsAnswered ==
  \A c \in Clients :
    Taken(c) ~> (answers[c] # <<>> \/ ~ up \/ PoolIsStuck \/ manner[c] = "neverReads")

=============================================================================
