---------------------------- MODULE VideoRegistry ----------------------------
(***************************************************************************)
(* "helping material": the main server keeps a table of videos and answers *)
(* searches; subservers announce the videos of their files to it.          *)
(*                                                                         *)
(* A subserver reads its file four lines at a time (name, size, ip, port)  *)
(* and sends every line as a datagram of its own.  fgets at the end of the *)
(* file leaves the buffer as it was, so a file that ends inside a record   *)
(* sends its last line again.  Other threads of the subserver stream to    *)
(* viewers, and one viewer who leaves ends the whole process.              *)
(*                                                                         *)
(* The main server has two threads that share _videos and _videoIndex with *)
(* no lock: one stores every fourth datagram as the end of a row, whoever  *)
(* sent it; the other answers a search, reading _videoIndex again for each *)
(* row.                                                                    *)
(*                                                                         *)
(* A line is its sender and its number in the sender's file.               *)
(* Operators named Mutant... are wrong versions of the one after them.     *)
(***************************************************************************)
EXTENDS Integers, Sequences, FiniteSets, SequencesExt

CONSTANTS
  Subservers,
  Viewers,         \* who connects to a subserver to watch
  Watched,         \* the subserver each viewer connects to
  Contents,        \* what the files of the subservers that run may hold
  TableSize,       \* 1024 in the source
  MaxQueries,      \* bound: searches that reach the main server
  Capacity,        \* bound: datagrams that wait at the main server
  MaxLost          \* bound: datagrams that are lost

\* "blank" is an empty line, "unended" a last line with no newline.
Kinds == {"text", "blank", "unended"}

ASSUME RegistryAssumption ==
  /\ IsFiniteSet(Subservers)
  /\ \A c \in Contents : DOMAIN c \subseteq Subservers /\ c \in [DOMAIN c -> Seq(Kinds)]
  /\ Watched \in [Viewers -> Subservers]
  /\ TableSize \in Nat \ {0} /\ MaxQueries \in Nat /\ MaxLost \in Nat
  /\ Capacity \in Nat \ {0}

Fields == 1 .. 4        \* name, size, ip, port
Empty  == <<>>          \* a field that was never written

VARIABLES
  files,                \* what the file of each subserver that runs holds
  spc, line, k,         \* per subserver: position, lines read, field it sends next
  viewer,               \* per viewer: what its thread in the subserver does
  wire,                 \* datagrams in the socket of port 8888
  lost,                 \* history: datagrams that were lost
  rpc, f,               \* processing_sub_server: position, field it waits for
  videos, videoIndex,   \* _videos and _videoIndex
  qpc, i, flag, g,      \* processing_client: position, row, acknowledged, next field
  found,                \* history: the rows this search matched
  answer,               \* datagrams sent to who asked last
  queries,              \* searches that arrived
  main                  \* the main server: "up" or how it ended

subserver == <<files, spc, line, k, viewer>>
registry  == <<rpc, f, videos, videoIndex>>
search    == <<qpc, i, flag, g, found, answer, queries>>
vars == <<subserver, wire, lost, registry, search, main>>

Started == DOMAIN files

Init ==
  /\ files \in Contents
  /\ spc = [s \in Subservers |-> "open"] /\ line = [s \in Subservers |-> 0]
  /\ k = [s \in Subservers |-> 1]
  /\ viewer = [v \in Viewers |-> "none"]
  /\ wire = <<>> /\ lost = 0
  /\ rpc = "open" /\ f = 1
  /\ videos = [n \in 1 .. TableSize |-> [h \in Fields |-> Empty]] /\ videoIndex = 0
  /\ qpc = "recv" /\ i = 0 /\ flag = 0 /\ g = 1 /\ found = <<>> /\ answer = <<>>
  /\ queries = 0
  /\ main = "up"

-----------------------------------------------------------------------------
(* subserver.c: new_thread_send_data_to_main_server.                       *)

\* The file is missing: exit(1).
Open(s, ok) ==
  /\ spc[s] = "open"
  /\ spc' = [spc EXCEPT ![s] = IF ok THEN "send" ELSE "gone"]
  /\ UNCHANGED <<files, line, k, viewer, wire, lost, registry, search, main>>

AtEnd(s) == line[s] = Len(files[s])

\* What sendline holds after fgets.
Sendline(s) == IF AtEnd(s) THEN line[s] ELSE line[s] + 1

Deliver(d, arrives) ==
  IF arrives THEN Len(wire) < Capacity /\ wire' = Append(wire, d) /\ UNCHANGED lost
             ELSE lost < MaxLost /\ lost' = lost + 1 /\ UNCHANGED wire

\* fgets that finds no line returns NULL and the line is sent only when it found one.
MutantSend(s, arrives) ==
  /\ spc[s] = "send" /\ ~ (k[s] = 1 /\ AtEnd(s))
  /\ line' = [line EXCEPT ![s] = Sendline(s)]
  /\ k' = [k EXCEPT ![s] = (@ % 4) + 1]
  /\ IF AtEnd(s) THEN UNCHANGED <<wire, lost>>
                 ELSE Deliver([from |-> s, line |-> Sendline(s)], arrives)
  /\ UNCHANGED <<files, spc, viewer, registry, search, main>>

\* fgets and sendto: only the first fgets of a record is tested.
Send(s, arrives) ==
  /\ spc[s] = "send" /\ ~ (k[s] = 1 /\ AtEnd(s))
  /\ line' = [line EXCEPT ![s] = Sendline(s)]
  /\ k' = [k EXCEPT ![s] = (@ % 4) + 1]
  /\ Deliver([from |-> s, line |-> Sendline(s)], arrives)
  /\ UNCHANGED <<files, spc, viewer, registry, search, main>>

\* The while loop ends, and the thread with it.
FileEnds(s) ==
  /\ spc[s] = "send" /\ k[s] = 1 /\ AtEnd(s)
  /\ spc' = [spc EXCEPT ![s] = "done"]
  /\ UNCHANGED <<files, line, k, viewer, wire, lost, registry, search, main>>

-----------------------------------------------------------------------------
(* subserver.c: main() and process_client.                                 *)

Running(v) == Watched[v] \in Started /\ spc[Watched[v]] # "gone"

SetViewer(v, to) ==
  /\ Running(v)
  /\ viewer' = [viewer EXCEPT ![v] = to]
  /\ UNCHANGED <<files, spc, line, k, wire, lost, registry, search, main>>

Accept(v) == viewer[v] = "none" /\ SetViewer(v, "read")

\* main() returns when accept fails, and ends the sending thread.
AcceptFails(s) ==
  /\ spc[s] # "gone"
  /\ spc' = [spc EXCEPT ![s] = "gone"]
  /\ UNCHANGED <<files, line, k, viewer, wire, lost, registry, search, main>>

\* read(new_sd, arr, strlen(arr)) with an array nobody wrote.  No byte is asked for,
\* and the thread writes no byte for ever; or some are, and it writes that many.
ReadNoByte(v) == viewer[v] \in {"read", "left"} /\ SetViewer(v, "spins")
ReadName(v) == \/ viewer[v] = "read" /\ SetViewer(v, "streams")
               \/ viewer[v] = "left" /\ SetViewer(v, "closed")

ViewerLeaves(v) == \/ viewer[v] = "read" /\ SetViewer(v, "left")
                   \/ viewer[v] = "streams" /\ SetViewer(v, "closed")

\* write to a connection that is gone: SIGPIPE, which nobody handles.
WriteToGone(v) ==
  /\ Running(v) /\ viewer[v] = "closed"
  /\ spc' = [spc EXCEPT ![Watched[v]] = "gone"]
  /\ UNCHANGED <<files, line, k, viewer, wire, lost, registry, search, main>>

-----------------------------------------------------------------------------
(* mainserver.c: processing_sub_server.                                    *)

Row == videoIndex + 1
At(here) == main = "up" /\ rpc = here

\* fopen("main file names.txt", "a") or exit(1).
OpenFile(ok) ==
  /\ At("open")
  /\ IF ok THEN rpc' = "recv" /\ UNCHANGED main
           ELSE main' = "exited" /\ UNCHANGED rpc
  /\ UNCHANGED <<subserver, wire, lost, f, videos, videoIndex, search>>

\* A line of one byte, its newline, stores nothing; the last byte of any other is cut.
Stores(d) == files[d.from][d.line] # "blank"
Stored(d) == [from |-> d.from, line |-> d.line,
              text |-> IF files[d.from][d.line] = "unended" THEN "cut" ELSE "whole"]

NextField == f' = (f % 4) + 1 /\ rpc' = IF f = 4 THEN "publish" ELSE "recv"

\* recvfrom and strcpy into the row; whose datagram it is, is not asked.
ReceiveField ==
  /\ At("recv") /\ wire # <<>> /\ (Row <= TableSize \/ ~ Stores(Head(wire)))
  /\ wire' = Tail(wire)
  /\ IF Stores(Head(wire))
     THEN videos' = [videos EXCEPT ![Row][f] = Stored(Head(wire))]
     ELSE UNCHANGED videos
  /\ NextField
  /\ UNCHANGED <<subserver, lost, videoIndex, search, main>>

\* strcpy past the end of _videos: what the process does from here on is not modelled.
Overrun ==
  /\ At("recv") /\ wire # <<>> /\ Row > TableSize /\ Stores(Head(wire))
  /\ main' = "overrun"
  /\ UNCHANGED <<subserver, wire, lost, registry, search>>

\* _videoIndex++ inside the last if: a row with no port is not counted.
MutantPublish ==
  /\ At("publish")
  /\ videoIndex' = IF videos[Row][4] = Empty THEN videoIndex ELSE videoIndex + 1
  /\ rpc' = "close"
  /\ UNCHANGED <<subserver, wire, lost, f, videos, search, main>>

Publish ==
  /\ At("publish")
  /\ videoIndex' = videoIndex + 1
  /\ rpc' = "close"
  /\ UNCHANGED <<subserver, wire, lost, f, videos, search, main>>

\* fclose: the file is written, and nothing reads it again.
CloseFile ==
  /\ At("close")
  /\ rpc' = "open"
  /\ UNCHANGED <<subserver, wire, lost, f, videos, videoIndex, search, main>>

-----------------------------------------------------------------------------
(* mainserver.c: processing_client.                                        *)

Searching(here) == main = "up" /\ qpc = here

ReceiveQuery ==
  /\ Searching("recv") /\ queries < MaxQueries
  /\ queries' = queries + 1
  /\ qpc' = "loop" /\ i' = 0 /\ flag' = 0 /\ found' = <<>> /\ answer' = <<>>
  /\ UNCHANGED <<subserver, wire, lost, registry, g, main>>

\* i <= _videoIndex.
MutantMoreRows == i <= videoIndex /\ i < TableSize
MoreRows == i < videoIndex

\* toLower copies into a block of the size of a pointer and ends no string, so whether
\* strstr finds the query in the name is not decided by the two; a long enough name
\* spoils the heap and may abort the process.
Compare(matches) ==
  /\ Searching("loop") /\ MoreRows /\ i < TableSize
  /\ IF matches
     THEN /\ qpc' = "field" /\ g' = 1 /\ flag' = 2 /\ found' = Append(found, i + 1)
          /\ answer' = IF flag = 0 THEN Append(answer, <<"YES">>) ELSE answer
          /\ UNCHANGED i
     ELSE i' = i + 1 /\ UNCHANGED <<qpc, g, flag, found, answer>>
  /\ UNCHANGED <<subserver, wire, lost, registry, queries, main>>

Abort ==
  /\ Searching("loop") /\ MoreRows
  /\ main' = "aborted"
  /\ UNCHANGED <<subserver, wire, lost, registry, search>>

\* Blank records are counted though the table is full, and the search reads past its end.
ReadPast ==
  /\ Searching("loop") /\ MoreRows /\ i >= TableSize
  /\ main' = "overrun"
  /\ UNCHANGED <<subserver, wire, lost, registry, search>>

SendField ==
  /\ Searching("field")
  /\ answer' = Append(answer, <<"field", videos[i + 1][g]>>)
  /\ IF g = 4 THEN g' = 1 /\ i' = i + 1 /\ qpc' = "loop"
              ELSE g' = g + 1 /\ UNCHANGED <<i, qpc>>
  /\ UNCHANGED <<subserver, wire, lost, registry, flag, found, queries, main>>

Finish ==
  /\ Searching("loop") /\ ~ MoreRows
  /\ answer' = Append(answer, IF flag = 0 THEN <<"NOT FOUND">> ELSE <<"END">>)
  /\ qpc' = "recv"
  /\ UNCHANGED <<subserver, wire, lost, registry, i, flag, g, found, queries, main>>

-----------------------------------------------------------------------------
Announce(s) == (\E b \in BOOLEAN : Open(s, b) \/ Send(s, b)) \/ FileEnds(s)

Stream(v) ==
  Accept(v) \/ ReadNoByte(v) \/ ReadName(v) \/ ViewerLeaves(v) \/ WriteToGone(v)

Register == (\E ok \in BOOLEAN : OpenFile(ok)) \/ ReceiveField \/ Overrun \/ Publish \/ CloseFile

Answer == (\E b \in BOOLEAN : Compare(b)) \/ Abort \/ ReadPast \/ SendField \/ Finish

\* When the main server has ended nothing is left to look at, and the model stops.
Next ==
  \/ main = "up" /\ \E s \in Started : Announce(s) \/ AcceptFails(s)
  \/ main = "up" /\ \E v \in Viewers : Stream(v)
  \/ Register
  \/ ReceiveQuery
  \/ Answer

\* The threads of both programs run; who searches, watches or leaves is not obliged to.
Spec == /\ Init /\ [][Next]_vars
        /\ WF_vars(Register) /\ WF_vars(Answer)
        /\ \A s \in Subservers : WF_vars(s \in Started /\ Announce(s))

-----------------------------------------------------------------------------
(* Properties.                                                             *)

\* Does the table hold a line of s in field h of row n?
Holds(s, n, h) == videos[n][h] # Empty /\ videos[n][h].from = s

\* Is (m, h) before (n, j) when the table is read row by row?
Before(m, h, n, j) == m < n \/ (m = n /\ h < j)

\* The datagrams a file makes: its last line is repeated to the end of a record.
Records(s) == 4 * ((Len(files[s]) + 3) \div 4)
LastLines(s) ==
  {p \in (1 .. TableSize) \X Fields :
     Holds(s, p[1], p[2]) /\ videos[p[1]][p[2]].line = Len(files[s])}

Ordered(s) ==
  \A m \in 1 .. TableSize, h \in Fields : Holds(s, m, h) =>
    \A n \in m .. TableSize, j \in Fields : (Before(m, h, n, j) /\ Holds(s, n, j)) =>
      \/ videos[m][h].line < videos[n][j].line
      \/ videos[m][h].line = videos[n][j].line /\ videos[n][j].line = Len(files[s])

NothingLeftOut(s) ==
  \A n \in 1 .. TableSize, h \in Fields : Holds(s, n, h) =>
    /\ videos[n][h].line \in 1 .. Len(files[s]) /\ files[s][videos[n][h].line] # "blank"
    /\ lost = 0 => \A l \in 1 .. videos[n][h].line - 1 : files[s][l] # "blank" =>
         \E m \in 1 .. TableSize, j \in Fields : Holds(s, m, j) /\ videos[m][j].line = l

\* What the table holds of a subserver, read row by row, are lines of its file in order,
\* each once but for the last one, which is repeated at most to the end of a record; and
\* while no datagram is lost none before it is left out, however many others send
\* (processing_sub_server).
TableKeepsOrder ==
  \A s \in Started :
    /\ Ordered(s) /\ NothingLeftOut(s)
    /\ Cardinality(LastLines(s)) <= Records(s) - Len(files[s]) + 1

\* Files need not hold whole records, nor the senders take turns: while none was lost and
\* no sender ended inside a record, the main server waits for a name once all datagrams
\* are read and every sender is between two records.
FramingRecovers ==
  (wire = <<>> /\ lost = 0 /\ \A s \in Subservers : k[s] = 1) => f = 1

\* The datagrams of the answer as who asked reads them: YES, and then four to a row.
Received(n) == IF Len(answer[n]) = 2 THEN answer[n][2] ELSE Empty
RowsSent == [n \in 1 .. (Len(answer) - 1) \div 4 |-> [h \in Fields |-> Received(4 * n - 3 + h)]]
Status ==
  CASE main # "up" -> "down"
    [] main = "up" /\ qpc # "recv" -> "searching"
    [] main = "up" /\ qpc = "recv" -> IF answer = <<>> THEN "idle" ELSE Last(answer)[1]

\* The rows that were counted, of those the table has.
Counted == IF videoIndex < TableSize THEN videoIndex ELSE TableSize

Service == INSTANCE SearchService WITH
  rows <- SubSeq(videos, 1, Counted), status <- Status, hits <- RowsSent,
  last <- IF RowsSent = <<>> THEN 0 ELSE found[Len(RowsSent)]

\* Searches and the registration of rows share the table and its index with no lock, and
\* still implement SearchService: a row that was counted never changes, each row sent is
\* one, whole and not sent before, and every search is told its end (mainserver.c:124-233,
\* 235-314).
ImplementsSearchService == Service!Spec
=============================================================================
