---------------------------- MODULE RequestReader ----------------------------
(***************************************************************************)
(* How one worker reads requests: the part of handle_request, of the proxy *)
(* (New/PS/PS/RequestHandlers.h) and of the server (New/Server/Server/s.c),*)
(* between the first read and the call of the function that answers.       *)
(*                                                                         *)
(* The code reads once and takes the words of the request from that, then  *)
(* reads over the buffer until strstr finds a blank line in it.  Its       *)
(* locals are not initialized and keep what the previous request left.     *)
(*                                                                         *)
(* The unit of input is a word or the end of a line (a blank line is two   *)
(* ends of line in a row), so a read may end between words, not in one.    *)
(* Operators named Mutant... are wrong versions of the one after them.     *)
(***************************************************************************)
EXTENDS Integers, Sequences, FiniteSets

CONSTANTS
  Size,         \* sizeof(buffer), in units of input
  Inputs,       \* Inputs[p]: what a client may send to program p on a connection
  KeyWords,     \* the words "&key=..." among them
  MaxConn       \* connections the worker serves: bounds the model

ASSUME ReaderAssumption ==
  /\ Size \in Nat /\ Size >= 2
  /\ DOMAIN Inputs = {"proxy", "server"}
  /\ \A p \in DOMAIN Inputs : Inputs[p] \subseteq Seq(STRING)
  /\ KeyWords \subseteq STRING
  /\ MaxConn \in Nat

CRLF     == "CRLF"
NUL      == "NUL"
Garbage  == "garbage"             \* what nobody wrote
Versions == {"HTTP/1.0", "HTTP/1.1"}

\* The locals sscanf fills: method, url, proxyAddress, protocol; or method, url, protocol.
Locals(p) == IF p = "proxy" THEN 4 ELSE 3

HasBlankLine(s) == \E i \in 1 .. Len(s) - 1 : s[i] = CRLF /\ s[i + 1] = CRLF

\* The i-th word stands at position n: line ends are white space.
Stands(s, i, n) == s[n] # CRLF /\ Cardinality({m \in 1 .. n : s[m] # CRLF}) = i
HasWord(s, i)   == \E n \in 1 .. Len(s) : Stands(s, i, n)
Word(s, i)      == s[CHOOSE n \in 1 .. Len(s) : Stands(s, i, n)]

FirstLine(s) == LET ends == {i \in 1 .. Len(s) : s[i] = CRLF}
                IN  IF ends = {} THEN s
                    ELSE SubSeq(s, 1, (CHOOSE i \in ends : \A j \in ends : i <= j) - 1)

\* What the clients of the repository send (c.c:192, New/Client/Client/c.c:158-166, and to
\* the server RequestHandlers.h:126-135): text, with no version for a word after the first
\* line; a request for shared memory names its version, and its key among its headers.
ASSUME RequestsAssumption ==
  \A p \in DOMAIN Inputs : \A s \in Inputs[p] :
    /\ \A i \in 1 .. Len(s) : s[i] # NUL
    /\ \A i \in Len(FirstLine(s)) + 1 .. Locals(p) : HasWord(s, i) => Word(s, i) \notin Versions
    /\ (p = "server" /\ Len(s) > 0 /\ s[1] = "LOCAL-GET") =>
         /\ Len(FirstLine(s)) >= Locals(p)
         /\ \E i \in 1 .. Len(s) : s[i] \in KeyWords /\ ~ HasBlankLine(SubSeq(s, 1, i))

VARIABLES
  program,      \* whose handle_request: "proxy" or "server"; never changes
  pc,           \* where the worker stands
  conn,         \* connections served so far
  input, rest,  \* all the client sends, and what was not read yet
  closed,       \* has the client closed its end?
  first,        \* what the first read brought
  blank,        \* did one read bring a whole blank line?
  buffer,       \* Size units
  beyond,       \* does the memory after a buffer without NUL show a blank line?
  bytes_read,   \* 1 for a read with data, 0 at the end of the input, -1 for an error
  words, key,   \* the locals with the words of the request
  answer        \* the call that answers, and its arguments

client == <<program, conn, input, closed>>
vars == <<pc, client, rest, first, blank, buffer, beyond, bytes_read, words, key, answer>>

Words == Locals(program)

Init ==
  /\ program \in {"proxy", "server"}
  /\ pc = "wait" /\ conn = 0
  /\ input = <<>> /\ rest = <<>> /\ closed = FALSE
  /\ first = <<>> /\ blank = FALSE
  /\ buffer = [i \in 1 .. Size |-> Garbage]
  /\ beyond \in BOOLEAN
  /\ bytes_read = 0
  /\ words = [i \in 1 .. Words |-> Garbage] /\ key = Garbage
  /\ answer = <<"none">>

-----------------------------------------------------------------------------
(* The client.                                                             *)

Connect ==
  /\ pc = "wait" /\ conn < MaxConn
  /\ pc' = "first" /\ conn' = conn + 1
  /\ \E i \in Inputs[program] : input' = i /\ rest' = i
  /\ closed' = FALSE /\ first' = <<>> /\ blank' = FALSE /\ answer' = <<"none">>
  /\ UNCHANGED <<program, buffer, beyond, bytes_read, words, key>>

ClientCloses ==
  /\ pc # "wait" /\ ~closed
  /\ closed' = TRUE
  /\ UNCHANGED <<program, pc, conn, input, rest, first, blank, buffer, beyond, bytes_read,
                 words, key, answer>>

-----------------------------------------------------------------------------
(* The worker.                                                             *)

\* The string in the buffer: what stands before the first NUL.
Text ==
  LET nuls == {i \in 1 .. Size : buffer[i] = NUL}
  IN  IF nuls = {} THEN buffer
      ELSE SubSeq(buffer, 1, (CHOOSE i \in nuls : \A j \in nuls : i <= j) - 1)

\* sscanf("%s %s ..."): words that are not there change nothing.
Parse(chunk) == [i \in 1 .. Words |-> IF HasWord(chunk, i) THEN Word(chunk, i) ELSE words[i]]

\* The next n units of input go over the start of the buffer.
Receive(n, end) ==
  LET chunk == SubSeq(rest, 1, n)
  IN  /\ rest' = SubSeq(rest, n + 1, Len(rest))
      /\ bytes_read' = 1
      /\ blank' = (blank \/ HasBlankLine(chunk))
      /\ buffer' = [i \in 1 .. Size |-> IF i <= n THEN chunk[i]
                                        ELSE IF i \in end THEN NUL ELSE buffer[i]]

\* The first read leaves room for a NUL, and the words are taken from what it brought.
FirstRead(n) ==
  /\ pc = "first" /\ n <= Len(rest) /\ n < Size
  /\ Receive(n, {n + 1})
  /\ first' = SubSeq(rest, 1, n)
  /\ words' = Parse(SubSeq(rest, 1, n))
  /\ pc' = "scan"
  /\ UNCHANGED <<client, beyond, key, answer>>

\* End of input or an error: nothing to answer.
NothingRead ==
  /\ pc = "first" /\ closed
  /\ \/ rest = <<>> /\ bytes_read' = 0
     \/ bytes_read' = -1
  /\ pc' = "wait"
  /\ UNCHANGED <<client, rest, first, blank, buffer, beyond, words, key, answer>>

\* Mutant: look for the blank line at the end of the string only.
MutantSeen == Len(Text) > 1 /\ HasBlankLine(SubSeq(Text, Len(Text) - 1, Len(Text)))

\* strstr (buffer, "\r\n\r\n"), which reads on where there is no NUL.
Seen ==
  \/ HasBlankLine(Text)
  \/ Len(Text) = Size /\ beyond

\* Mutant: leave the loop when a read brings nothing, too.
MutantHeaderEnds ==
  /\ pc = "scan" /\ (Seen \/ bytes_read <= 0)
  /\ pc' = "decide"
  /\ UNCHANGED <<client, rest, first, blank, buffer, beyond, bytes_read, words, key, answer>>

HeaderEnds ==
  /\ pc = "scan" /\ Seen
  /\ pc' = "decide"
  /\ UNCHANGED <<client, rest, first, blank, buffer, beyond, bytes_read, words, key, answer>>

ReadOn ==
  /\ pc = "scan" /\ ~Seen
  /\ pc' = "more"
  /\ UNCHANGED <<client, rest, first, blank, buffer, beyond, bytes_read, words, key, answer>>

\* Mutant: the words are taken from every read.
MutantReadMore(n) ==
  /\ pc = "more" /\ n <= Len(rest)
  /\ Receive(n, {})
  /\ words' = Parse(SubSeq(rest, 1, n))
  /\ pc' = "scan"
  /\ UNCHANGED <<client, first, beyond, key, answer>>

\* The other reads may fill the buffer, and no NUL is written after what they bring.
ReadMore(n) ==
  /\ pc = "more" /\ n <= Len(rest)
  /\ Receive(n, {})
  /\ pc' = "scan"
  /\ UNCHANGED <<client, first, beyond, words, key, answer>>

\* A read at the end of the input, or one that fails, only sets bytes_read; a reset
\* connection loses what was not read.
ReadNothing ==
  /\ pc = "more" /\ closed
  /\ \/ rest = <<>> /\ bytes_read' = 0
     \/ bytes_read' = -1
  /\ rest' = <<>>
  /\ pc' = "scan"
  /\ UNCHANGED <<client, first, blank, buffer, beyond, words, key, answer>>

\* The proxy's protocol check and calls: w is method, url, proxyAddress, protocol.
ProxyAnswer(w) ==
  IF {w[3], w[4]} \intersect Versions = {} THEN <<"bad request">>
  ELSE IF w[1] # "GET" THEN <<"bad method", w[1]>>
  ELSE IF w[4] \notin Versions THEN <<"get", w[2]>>      \* for this proxy itself
  ELSE <<"get from", w[3]>>                              \* host and page in one word

\* The server's: w is method, url, protocol.
ServerAnswer(w, k) ==
  IF w[3] \notin Versions THEN <<"bad request">>         \* cut to the size of a pointer
  ELSE IF w[1] \notin {"GET", "LOCAL-GET"} THEN <<"bad method", w[1]>>
  ELSE IF w[1] = "LOCAL-GET" THEN <<"local get", w[2], k>>
  ELSE <<"get", w[2]>>

Answer(w, k) == IF program = "proxy" THEN ProxyAnswer(w) ELSE ServerAnswer(w, k)

\* Mutant: the key is the last one in the buffer, not the first.
MutantKeyIn(s) ==
  LET keys == {i \in 1 .. Len(s) : s[i] \in KeyWords}
  IN  IF keys = {} THEN key ELSE s[CHOOSE i \in keys : \A j \in keys : i >= j]

\* sscanf (buffer, "%254[^'=']=%s", temp, key) of the server: the first key in the buffer.
KeyIn(s) ==
  LET keys == {i \in 1 .. Len(s) : s[i] \in KeyWords}
  IN  IF keys = {} THEN key ELSE s[CHOOSE i \in keys : \A j \in keys : i <= j]

\* After the loop: give up if the last read failed (return NULL ends the worker), or answer
\* and go back to wait for a connection.
Decide ==
  /\ pc = "decide"
  /\ IF bytes_read = -1
     THEN pc' = "ended" /\ UNCHANGED <<key, answer>>
     ELSE /\ pc' = "wait"
          /\ key' = IF program = "server" /\ words[1] = "LOCAL-GET" /\ words[3] \in Versions
                    THEN KeyIn(Text) ELSE key
          /\ answer' = Answer(words, key')
  /\ UNCHANGED <<client, rest, first, blank, buffer, beyond, bytes_read, words>>

Worker ==
  \/ \E n \in 1 .. Size : FirstRead(n) \/ ReadMore(n)
  \/ NothingRead \/ HeaderEnds \/ ReadOn \/ ReadNothing \/ Decide

Next == Connect \/ ClientCloses \/ Worker

Spec == Init /\ [][Next]_vars

\* The worker's thread runs, and a read returns when there is something to read.
FairSpec == Spec /\ WF_vars(Worker)

-----------------------------------------------------------------------------
(* Properties.                                                             *)

\* What the first line of a request and its first key ask for.
FirstKey(s) ==
  LET keys == {i \in 1 .. Len(s) : s[i] \in KeyWords}
  IN  IF keys = {} THEN Garbage ELSE s[CHOOSE i \in keys : \A j \in keys : i <= j]
Asked(s) ==
  LET line == FirstLine(s)
  IN  Answer([i \in 1 .. Words |-> IF i <= Len(line) THEN line[i] ELSE ""], FirstKey(s))

\* Did the first read bring every word that decides?
Enough ==
  IF program = "server" /\ input[1] = "LOCAL-GET" THEN HasBlankLine(first)
  ELSE \A i \in 1 .. Words : HasWord(first, i)

\* A request whose first read brought every word that decides (a whole header, if it asks
\* for shared memory) is answered as its own first line and key ask, though later reads
\* overwrite the buffer (RequestHandlers.h:302-373, s.c:260-302).  Nothing is said of a
\* first read that brought fewer words: the locals it leaves alone hold an earlier client's.
AnsweredAsAsked == (answer # <<"none">> /\ Enough) => answer = Asked(input)

\* A read of the header loop that finds the end of the input, or fails, is repeated for ever:
\* the worker serves nobody again, and it does not give up as the comment at
\* RequestHandlers.h:323-324 says of a failed read, for the branch that would (325-328;
\* s.c:272-276) comes after a loop that only a blank line ends (321-322; s.c:270-271).
InLoop == pc \in {"scan", "more"}
NeverGivesUp == [][InLoop /\ bytes_read <= 0 => InLoop' /\ bytes_read' <= 0]_vars

\* A blank line that one read brings ends the loop, whatever the buffer held before: the
\* connection is answered (RequestHandlers.h:321-322, s.c:270-271).
BlankLineIsSeen == (blank /\ pc = "scan") ~> (pc = "wait" /\ answer # <<"none">>)
=============================================================================
