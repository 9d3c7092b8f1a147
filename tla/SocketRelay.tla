----------------------------- MODULE SocketRelay -----------------------------
(***************************************************************************)
(* A page over sockets: the proxy's handle_get_with_sockets                *)
(* (New/PS/PS/RequestHandlers.h) sends its own file if it has one, or what *)
(* the server's handle_get (New/Server/Server/s.c) sends it, to the        *)
(* client's make_request (New/Client/Client/c.c).                          *)
(*                                                                         *)
(* The answer is the sequence of units 1 .. Total.  A connection keeps the *)
(* order of what is written and not its boundaries.  The proxy writes its  *)
(* whole buffer, cleared before each read, however little the read brought.*)
(* RequestReader's names are not used here, so that a module can extend    *)
(* both.                                                                   *)
(* Operators named Mutant... are wrong versions of the one after them.     *)
(***************************************************************************)
EXTENDS Integers, Sequences, Functions

CONSTANTS
  Total,            \* length of the answer
  ServerLength,     \* most units of a file written at once (BYTES - 1)
  RelayLength,      \* the proxy's BufferLength - 1
  ClientLength      \* the client's BufferLength - 1

ASSUME RelayAssumption ==
  /\ Total \in Nat
  /\ {ServerLength, RelayLength, ClientLength} \subseteq Nat \ {0}

Zero == 0                        \* the byte a cleared buffer is full of

VARIABLES
  proxyPc,      \* where handle_get_with_sockets stands
  serverPc,     \* where the server's worker stands
  written,      \* units of the answer the server, or the proxy from its file, wrote
  up, down,     \* in flight: server to proxy, proxy to client
  relayBuffer,  \* what the proxy's last read brought
  clientPc,     \* is the client in its read loop?
  printed,      \* what the client printed
  broken,       \* has a connection failed?
  crashed       \* exit(1) or SIGPIPE ended the proxy

relayVars ==
  <<proxyPc, serverPc, written, up, down, relayBuffer, clientPc, printed, broken, crashed>>

RelayInit ==
  /\ proxyPc = "get" /\ serverPc = "none" /\ written = 0
  /\ up = <<>> /\ down = <<>> /\ relayBuffer = <<>>
  /\ clientPc = "reading" /\ printed = <<>> /\ broken = FALSE /\ crashed = FALSE

\* A read on a stream brings what is there, up to the buffer's length, or less.
Chunks(stream, limit) ==
  {SubSeq(stream, 1, n) : n \in {m \in 1 .. limit : m <= Len(stream)}}
After(stream, chunk) == SubSeq(stream, Len(chunk) + 1, Len(stream))

-----------------------------------------------------------------------------
(* The proxy.                                                              *)

Goto(here, there) == ~crashed /\ proxyPc = here /\ proxyPc' = there

\* The page names a directory: nothing at all is sent.
Ignore ==
  /\ Goto("get", "close")
  /\ UNCHANGED <<serverPc, written, up, down, relayBuffer, clientPc, printed, broken, crashed>>

Open(found) ==
  /\ Goto("get", IF found THEN "file" ELSE "connect")
  /\ UNCHANGED <<serverPc, written, up, down, relayBuffer, clientPc, printed, broken, crashed>>

\* What a write to the client puts on its way; one that has left means SIGPIPE, sooner or
\* later.
Send(chunk) ==
  /\ down' = IF clientPc = "reading" THEN down \o chunk ELSE down
  /\ crashed' \in IF clientPc = "reading" THEN {FALSE} ELSE BOOLEAN

\* The next units of an answer.
Units(n) == [k \in 1 .. n |-> written + k]

\* The status line first, then the proxy's own file piece by piece.
WriteFile ==
  /\ written < Total /\ Goto("file", "file")
  /\ \E n \in 1 .. ServerLength :
       /\ written + n <= Total
       /\ written' = written + n
       /\ Send(Units(n))
  /\ UNCHANGED <<serverPc, up, relayBuffer, clientPc, printed, broken>>

FileEnds ==
  /\ written = Total /\ Goto("file", "close")
  /\ UNCHANGED <<serverPc, written, up, down, relayBuffer, clientPc, printed, broken, crashed>>

\* Connect, and send "GET /index.html", whatever page the client asked for.
ConnectServer ==
  /\ Goto("connect", "read")
  /\ serverPc' = "get"
  /\ UNCHANGED <<written, up, down, relayBuffer, clientPc, printed, broken, crashed>>

\* No socket, or no connection: the handler returns.
ConnectFails ==
  /\ Goto("connect", "close")
  /\ broken' = TRUE
  /\ UNCHANGED <<serverPc, written, up, down, relayBuffer, clientPc, printed, crashed>>

\* exit(1) for a host that has no address.
HostUnknown ==
  /\ Goto("connect", "done")
  /\ crashed' = TRUE
  /\ broken' = TRUE
  /\ UNCHANGED <<serverPc, written, up, down, relayBuffer, clientPc, printed>>

Read ==
  /\ Goto("read", "write")
  /\ \E chunk \in Chunks(up, RelayLength) : relayBuffer' = chunk /\ up' = After(up, chunk)
  /\ UNCHANGED <<serverPc, written, down, clientPc, printed, broken, crashed>>

\* Mutant: the buffer is not cleared before the next read.
MutantPadded(chunk) ==
  [k \in 1 .. RelayLength |-> IF k <= Len(chunk) THEN chunk[k]
                              ELSE IF chunk[Len(chunk)] > 1 THEN 1 ELSE Zero]

\* The buffer around a chunk.
Padded(chunk) == [k \in 1 .. RelayLength |-> IF k <= Len(chunk) THEN chunk[k] ELSE Zero]

\* The whole buffer goes to the client.
Write ==
  /\ Goto("write", "read")
  /\ Send(Padded(relayBuffer))
  /\ UNCHANGED <<serverPc, written, up, relayBuffer, clientPc, printed, broken>>

\* Mutant: a read that fills less than the buffer is taken for the last one.
MutantReadEnd ==
  /\ \/ serverPc = "done" /\ up = <<>>
     \/ relayBuffer # <<>> /\ Len(relayBuffer) < RelayLength
  /\ Goto("read", "close")
  /\ UNCHANGED <<serverPc, written, up, down, relayBuffer, clientPc, printed, broken, crashed>>

\* End of the server's answer.
ReadEnd ==
  /\ serverPc = "done" /\ up = <<>>
  /\ Goto("read", "close")
  /\ UNCHANGED <<serverPc, written, up, down, relayBuffer, clientPc, printed, broken, crashed>>

\* -1: what is in flight is lost, and the proxy takes it for the end.
ReadFails ==
  /\ Goto("read", "close")
  /\ up' = <<>>
  /\ broken' = TRUE
  /\ UNCHANGED <<serverPc, written, down, relayBuffer, clientPc, printed, crashed>>

\* Mutant: return, and leave the client's connection open.
MutantClose ==
  /\ Goto("close", "returned")
  /\ UNCHANGED <<serverPc, written, up, down, relayBuffer, clientPc, printed, broken, crashed>>

\* Back in handle_request: shut the client's connection down.
Close ==
  /\ Goto("close", "done")
  /\ UNCHANGED <<serverPc, written, up, down, relayBuffer, clientPc, printed, broken, crashed>>

-----------------------------------------------------------------------------
(* The server and the client.                                              *)

\* Its file in the same way, or all of a 404 at once.
Serve ==
  /\ serverPc = "get" /\ written < Total
  /\ \E n \in 1 .. ServerLength :
       /\ written + n <= Total
       /\ written' = written + n
       /\ up' = IF proxyPc \in {"read", "write"}
                THEN up \o Units(n) ELSE up
  /\ UNCHANGED <<proxyPc, serverPc, down, relayBuffer, clientPc, printed, broken, crashed>>

ServeEnd ==
  /\ serverPc = "get" /\ written = Total
  /\ serverPc' = "done"
  /\ UNCHANGED <<proxyPc, written, up, down, relayBuffer, clientPc, printed, broken, crashed>>

\* fprintf("%s"): the text before the first zero.
TextOf(chunk) ==
  LET zeros == {k \in 1 .. Len(chunk) : chunk[k] = Zero}
  IN  IF zeros = {} THEN chunk
      ELSE SubSeq(chunk, 1, (CHOOSE k \in zeros : \A j \in zeros : k <= j) - 1)

ClientReads ==
  /\ clientPc = "reading"
  /\ \E chunk \in Chunks(down, ClientLength) :
       /\ down' = After(down, chunk)
       /\ printed' = printed \o TextOf(chunk)
  /\ UNCHANGED <<proxyPc, serverPc, written, up, relayBuffer, clientPc, broken, crashed>>

ClientReadEnd ==
  /\ clientPc = "reading" /\ down = <<>>
  /\ proxyPc = "done" \/ crashed
  /\ clientPc' = "done"
  /\ UNCHANGED <<proxyPc, serverPc, written, up, down, relayBuffer, printed, broken, crashed>>

ClientLeaves ==
  /\ clientPc = "reading"
  /\ clientPc' = "left" /\ down' = <<>> /\ broken' = TRUE
  /\ UNCHANGED <<proxyPc, serverPc, written, up, relayBuffer, printed, crashed>>

Proxy  == \/ Ignore \/ WriteFile \/ FileEnds \/ \E found \in BOOLEAN : Open(found)
          \/ ConnectServer \/ ConnectFails \/ HostUnknown
          \/ Read \/ Write \/ ReadEnd \/ ReadFails \/ Close
Server == Serve \/ ServeEnd
Client == ClientReads \/ ClientReadEnd

RelayNext == Proxy \/ Server \/ Client \/ ClientLeaves

RelaySpec == RelayInit /\ [][RelayNext]_relayVars

\* Threads run, and what was written arrives.
FairRelaySpec == RelaySpec /\ WF_relayVars(Proxy) /\ WF_relayVars(Server) /\ WF_relayVars(Client)

-----------------------------------------------------------------------------
(* Properties.                                                             *)

\* The units of the answer in a stream, and do they come in its order, each once?
UnitsIn(stream) == Range(stream) \ {Zero}
Rising(stream) ==
  \A j, k \in 1 .. Len(stream) :
    j < k /\ stream[j] # Zero /\ stream[k] # Zero => stream[j] < stream[k]

\* What the client prints are units of the answer, in their order and none of them twice,
\* though the buffers are padded and reads cut the stream anywhere (RequestHandlers.h:248-256,
\* New/Client/Client/c.c:171-180).
PrintedInOrder == Zero \notin Range(printed) /\ Rising(printed)

\* On the way to the client nothing of the answer is lost, changed or moved: what is on its
\* way to the client, in the proxy and on its way to the proxy are, but for zeroes, the last
\* units that were written, in order, and none of them was printed; and an answer that was
\* begun is left only when all of it was sent (RequestHandlers.h:205-210, 248-256).  Stated
\* while nothing breaks.
Pending == down \o (IF proxyPc = "write" THEN relayBuffer ELSE <<>>) \o up
NothingLost ==
  ~broken =>
    /\ Rising(Pending)
    /\ \A u \in UnitsIn(Pending) : /\ u <= written /\ u .. written \subseteq UnitsIn(Pending)
                                   /\ \A p \in Range(printed) : p < u
    /\ proxyPc \in {"close", "done"} /\ (written > 0 \/ serverPc # "none")
         => written = Total /\ up = <<>>

\* The relay ends, and the client with it, whoever fails (RequestHandlers.h:205-210,
\* 249-261).
ClientReturns == clientPc = "reading" ~> clientPc # "reading"
=============================================================================
