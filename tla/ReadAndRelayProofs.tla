--------------------------- MODULE ReadAndRelayProofs ---------------------------
(***************************************************************************)
(* Theorems about the two halves of a request over sockets, for buffers of *)
(* any length: SocketRelay, which relays the answer, and RequestReader,    *)
(* which reads the request.  Each has its own state and specification.     *)
(***************************************************************************)
EXTENDS SocketRelay, RequestReader, FiniteSetTheorems, SequenceTheorems, WellFoundedInduction,
        TLAPS

-----------------------------------------------------------------------------
(* The relay.                                                              *)

Stream == Seq(Nat)

\* Every unit in s comes before every unit in t.
Below(s, t) == \A x \in UnitsIn(s), y \in UnitsIn(t) : x < y

LEMMA Streams ==
  ASSUME NEW s \in Stream
  PROVE  /\ Len(s) \in Nat /\ DOMAIN s = 1 .. Len(s)
         /\ \A k \in 1 .. Len(s) : s[k] \in Nat
         /\ Range(s) \subseteq Nat
  BY LenProperties, ElementOfSeq DEF Stream, Range

LEMMA EmptyStream == <<>> \in Stream /\ UnitsIn(<<>>) = {} /\ Rising(<<>>)
  BY EmptySeq DEF Stream, UnitsIn, Range, Rising

LEMMA Joined ==
  ASSUME NEW s \in Stream, NEW t \in Stream
  PROVE  /\ s \o t \in Stream
         /\ Range(s \o t) = Range(s) \cup Range(t)
         /\ UnitsIn(s \o t) = UnitsIn(s) \cup UnitsIn(t)
         /\ Rising(s \o t) <=> Rising(s) /\ Rising(t) /\ Below(s, t)
<1> DEFINE j == s \o t
<1>1. /\ j \in Stream /\ Len(j) = Len(s) + Len(t)
      /\ \A k \in 1 .. Len(s) + Len(t) :
           j[k] = IF k <= Len(s) THEN s[k] ELSE t[k - Len(s)]
  BY ConcatProperties DEF Stream
<1> HIDE DEF j
<1>2. Len(s) \in Nat /\ Len(t) \in Nat /\ DOMAIN j = 1 .. Len(s) + Len(t)
      /\ DOMAIN s = 1 .. Len(s) /\ DOMAIN t = 1 .. Len(t)
  BY <1>1, Streams
<1>3. \A k \in 1 .. Len(s) : k \in 1 .. Len(j) /\ j[k] = s[k]
  BY <1>1, <1>2
<1>4. \A k \in 1 .. Len(t) : k + Len(s) \in 1 .. Len(j) /\ j[k + Len(s)] = t[k]
  BY <1>1, <1>2
<1>5. \A k \in 1 .. Len(j) : \/ k \in 1 .. Len(s) /\ j[k] = s[k]
                             \/ k - Len(s) \in 1 .. Len(t) /\ j[k] = t[k - Len(s)]
  BY <1>1, <1>2
<1>6. Range(j) = Range(s) \cup Range(t)
  <2>1. ASSUME NEW x \in Range(j) PROVE x \in Range(s) \cup Range(t)
    BY <1>1, <1>2, <1>5 DEF Range
  <2>2. ASSUME NEW x \in Range(s) PROVE x \in Range(j)
    BY <1>1, <1>2, <1>3, <2>2 DEF Range
  <2>3. ASSUME NEW x \in Range(t) PROVE x \in Range(j)
    <3>1. PICK k \in 1 .. Len(t) : x = t[k]
      BY <1>2, <2>3 DEF Range
    <3>2. k + Len(s) \in DOMAIN j /\ j[k + Len(s)] = x
      BY <1>1, <1>2, <1>4, <3>1
    <3>. QED  BY <3>2 DEF Range
  <2>. QED  BY <2>1, <2>2, <2>3
<1>7. ASSUME Rising(j) PROVE Rising(s) /\ Rising(t) /\ Below(s, t)
  <2>1. Rising(s)
    BY <1>2, <1>3, <1>7 DEF Rising
  <2>2. Rising(t)
    <3> SUFFICES ASSUME NEW a \in 1 .. Len(t), NEW b \in 1 .. Len(t), a < b,
                        t[a] # Zero, t[b] # Zero
                 PROVE  t[a] < t[b]
      BY DEF Rising
    <3>1. a + Len(s) < b + Len(s)
      BY <1>2
    <3>. QED  BY <1>4, <1>7, <3>1 DEF Rising
  <2>3. Below(s, t)
    <3> SUFFICES ASSUME NEW x \in UnitsIn(s), NEW y \in UnitsIn(t) PROVE x < y
      BY DEF Below
    <3>1. PICK a \in 1 .. Len(s) : x = s[a]
      BY <1>2 DEF UnitsIn, Range
    <3>2. PICK b \in 1 .. Len(t) : y = t[b]
      BY <1>2 DEF UnitsIn, Range
    <3>3. a < b + Len(s)
      BY <1>2
    <3>. QED  BY <1>3, <1>4, <1>7, <3>1, <3>2, <3>3 DEF Rising, UnitsIn
  <2>. QED  BY <2>1, <2>2, <2>3
<1>8. ASSUME Rising(s), Rising(t), Below(s, t) PROVE Rising(j)
  <2> SUFFICES ASSUME NEW a \in 1 .. Len(j), NEW b \in 1 .. Len(j), a < b, j[a] # Zero, j[b] # Zero
               PROVE  j[a] < j[b]
    BY DEF Rising
  <2>1. CASE b \in 1 .. Len(s)
    BY <1>2, <1>3, <1>8, <2>1 DEF Rising
  <2>2. CASE a \notin 1 .. Len(s)
    <3>1. a - Len(s) \in 1 .. Len(t) /\ b - Len(s) \in 1 .. Len(t) /\ a - Len(s) < b - Len(s)
      BY <1>1, <1>2, <2>2
    <3>2. j[a] = t[a - Len(s)] /\ j[b] = t[b - Len(s)]
      BY <1>1, <1>2, <2>2
    <3>. QED  BY <1>8, <3>1, <3>2 DEF Rising
  <2>3. CASE a \in 1 .. Len(s) /\ b \notin 1 .. Len(s)
    <3>1. j[a] \in UnitsIn(s) /\ j[b] \in UnitsIn(t)
      BY <1>2, <1>3, <1>5, <2>3 DEF UnitsIn, Range
    <3>. QED  BY <1>8, <3>1 DEF Below
  <2>. QED  BY <2>1, <2>2, <2>3
<1>9. UnitsIn(j) = UnitsIn(s) \cup UnitsIn(t)
  BY <1>6 DEF UnitsIn
<1>. QED  BY <1>1, <1>6, <1>7, <1>8, <1>9 DEF j

\* A read takes the beginning of a stream.
LEMMA ReadsSplit ==
  ASSUME NEW s \in Stream, NEW limit \in Nat, NEW chunk \in Chunks(s, limit)
  PROVE  /\ chunk \in Stream /\ After(s, chunk) \in Stream
         /\ s = chunk \o After(s, chunk) /\ Len(chunk) \in 1 .. limit
<1>1. PICK n \in 1 .. limit : n <= Len(s) /\ chunk = SubSeq(s, 1, n)
  BY DEF Chunks
<1>2. Len(s) \in Nat /\ \A i \in 1 .. Len(s) : s[i] \in Nat
  BY Streams
<1>3. chunk \in Stream /\ Len(chunk) = n
  BY <1>1, <1>2, SubSeqProperties DEF Stream
<1>4. SubSeq(s, n + 1, Len(s)) \in Stream
  BY <1>1, <1>2, SubSeqProperties DEF Stream
<1>5. SubSeq(s, 1, n) \o SubSeq(s, n + 1, Len(s)) = SubSeq(s, 1, Len(s))
  BY <1>1, <1>2, ConcatAdjacentSubSeq DEF Stream
<1>6. SubSeq(s, 1, Len(s)) = s
  BY SubSeqFull DEF Stream
<1>. QED  BY <1>1, <1>3, <1>4, <1>5, <1>6 DEF After

\* What is printed of it is its beginning, and has no zero.
LEMMA PrintsText ==
  ASSUME NEW chunk \in Stream
  PROVE  /\ TextOf(chunk) \in Stream /\ Zero \notin Range(TextOf(chunk))
         /\ \E left \in Stream : chunk = TextOf(chunk) \o left
<1> DEFINE zeros == {k \in 1 .. Len(chunk) : chunk[k] = Zero}
           lead == CHOOSE k \in zeros : \A j \in zeros : k <= j
<1>1. Len(chunk) \in Nat /\ DOMAIN chunk = 1 .. Len(chunk)
      /\ \A k \in 1 .. Len(chunk) : chunk[k] \in Nat
  BY Streams
<1>2. CASE zeros = {}
  <2>1. TextOf(chunk) = chunk /\ chunk \o <<>> = chunk
    BY <1>2, ConcatEmptySeq DEF TextOf, Stream
  <2>2. Zero \notin Range(chunk)
    BY <1>1, <1>2 DEF Range
  <2>. QED  BY <2>1, <2>2, EmptyStream
<1>3. CASE zeros # {}
  <2>1. lead \in zeros /\ \A j \in zeros : lead <= j
    <3> DEFINE R == {p \in Nat \X Nat : p[1] < p[2]}
    <3>1. PICK d \in zeros : \A e \in zeros : <<e, d>> \notin R
      <4>1. zeros \subseteq Nat
        BY <1>1
      <4>2. IsWellFoundedOn(R, Nat)
        BY NatLessThanWellFounded DEF OpToRel
      <4>. HIDE DEF R, zeros
      <4>. QED  BY <1>3, <4>1, <4>2, WFMin
    <3>2. ASSUME NEW e \in zeros PROVE d <= e
      <4>1. d \in Nat /\ e \in Nat
        BY <1>1
      <4>2. ~ (e < d)
        BY <3>1, <4>1
      <4>. QED  BY <4>1, <4>2
    <3> HIDE DEF zeros
    <3>. QED  BY <3>2
  <2>2. TextOf(chunk) = SubSeq(chunk, 1, lead - 1)
    BY <1>3 DEF TextOf
  <2>3. lead \in 1 .. Len(chunk) /\ \A k \in 1 .. lead - 1 : chunk[k] # Zero
    BY <1>1, <2>1
  <2> HIDE DEF zeros, lead
  <2>4. TextOf(chunk) \in Stream /\ Len(TextOf(chunk)) = lead - 1
        /\ \A k \in 1 .. lead - 1 : TextOf(chunk)[k] = chunk[k]
    <3>1. lead - 1 \in Int /\ (1 <= lead - 1 => (lead - 1) - 1 + 1 = lead - 1)
          /\ \A i \in 1 .. lead - 1 : chunk[i] \in Nat
      BY <1>1, <2>3
    <3>2. /\ SubSeq(chunk, 1, lead - 1) \in Seq(Nat)
          /\ Len(SubSeq(chunk, 1, lead - 1)) = IF 1 <= lead - 1 THEN lead - 1 - 1 + 1 ELSE 0
          /\ \A i \in 1 .. lead - 1 - 1 + 1 : SubSeq(chunk, 1, lead - 1)[i] = chunk[1 + i - 1]
      BY <3>1, SubSeqProperties
    <3>. QED  BY <2>2, <2>3, <3>2 DEF Stream
  <2>5. Zero \notin Range(TextOf(chunk))
    BY <2>3, <2>4, Streams DEF Range
  <2>6. SubSeq(chunk, 1, lead - 1) \o SubSeq(chunk, lead, Len(chunk)) = chunk
    <3>1. lead - 1 \in 1 - 1 .. Len(chunk) /\ 1 \in 1 .. Len(chunk) + 1
          /\ lead - 1 + 1 = lead /\ Len(chunk) \in lead - 1 .. Len(chunk)
      BY <1>1, <2>3
    <3>2. \A k \in 1 - 1 .. Len(chunk) : Len(chunk) \in k .. Len(chunk) =>
            SubSeq(chunk, 1, k) \o SubSeq(chunk, k + 1, Len(chunk)) = SubSeq(chunk, 1, Len(chunk))
      BY <3>1, ConcatAdjacentSubSeq DEF Stream
    <3>. QED  BY <3>1, <3>2, SubSeqFull DEF Stream
  <2>7. SubSeq(chunk, lead, Len(chunk)) \in Stream
    <3>1. \A i \in lead .. Len(chunk) : chunk[i] \in Nat
      BY <1>1, <2>3
    <3>. QED  BY <1>1, <2>3, <3>1, SubSeqProperties DEF Stream
  <2>. QED  BY <2>2, <2>4, <2>5, <2>6, <2>7
<1>. QED  BY <1>2, <1>3

\* The whole buffer holds the units of the read.
LEMMA PaddedHolds ==
  ASSUME NEW s \in Stream, Len(s) <= RelayLength
  PROVE  /\ Padded(s) \in Stream /\ UnitsIn(Padded(s)) = UnitsIn(s)
         /\ Rising(s) => Rising(Padded(s))
<1> DEFINE p == Padded(s)
<1>1. Len(s) \in Nat /\ DOMAIN s = 1 .. Len(s) /\ \A k \in 1 .. Len(s) : s[k] \in Nat
  BY Streams
<1>2. RelayLength \in Nat
  BY RelayAssumption DEF RelayAssumption
<1>3. p \in [1 .. RelayLength -> Nat]
      /\ \A k \in 1 .. RelayLength : p[k] = IF k <= Len(s) THEN s[k] ELSE Zero
  BY <1>1, <1>2 DEF Padded, Zero
<1> HIDE DEF p
<1>4. p \in Stream
  BY <1>2, <1>3, SeqDef DEF Stream
<1>5. Len(p) = RelayLength /\ DOMAIN p = 1 .. RelayLength
  BY <1>2, <1>3, <1>4, Streams
<1>6. UnitsIn(p) = UnitsIn(s)
  <2>1. ASSUME NEW x \in UnitsIn(p) PROVE x \in UnitsIn(s)
    BY <1>1, <1>3, <1>5 DEF UnitsIn, Range
  <2>2. ASSUME NEW x \in UnitsIn(s) PROVE x \in UnitsIn(p)
    BY <1>1, <1>2, <1>3, <1>5 DEF UnitsIn, Range
  <2>. QED  BY <2>1, <2>2
<1>7. Rising(s) => Rising(p)
  BY <1>1, <1>2, <1>3, <1>5 DEF Rising
<1>. QED  BY <1>4, <1>6, <1>7 DEF p

\* The next units of the answer.
LEMMA UnitsFollow ==
  ASSUME NEW n \in Nat, written \in Nat
  PROVE  /\ Units(n) \in Stream /\ Rising(Units(n))
         /\ UnitsIn(Units(n)) = written + 1 .. written + n
<1> DEFINE u == Units(n)
<1>1. u \in [1 .. n -> Nat] /\ \A k \in 1 .. n : u[k] = written + k
  BY DEF Units
<1> HIDE DEF u
<1>2. u \in Stream
  BY <1>1, SeqDef DEF Stream
<1>3. Len(u) = n /\ DOMAIN u = 1 .. n
  BY <1>1, <1>2, Streams
<1>4. Rising(u)
  BY <1>1, <1>3 DEF Rising
<1>5. UnitsIn(u) = written + 1 .. written + n
  <2>1. ASSUME NEW x \in UnitsIn(u) PROVE x \in written + 1 .. written + n
    BY <1>1, <1>3 DEF UnitsIn, Range
  <2>2. ASSUME NEW x \in written + 1 .. written + n PROVE x \in UnitsIn(u)
    <3>1. x - written \in 1 .. n /\ u[x - written] = x /\ x # Zero
      BY <1>1 DEF Zero
    <3>. QED  BY <1>3, <3>1 DEF UnitsIn, Range
  <2>. QED  BY <2>1, <2>2
<1>. QED  BY <1>2, <1>4, <1>5 DEF u

-----------------------------------------------------------------------------
(* The invariant.                                                          *)

Types ==
  /\ proxyPc \in {"get", "file", "connect", "read", "write", "close", "done"}
  /\ serverPc \in {"none", "get", "done"} /\ written \in 0 .. Total
  /\ up \in Stream /\ down \in Stream /\ relayBuffer \in Stream /\ Len(relayBuffer) <= RelayLength
  /\ clientPc \in {"reading", "done", "left"} /\ printed \in Stream
  /\ broken \in BOOLEAN /\ crashed \in BOOLEAN

\* What has been written follows its places: server, proxy, client, or the proxy's file.
Control ==
  /\ proxyPc \in {"get", "file", "connect"} => up = <<>> /\ serverPc = "none"
  /\ proxyPc \in {"get", "connect"} => written = 0
  /\ serverPc = "done" => written = Total
  /\ ~broken =>
       /\ ~crashed /\ clientPc # "left" /\ (clientPc = "done" => proxyPc = "done")
       /\ serverPc = "get" => proxyPc \in {"read", "write"}
       /\ proxyPc \in {"close", "done"} /\ (written > 0 \/ serverPc # "none")
            => written = Total /\ up = <<>>

Carried == IF proxyPc = "write" THEN relayBuffer ELSE <<>>

\* Printed, on the way to the client, in the proxy, on the way to the proxy, to be written:
\* the units are in this order.
InLine(p, d, c, u, w) ==
  /\ Rising(p) /\ Rising(d) /\ Rising(c) /\ Rising(u)
  /\ Below(p, d) /\ Below(p, c) /\ Below(p, u) /\ Below(d, c) /\ Below(d, u) /\ Below(c, u)
  /\ \A x \in UnitsIn(p) \cup UnitsIn(d) \cup UnitsIn(c) \cup UnitsIn(u) : x <= w

\* With a unit that is on its way, so are all that were written after it.
Kept(travelling, w) == \A x \in travelling : \A y \in x .. w : y \in travelling

Line == InLine(printed, down, Carried, up, written) /\ Zero \notin Range(printed)
Whole == ~broken => Kept(UnitsIn(down) \cup UnitsIn(Carried) \cup UnitsIn(up), written)

RelayInv == Types /\ Control /\ Line /\ Whole

LEMMA InitRelay == RelayInit => RelayInv
<1> SUFFICES ASSUME RelayInit PROVE RelayInv
  OBVIOUS
<1>1. Carried = <<>> /\ UnitsIn(<<>>) = {} /\ Rising(<<>>) /\ <<>> \in Stream /\ Len(<<>>) = 0
      /\ Range(<<>>) = {}
  BY EmptyStream, EmptySeq DEF RelayInit, Carried, Range
<1>2. Len(relayBuffer) <= RelayLength
  <2>1. Len(relayBuffer) = 0 /\ RelayLength \in Nat
    BY <1>1, RelayAssumption DEF RelayInit, RelayAssumption
  <2>. QED  BY <2>1
<1>3. Types /\ Control
  <2>1. Types
    <3>1. up \in Stream /\ down \in Stream /\ relayBuffer \in Stream /\ printed \in Stream
      BY <1>1 DEF RelayInit
    <3>2. written \in 0 .. Total
      BY RelayAssumption DEF RelayInit, RelayAssumption
    <3>3. broken \in BOOLEAN /\ crashed \in BOOLEAN
      BY DEF RelayInit
    <3>. QED  BY <1>2, <3>1, <3>2, <3>3 DEF RelayInit, Types
  <2>2. Control
    BY DEF RelayInit, Control
  <2>. QED  BY <2>1, <2>2
<1>4. Line /\ Whole
  BY <1>1 DEF RelayInit, Line, Whole, InLine, Below, Kept
<1>. QED  BY <1>3, <1>4 DEF RelayInv

LEMMA NextTypes == ASSUME Types, [RelayNext]_relayVars PROVE Types'
<1> USE DEF Types, Goto
<1>1. CASE UNCHANGED relayVars
  BY <1>1 DEF relayVars
<1>2. CASE Ignore \/ FileEnds \/ \E found \in BOOLEAN : Open(found)
  BY <1>2 DEF Ignore, FileEnds, Open
<1>3. CASE ConnectServer \/ ConnectFails \/ HostUnknown \/ ReadEnd \/ Close
  BY <1>3 DEF ConnectServer, ConnectFails, HostUnknown, ReadEnd, Close
<1>4. CASE ReadFails
  BY <1>4, EmptyStream DEF ReadFails
<1>5. CASE Read
  <2>1. PICK chunk \in Chunks(up, RelayLength) : relayBuffer' = chunk /\ up' = After(up, chunk)
    BY <1>5 DEF Read
  <2>2. RelayLength \in Nat
    BY RelayAssumption DEF RelayAssumption
  <2>3. chunk \in Stream /\ After(up, chunk) \in Stream /\ Len(chunk) <= RelayLength
    BY <2>2, ReadsSplit
  <2>. QED  BY <1>5, <2>1, <2>3 DEF Read
<1>6. ASSUME NEW chunk \in Stream, Send(chunk) PROVE down' \in Stream /\ crashed' \in BOOLEAN
  BY <1>6, Joined DEF Send
<1>7. CASE WriteFile
  <2>1. PICK n \in 1 .. ServerLength : written + n <= Total /\ written' = written + n
                                       /\ Send(Units(n))
    BY <1>7 DEF WriteFile
  <2>2. Units(n) \in Stream /\ n \in Nat /\ Total \in Nat
    BY RelayAssumption, UnitsFollow DEF RelayAssumption
  <2>. QED  BY <1>6, <1>7, <2>1, <2>2 DEF WriteFile
<1>8. CASE Write
  <2>1. Padded(relayBuffer) \in Stream /\ Send(Padded(relayBuffer))
    BY <1>8, PaddedHolds DEF Write
  <2>. QED  BY <1>6, <1>8, <2>1 DEF Write
<1>9. CASE Serve
  <2>1. PICK n \in 1 .. ServerLength :
          /\ written + n <= Total /\ written' = written + n
          /\ up' = IF proxyPc \in {"read", "write"} THEN up \o Units(n) ELSE up
    BY <1>9 DEF Serve
  <2>2. Units(n) \in Stream /\ n \in Nat /\ Total \in Nat
    BY RelayAssumption, UnitsFollow DEF RelayAssumption
  <2>3. up' \in Stream
    BY <2>1, <2>2, Joined
  <2>. QED  BY <1>9, <2>1, <2>2, <2>3 DEF Serve
<1>10. CASE ServeEnd \/ ClientReadEnd
  BY <1>10 DEF ServeEnd, ClientReadEnd
<1>11. CASE ClientLeaves
  BY <1>11, EmptyStream DEF ClientLeaves
<1>12. CASE ClientReads
  <2>1. PICK chunk \in Chunks(down, ClientLength) : /\ down' = After(down, chunk)
                                                    /\ printed' = printed \o TextOf(chunk)
    BY <1>12 DEF ClientReads
  <2>2. ClientLength \in Nat
    BY RelayAssumption DEF RelayAssumption
  <2>3. chunk \in Stream /\ After(down, chunk) \in Stream
    BY <2>2, ReadsSplit
  <2>4. printed' \in Stream
    BY <2>1, <2>3, PrintsText, Joined
  <2>. QED  BY <1>12, <2>1, <2>3, <2>4 DEF ClientReads
<1>. QED
  BY <1>1, <1>2, <1>3, <1>4, <1>5, <1>7, <1>8, <1>9, <1>10, <1>11, <1>12
     DEF RelayNext, Proxy, Server, Client

LEMMA NextControl == ASSUME Types, Control, [RelayNext]_relayVars PROVE Control'
<1> USE RelayAssumption DEF Types, Control, Goto, RelayAssumption
<1>1. CASE UNCHANGED relayVars
  BY <1>1 DEF relayVars
<1>2. CASE Ignore \/ FileEnds \/ \E found \in BOOLEAN : Open(found)
  BY <1>2 DEF Ignore, FileEnds, Open
<1>3. CASE ConnectServer \/ ReadEnd \/ Close
  BY <1>3 DEF ConnectServer, ReadEnd, Close
<1>4. CASE ConnectFails \/ HostUnknown \/ ReadFails
  BY <1>4 DEF ConnectFails, HostUnknown, ReadFails
<1>5. CASE Read
  BY <1>5 DEF Read
<1>6. ASSUME NEW chunk, Send(chunk), proxyPc \in {"file", "write"} PROVE ~broken => ~crashed'
  BY <1>6 DEF Send
<1>7. CASE WriteFile
  BY <1>6, <1>7 DEF WriteFile
<1>8. CASE Write
  BY <1>6, <1>8 DEF Write
<1>9. CASE Serve
  BY <1>9 DEF Serve
<1>10. CASE ServeEnd \/ ClientReadEnd
  BY <1>10 DEF ServeEnd, ClientReadEnd
<1>11. CASE ClientLeaves \/ ClientReads
  BY <1>11 DEF ClientLeaves, ClientReads
<1>. QED
  BY <1>1, <1>2, <1>3, <1>4, <1>5, <1>7, <1>8, <1>9, <1>10, <1>11
    DEF RelayNext, Proxy, Server, Client

\* A step that moves no unit.
LEMMA StandStill ==
  ASSUME Line, Whole, UNCHANGED <<printed, down, Carried, up, written>>, broken => broken'
  PROVE  Line' /\ Whole'
<1>1. Line'
  BY DEF Line
<1>2. Whole'
  BY DEF Whole
<1>. QED  BY <1>1, <1>2

\* Units that were written just now join the end of the line.
LEMMA WrittenLast ==
  ASSUME NEW n \in Nat, written \in Nat, NEW p \in Stream, NEW d \in Stream, NEW c \in Stream,
         NEW u \in Stream, InLine(p, d, c, u, written)
  PROVE  /\ InLine(p, d, c, u \o Units(n), written + n)
         /\ c = <<>> /\ u = <<>> => InLine(p, d \o Units(n), c, u, written + n)
         /\ LET before == UnitsIn(d) \cup UnitsIn(c) \cup UnitsIn(u)
            IN  Kept(before, written) => Kept(before \cup UnitsIn(Units(n)), written + n)
<1>1. /\ Units(n) \in Stream /\ Rising(Units(n))
      /\ UnitsIn(Units(n)) = written + 1 .. written + n
  BY UnitsFollow
<1>2. UnitsIn(p) \subseteq Nat /\ UnitsIn(d) \subseteq Nat /\ UnitsIn(c) \subseteq Nat
      /\ UnitsIn(u) \subseteq Nat
  BY Streams DEF UnitsIn
<1>3. \A s \in {p, d, c, u} : Below(s, Units(n))
  BY <1>1, <1>2 DEF InLine, Below
<1>4. InLine(p, d, c, u \o Units(n), written + n)
  <2>1. /\ UnitsIn(u \o Units(n)) = UnitsIn(u) \cup UnitsIn(Units(n))
        /\ Rising(u \o Units(n))
    BY <1>1, <1>3, Joined DEF InLine
  <2>2. \A s \in {p, d, c} : Below(s, u \o Units(n))
    BY <1>3, <2>1 DEF InLine, Below
  <2>3. \A x \in UnitsIn(p) \cup UnitsIn(d) \cup UnitsIn(c) \cup UnitsIn(u \o Units(n)) :
          x <= written + n
    BY <1>1, <1>2, <2>1 DEF InLine
  <2>. QED  BY <2>1, <2>2, <2>3 DEF InLine
<1>5. ASSUME c = <<>>, u = <<>> PROVE InLine(p, d \o Units(n), c, u, written + n)
  <2>1. /\ UnitsIn(d \o Units(n)) = UnitsIn(d) \cup UnitsIn(Units(n))
        /\ Rising(d \o Units(n))
    BY <1>1, <1>3, Joined DEF InLine
  <2>2. Below(p, d \o Units(n)) /\ UnitsIn(c) = {} /\ UnitsIn(u) = {}
    BY <1>3, <1>5, <2>1, EmptyStream DEF InLine, Below
  <2>3. \A x \in UnitsIn(p) \cup UnitsIn(d \o Units(n)) : x <= written + n
    BY <1>1, <1>2, <2>1 DEF InLine
  <2>. QED  BY <2>1, <2>2, <2>3 DEF InLine, Below
<1>6. ASSUME NEW before, before = UnitsIn(d) \cup UnitsIn(c) \cup UnitsIn(u), Kept(before, written)
      PROVE  Kept(before \cup UnitsIn(Units(n)), written + n)
  <2> SUFFICES ASSUME NEW x \in before \cup UnitsIn(Units(n)), NEW y \in x .. written + n
               PROVE  y \in before \cup UnitsIn(Units(n))
    BY DEF Kept
  <2>1. x \in Nat /\ y \in Nat
    BY <1>1, <1>2, <1>6
  <2>2. CASE y <= written
    <3>1. x \in before
      BY <1>1, <2>1, <2>2
    <3>2. y \in x .. written
      BY <2>1, <2>2
    <3>. QED  BY <1>6, <3>1, <3>2 DEF Kept
  <2>3. CASE y > written
    BY <1>1, <2>1, <2>3
  <2>. QED  BY <2>1, <2>2, <2>3
<1>. QED  BY <1>4, <1>5, <1>6

LEMMA NextLine == ASSUME Types, Control, Line, Whole, [RelayNext]_relayVars PROVE Line' /\ Whole'
<1> USE DEF Types, Goto
<1>0. Carried \in Stream /\ written \in Nat
  BY EmptyStream, RelayAssumption DEF Carried, RelayAssumption
<1>1. CASE UNCHANGED relayVars
  BY <1>1, StandStill DEF relayVars, Carried
<1>2. CASE Ignore \/ FileEnds \/ \E found \in BOOLEAN : Open(found)
  BY <1>2, StandStill DEF Ignore, FileEnds, Open, Carried
<1>3. CASE ConnectServer \/ ConnectFails \/ HostUnknown \/ ReadEnd \/ Close
  BY <1>3, StandStill DEF ConnectServer, ConnectFails, HostUnknown, ReadEnd, Close, Carried
<1>4. CASE ReadFails
  <2>1. /\ UNCHANGED <<printed, down, written>> /\ Carried' = Carried /\ up' = <<>> /\ broken'
    BY <1>4 DEF ReadFails, Carried
  <2>2. InLine(printed, down, Carried, <<>>, written)
    BY EmptyStream DEF Line, InLine, Below
  <2>. QED  BY <2>1, <2>2 DEF Line, Whole
<1>5. CASE Read
  <2>1. PICK chunk \in Chunks(up, RelayLength) : relayBuffer' = chunk /\ up' = After(up, chunk)
    BY <1>5 DEF Read
  <2>2. chunk \in Stream /\ up' \in Stream /\ up = chunk \o up'
    BY <2>1, ReadsSplit, RelayAssumption DEF RelayAssumption
  <2>3. UNCHANGED <<printed, down, written, broken>> /\ Carried = <<>> /\ Carried' = chunk
    BY <1>5, <2>1 DEF Read, Carried
  <2>4. UnitsIn(up) = UnitsIn(chunk) \cup UnitsIn(up') /\ UnitsIn(Carried) = {}
        /\ (Rising(up) => Rising(chunk) /\ Rising(up') /\ Below(chunk, up'))
    <3>1. /\ UnitsIn(chunk \o up') = UnitsIn(chunk) \cup UnitsIn(up')
          /\ (Rising(chunk \o up') => Rising(chunk) /\ Rising(up') /\ Below(chunk, up'))
      BY <2>2, Joined
    <3>. QED  BY <2>2, <2>3, <3>1, EmptyStream
  <2>5. InLine(printed, down, chunk, up', written)
    BY <2>4 DEF Line, InLine, Below
  <2>6. ~broken => Kept(UnitsIn(down) \cup UnitsIn(chunk) \cup UnitsIn(up'), written)
    <3>1. UnitsIn(down) \cup UnitsIn(chunk) \cup UnitsIn(up')
            = UnitsIn(down) \cup UnitsIn(Carried) \cup UnitsIn(up)
      BY <2>4
    <3>. QED  BY <3>1 DEF Whole
  <2>. QED  BY <2>3, <2>5, <2>6 DEF Line, Whole
<1>6. CASE Write
  <2>1. /\ UNCHANGED <<printed, up, written, broken>> /\ Send(Padded(relayBuffer)) /\ ~crashed
        /\ Carried = relayBuffer /\ Carried' = <<>> /\ proxyPc = "write"
    BY <1>6 DEF Write, Carried
  <2>2. /\ Padded(relayBuffer) \in Stream /\ UnitsIn(Padded(relayBuffer)) = UnitsIn(relayBuffer)
        /\ Rising(Padded(relayBuffer))
    BY <2>1, PaddedHolds DEF Line, InLine
  <2>3. /\ UnitsIn(down \o Padded(relayBuffer)) = UnitsIn(down) \cup UnitsIn(relayBuffer)
        /\ Rising(down \o Padded(relayBuffer))
    <3>1. Rising(down) /\ Below(down, Padded(relayBuffer))
      BY <2>1, <2>2 DEF Line, InLine, Below
    <3>. QED  BY <2>2, <3>1, Joined
  <2>4. CASE clientPc = "reading"
    <3>1. down' = down \o Padded(relayBuffer)
      BY <2>1, <2>4 DEF Send
    <3>2. InLine(printed, down \o Padded(relayBuffer), <<>>, up, written)
      BY <2>1, <2>3, EmptyStream DEF Line, InLine, Below
    <3>3. UnitsIn(down \o Padded(relayBuffer)) \cup UnitsIn(<<>>) \cup UnitsIn(up)
            = UnitsIn(down) \cup UnitsIn(Carried) \cup UnitsIn(up)
      BY <2>1, <2>3, EmptyStream
    <3>4. ~broken =>
            Kept(UnitsIn(down \o Padded(relayBuffer)) \cup UnitsIn(<<>>) \cup UnitsIn(up), written)
      BY <3>3 DEF Whole
    <3>. QED  BY <2>1, <3>1, <3>2, <3>4 DEF Line, Whole
  <2>5. CASE clientPc # "reading"
    <3>1. down' = down /\ broken
      BY <2>1, <2>5 DEF Send, Control
    <3>2. InLine(printed, down, <<>>, up, written)
      BY EmptyStream DEF Line, InLine, Below
    <3>. QED  BY <2>1, <3>1, <3>2 DEF Line, Whole
  <2>. QED  BY <2>4, <2>5
<1>7. CASE WriteFile
  <2>1. PICK n \in 1 .. ServerLength : written' = written + n /\ Send(Units(n))
    BY <1>7 DEF WriteFile
  <2>2. UNCHANGED <<printed, up, broken>> /\ up = <<>> /\ Carried = <<>> /\ Carried' = <<>>
        /\ proxyPc = "file"
    BY <1>7 DEF WriteFile, Carried, Control
  <2>3. n \in Nat
    OBVIOUS
  <2>4. CASE clientPc = "reading"
    <3>1. down' = down \o Units(n)
      BY <2>1, <2>4 DEF Send
    <3>2. InLine(printed, down \o Units(n), Carried, up, written + n)
      BY <1>0, <2>2, <2>3, WrittenLast DEF Line
    <3>3. ~broken => Kept(UnitsIn(down) \cup UnitsIn(Carried) \cup UnitsIn(up)
                            \cup UnitsIn(Units(n)), written + n)
      BY <1>0, <2>3, WrittenLast DEF Line, Whole
    <3>4. UnitsIn(down \o Units(n)) = UnitsIn(down) \cup UnitsIn(Units(n))
      BY <1>0, <2>3, UnitsFollow, Joined
    <3>5. UnitsIn(down) \cup UnitsIn(Carried) \cup UnitsIn(up) \cup UnitsIn(Units(n))
            = UnitsIn(down \o Units(n)) \cup UnitsIn(Carried) \cup UnitsIn(up)
      BY <3>4
    <3>6. ~broken => Kept(UnitsIn(down \o Units(n)) \cup UnitsIn(Carried) \cup UnitsIn(up),
                          written + n)
      BY <3>3, <3>5
    <3>. QED  BY <2>1, <2>2, <3>1, <3>2, <3>6 DEF Line, Whole
  <2>5. CASE clientPc # "reading"
    <3>1. down' = down /\ broken
      BY <2>1, <2>2, <2>5 DEF Send, Control
    <3>2. InLine(printed, down, Carried, up, written + n)
      <4>1. \A x \in Nat : x <= written => x <= written + n
        BY <1>0
      <4>2. UnitsIn(printed) \cup UnitsIn(down) \cup UnitsIn(Carried) \cup UnitsIn(up) \subseteq Nat
        BY <1>0, Streams DEF UnitsIn
      <4>. QED  BY <4>1, <4>2 DEF Line, InLine
    <3>. QED  BY <2>1, <2>2, <3>1, <3>2 DEF Line, Whole
  <2>. QED  BY <2>4, <2>5
<1>8. CASE Serve
  <2>1. PICK n \in 1 .. ServerLength :
          /\ written' = written + n
          /\ up' = IF proxyPc \in {"read", "write"} THEN up \o Units(n) ELSE up
    BY <1>8 DEF Serve
  <2>2. UNCHANGED <<printed, down, broken>> /\ Carried' = Carried /\ serverPc = "get"
    BY <1>8 DEF Serve, Carried
  <2>3. n \in Nat
    OBVIOUS
  <2>4. CASE proxyPc \in {"read", "write"}
    <3>1. up' = up \o Units(n)
      BY <2>1, <2>4
    <3>2. InLine(printed, down, Carried, up \o Units(n), written + n)
      BY <1>0, <2>3, WrittenLast DEF Line
    <3>3. ~broken => Kept(UnitsIn(down) \cup UnitsIn(Carried) \cup UnitsIn(up)
                            \cup UnitsIn(Units(n)), written + n)
      BY <1>0, <2>3, WrittenLast DEF Line, Whole
    <3>4. UnitsIn(up \o Units(n)) = UnitsIn(up) \cup UnitsIn(Units(n))
      BY <1>0, <2>3, UnitsFollow, Joined
    <3>5. UnitsIn(down) \cup UnitsIn(Carried) \cup UnitsIn(up) \cup UnitsIn(Units(n))
            = UnitsIn(down) \cup UnitsIn(Carried) \cup UnitsIn(up \o Units(n))
      BY <3>4
    <3>6. ~broken => Kept(UnitsIn(down) \cup UnitsIn(Carried) \cup UnitsIn(up \o Units(n)),
                          written + n)
      BY <3>3, <3>5
    <3>. QED  BY <2>1, <2>2, <3>1, <3>2, <3>6 DEF Line, Whole
  <2>5. CASE proxyPc \notin {"read", "write"}
    <3>1. up' = up /\ broken
      BY <2>1, <2>2, <2>5 DEF Control
    <3>2. InLine(printed, down, Carried, up, written + n)
      <4>1. \A x \in Nat : x <= written => x <= written + n
        BY <1>0
      <4>2. UnitsIn(printed) \cup UnitsIn(down) \cup UnitsIn(Carried) \cup UnitsIn(up) \subseteq Nat
        BY <1>0, Streams DEF UnitsIn
      <4>. QED  BY <4>1, <4>2 DEF Line, InLine
    <3>. QED  BY <2>1, <2>2, <3>1, <3>2 DEF Line, Whole
  <2>. QED  BY <2>4, <2>5
<1>9. CASE ServeEnd \/ ClientReadEnd
  BY <1>9, StandStill DEF ServeEnd, ClientReadEnd, Carried
<1>10. CASE ClientLeaves
  <2>1. /\ UNCHANGED <<printed, up, written>> /\ Carried' = Carried /\ down' = <<>> /\ broken'
    BY <1>10 DEF ClientLeaves, Carried
  <2>2. InLine(printed, <<>>, Carried, up, written)
    BY EmptyStream DEF Line, InLine, Below
  <2>. QED  BY <2>1, <2>2 DEF Line, Whole
<1>11. CASE ClientReads
  <2>1. PICK chunk \in Chunks(down, ClientLength) : /\ down' = After(down, chunk)
                                                    /\ printed' = printed \o TextOf(chunk)
    BY <1>11 DEF ClientReads
  <2>2. chunk \in Stream /\ down' \in Stream /\ down = chunk \o down'
    BY <2>1, ReadsSplit, RelayAssumption DEF RelayAssumption
  <2>3. UNCHANGED <<up, written, broken>> /\ Carried' = Carried
    BY <1>11 DEF ClientReads, Carried
  <2>4. UnitsIn(down) = UnitsIn(chunk) \cup UnitsIn(down')
        /\ Rising(chunk) /\ Rising(down') /\ Below(chunk, down')
    BY <2>2, Joined DEF Line, InLine
  <2>5. PICK left \in Stream : chunk = TextOf(chunk) \o left
    BY <2>2, PrintsText
  <2>6. TextOf(chunk) \in Stream /\ Zero \notin Range(TextOf(chunk))
        /\ UnitsIn(TextOf(chunk)) \subseteq UnitsIn(chunk) /\ Rising(TextOf(chunk))
    <3>1. TextOf(chunk) \in Stream /\ Zero \notin Range(TextOf(chunk))
      BY <2>2, PrintsText
    <3>2. /\ UnitsIn(TextOf(chunk) \o left) = UnitsIn(TextOf(chunk)) \cup UnitsIn(left)
          /\ Rising(TextOf(chunk) \o left) => Rising(TextOf(chunk))
      BY <3>1, Joined
    <3>. QED  BY <2>4, <2>5, <3>1, <3>2
  <2>7. /\ UnitsIn(printed') = UnitsIn(printed) \cup UnitsIn(TextOf(chunk))
        /\ Zero \notin Range(printed') /\ Rising(printed')
    <3>1. Below(printed, TextOf(chunk))
      BY <2>4, <2>6 DEF Line, InLine, Below
    <3>. QED  BY <2>1, <2>6, <3>1, Joined DEF Line, InLine
  <2>8. InLine(printed', down', Carried, up, written)
    BY <2>4, <2>6, <2>7 DEF Line, InLine, Below
  <2>9. ~broken => Kept(UnitsIn(down') \cup UnitsIn(Carried) \cup UnitsIn(up), written)
    <3> SUFFICES ASSUME ~broken, NEW x \in UnitsIn(down') \cup UnitsIn(Carried) \cup UnitsIn(up),
                        NEW y \in x .. written
                 PROVE  y \in UnitsIn(down') \cup UnitsIn(Carried) \cup UnitsIn(up)
      BY DEF Kept
    <3>1. y \in UnitsIn(down) \cup UnitsIn(Carried) \cup UnitsIn(up)
      BY <2>4 DEF Whole, Kept
    <3>2. \A z \in UnitsIn(chunk) : z < x
      BY <2>4 DEF Line, InLine, Below
    <3>3. x \in Nat
      BY <1>0, <2>2, Streams DEF UnitsIn
    <3>4. ~ (y < x)
      BY <3>3
    <3>5. y \notin UnitsIn(chunk)
      BY <3>2, <3>4
    <3>. QED  BY <2>4, <3>1, <3>5
  <2>. QED  BY <2>3, <2>7, <2>8, <2>9 DEF Line, Whole
<1>. QED
  BY <1>1, <1>2, <1>3, <1>4, <1>5, <1>6, <1>7, <1>8, <1>9, <1>10, <1>11
     DEF RelayNext, Proxy, Server, Client

LEMMA AlwaysRelayed == RelaySpec => []RelayInv
<1>1. RelayInv /\ [RelayNext]_relayVars => RelayInv'
  BY NextTypes, NextControl, NextLine DEF RelayInv
<1>. QED  BY <1>1, InitRelay, PTL DEF RelaySpec

\* However the streams are cut and the buffers padded, and whatever breaks, the client prints
\* units of the answer in order and none twice (RequestHandlers.h:248-256,
\* New/Client/Client/c.c:171-180).
THEOREM PrintsInOrder == RelaySpec => []PrintedInOrder
<1>1. RelayInv => PrintedInOrder
  BY DEF RelayInv, Line, InLine, PrintedInOrder
<1>. QED  BY <1>1, AlwaysRelayed, PTL

\* Until something breaks, what is on its way is, but for zeroes, the last units that were
\* written, in order, and none of them was printed; and an answer that was begun is left only
\* when all of it was sent (RequestHandlers.h:205-210, 248-256).  Of what the client has read
\* it says nothing: the text it drops after a zero is not claimed to be printed.
THEOREM LosesNothing == RelaySpec => []NothingLost
<1>1. ASSUME RelayInv PROVE NothingLost
  <2> SUFFICES ASSUME ~broken
               PROVE  /\ Rising(Pending)
                      /\ \A u \in UnitsIn(Pending) :
                           /\ u <= written /\ u .. written \subseteq UnitsIn(Pending)
                           /\ \A p \in Range(printed) : p < u
                      /\ proxyPc \in {"close", "done"} /\ (written > 0 \/ serverPc # "none")
                           => written = Total /\ up = <<>>
    BY DEF NothingLost
  <2>1. Types /\ Control /\ Line
        /\ Kept(UnitsIn(down) \cup UnitsIn(Carried) \cup UnitsIn(up), written)
    BY <1>1 DEF RelayInv, Whole
  <2>2. Carried \in Stream /\ down \in Stream /\ up \in Stream
    BY <2>1, EmptyStream DEF Types, Carried
  <2>3. /\ down \o Carried \in Stream
        /\ UnitsIn(down \o Carried) = UnitsIn(down) \cup UnitsIn(Carried)
        /\ Rising(down \o Carried)
    BY <2>1, <2>2, Joined DEF Line, InLine
  <2>4. Pending = (down \o Carried) \o up
    BY DEF Pending, Carried
  <2>5. UnitsIn(Pending) = UnitsIn(down) \cup UnitsIn(Carried) \cup UnitsIn(up)
    BY <2>2, <2>3, <2>4, Joined
  <2>6. Rising(Pending)
    <3>1. Below(down \o Carried, up) /\ Rising(up)
      BY <2>1, <2>3 DEF Line, InLine, Below
    <3>. QED  BY <2>2, <2>3, <2>4, <3>1, Joined
  <2>7. ASSUME NEW u \in UnitsIn(Pending)
        PROVE  /\ u <= written /\ u .. written \subseteq UnitsIn(Pending)
               /\ \A p \in Range(printed) : p < u
    <3>1. u <= written /\ \A p \in UnitsIn(printed) : p < u
      BY <2>1, <2>5 DEF Line, InLine, Below
    <3>2. UnitsIn(printed) = Range(printed)
      BY <2>1 DEF Line, UnitsIn
    <3>. QED  BY <2>1, <2>5, <3>1, <3>2 DEF Kept
  <2>. QED  BY <2>1, <2>6, <2>7 DEF Control
<1>. QED  BY <1>1, AlwaysRelayed, PTL


-----------------------------------------------------------------------------
(* The reader's loop: a read without data leaves nothing to end it.         *)

NothingComes == closed /\ rest = <<>> /\ ~ Seen

LoopHolds ==
  /\ bytes_read \in {-1, 0, 1}
  /\ pc = "more" => ~ Seen
  /\ InLoop /\ bytes_read <= 0 => NothingComes

LEMMA NextLoopHolds == LoopHolds /\ [Next]_vars => LoopHolds'
<1> SUFFICES ASSUME LoopHolds, [Next]_vars PROVE LoopHolds'
  OBVIOUS
<1> USE DEF LoopHolds, InLoop, NothingComes
<1>0. buffer' = buffer /\ beyond' = beyond => Seen' = Seen
  BY DEF Seen, Text, HasBlankLine
<1>1. CASE UNCHANGED vars
  BY <1>0, <1>1 DEF vars, client
<1>2. CASE Connect \/ ClientCloses \/ NothingRead
  BY <1>0, <1>2 DEF Connect, ClientCloses, NothingRead, client
<1>3. CASE HeaderEnds \/ ReadOn \/ Decide
  BY <1>0, <1>3 DEF HeaderEnds, ReadOn, Decide, client
<1>4. CASE ReadNothing
  BY <1>0, <1>4 DEF ReadNothing, client
<1>5. ASSUME NEW n \in 1 .. Size, FirstRead(n) \/ ReadMore(n) PROVE LoopHolds'
  BY <1>5 DEF FirstRead, ReadMore, Receive
<1>. QED  BY <1>1, <1>2, <1>3, <1>4, <1>5 DEF Next, Worker

\* Whatever is sent and whatever the buffer holds, a worker whose read in the header loop
\* brought no data repeats it for ever, and never gives up (RequestHandlers.h:321-328,
\* s.c:270-276).
THEOREM LoopsForEver == Spec => NeverGivesUp
<1>1. Init => LoopHolds
  BY DEF Init, LoopHolds, InLoop
<1>2. LoopHolds /\ [Next]_vars => (InLoop /\ bytes_read <= 0 => InLoop' /\ bytes_read' <= 0)
  <2> SUFFICES ASSUME LoopHolds, [Next]_vars, InLoop, bytes_read <= 0
               PROVE  InLoop' /\ bytes_read' <= 0
    OBVIOUS
  <2> USE DEF LoopHolds, InLoop, NothingComes
  <2>1. closed /\ rest = <<>> /\ ~ Seen /\ Len(rest) = 0
    BY EmptySeq
  <2>2. CASE UNCHANGED vars
    BY <2>2 DEF vars
  <2>3. CASE Connect \/ ClientCloses \/ NothingRead
    BY <2>3 DEF Connect, ClientCloses, NothingRead
  <2>4. CASE HeaderEnds \/ ReadOn \/ ReadNothing \/ Decide
    BY <2>1, <2>4 DEF HeaderEnds, ReadOn, ReadNothing, Decide
  <2>5. ASSUME NEW n \in 1 .. Size, FirstRead(n) \/ ReadMore(n) PROVE FALSE
    BY <2>1, <2>5 DEF FirstRead, ReadMore
  <2>. QED  BY <2>2, <2>3, <2>4, <2>5 DEF Next, Worker
<1>3. LoopHolds /\ [Next]_vars =>
        [InLoop /\ bytes_read <= 0 => InLoop' /\ bytes_read' <= 0]_vars
  BY <1>2
<1>. QED  BY <1>1, <1>3, NextLoopHolds, PTL DEF Spec, NeverGivesUp

-----------------------------------------------------------------------------
(* Words, by counting.                                                     *)

LEMMA LeastOf ==
  ASSUME NEW S \in SUBSET Nat, S # {}
  PROVE  LET least == CHOOSE i \in S : \A j \in S : i <= j
         IN  least \in S /\ \A j \in S : least <= j
<1> DEFINE R == OpToRel(<, Nat)
<1>1. PICK i \in S : \A j \in S : <<j, i>> \notin R
  <2>1. IsWellFoundedOn(R, Nat)
    BY NatLessThanWellFounded
  <2>. HIDE DEF R
  <2>. QED  BY <2>1, WFMin
<1>2. \A j \in S : i <= j
  <2> SUFFICES ASSUME NEW j \in S PROVE i <= j
    OBVIOUS
  <2>1. ~ (j < i)
    BY <1>1 DEF OpToRel
  <2>. QED  BY <2>1
<1>. QED  BY <1>1, <1>2

\* Of a text s, what a read of its first n units has.
LEMMA Start ==
  ASSUME NEW s \in Seq(STRING), NEW n \in 0 .. Len(s)
  PROVE  /\ SubSeq(s, 1, n) \in Seq(STRING) /\ Len(SubSeq(s, 1, n)) = n
         /\ \A m \in 1 .. n : SubSeq(s, 1, n)[m] = s[m] /\ m \in 1 .. Len(s)
<1>1. Len(s) \in Nat /\ n \in Int /\ \A m \in 1 .. n : m \in 1 .. Len(s)
  BY LenProperties
<1>2. \A m \in 1 .. n : s[m] \in STRING
  BY <1>1, ElementOfSeq
<1>3. /\ SubSeq(s, 1, n) \in Seq(STRING)
      /\ Len(SubSeq(s, 1, n)) = IF 1 <= n THEN n - 1 + 1 ELSE 0
      /\ \A m \in 1 .. n - 1 + 1 : SubSeq(s, 1, n)[m] = s[1 + m - 1]
  BY <1>1, <1>2, SubSeqProperties
<1>. QED  BY <1>1, <1>3

LEMMA WordsOnce ==
  ASSUME NEW s, NEW i, NEW m \in Nat, NEW n \in Nat, Stands(s, i, m), Stands(s, i, n)
  PROVE  m = n
<1>1. ASSUME NEW a \in Nat, NEW b \in Nat, a < b, Stands(s, i, a), Stands(s, i, b) PROVE FALSE
  <2> DEFINE A == {x \in 1 .. a : s[x] # CRLF}
             B == {x \in 1 .. b : s[x] # CRLF}
  <2>1. IsFiniteSet(1 .. b)
    BY FS_Interval
  <2>2. IsFiniteSet(B)
    BY <2>1, FS_Subset
  <2>3. A \in SUBSET B /\ b \in B /\ b \notin A
    BY <1>1 DEF Stands
  <2>4. Cardinality(A) = i /\ Cardinality(B) = i
    BY <1>1 DEF Stands
  <2>. HIDE DEF A, B
  <2>. QED  BY <2>2, <2>3, <2>4, FS_Subset
<1>. QED  BY <1>1

LEMMA SameWords ==
  ASSUME NEW s \in Seq(STRING), NEW n \in 0 .. Len(s), NEW i, HasWord(SubSeq(s, 1, n), i)
  PROVE  HasWord(s, i) /\ Word(SubSeq(s, 1, n), i) = Word(s, i)
<1> DEFINE c == SubSeq(s, 1, n)
<1>1. Len(c) = n /\ n \in Nat /\ Len(s) \in Nat
      /\ \A m \in 1 .. n : c[m] = s[m] /\ m \in 1 .. Len(s)
  BY Start, LenProperties
<1>2. HasWord(c, i)
  OBVIOUS
<1>. HIDE DEF c
<1>3. \A m \in 1 .. n : Stands(c, i, m) <=> Stands(s, i, m)
  <2> SUFFICES ASSUME NEW m \in 1 .. n PROVE Stands(c, i, m) <=> Stands(s, i, m)
    OBVIOUS
  <2>1. {x \in 1 .. m : c[x] # CRLF} = {x \in 1 .. m : s[x] # CRLF} /\ c[m] = s[m]
    BY <1>1
  <2>. QED  BY <2>1 DEF Stands
<1>4. PICK m \in 1 .. n : Stands(c, i, m)
  BY <1>1, <1>2 DEF HasWord
<1>5. Word(c, i) = c[m]
  <2>1. \A x \in 1 .. Len(c) : Stands(c, i, x) => x = m
    BY <1>1, <1>4, WordsOnce
  <2>. QED  BY <1>1, <1>4, <2>1 DEF Word
<1>6. Word(s, i) = s[m] /\ HasWord(s, i)
  <2>1. m \in 1 .. Len(s) /\ Stands(s, i, m)
    BY <1>1, <1>3, <1>4
  <2>2. \A x \in 1 .. Len(s) : Stands(s, i, x) => x = m
    BY <1>1, <2>1, WordsOnce
  <2>. QED  BY <2>1, <2>2 DEF Word, HasWord
<1>. QED  BY <1>1, <1>4, <1>5, <1>6 DEF c

\* The words of the first line stand at its start.
LEMMA FirstLineWords ==
  ASSUME NEW s \in Seq(STRING)
  PROVE  LET line == FirstLine(s) IN
         /\ Len(line) \in 0 .. Len(s)
         /\ \A i \in 1 .. Len(line) : line[i] = s[i] /\ Stands(s, i, i)
         /\ \A j \in 1 .. Len(s) : s[j] = CRLF => Len(line) < j
<1> DEFINE ends == {i \in 1 .. Len(s) : s[i] = CRLF}
           least == CHOOSE i \in ends : \A j \in ends : i <= j
           line == FirstLine(s)
<1>1. Len(s) \in Nat
  BY LenProperties
<1>2. /\ Len(line) \in 0 .. Len(s) /\ \A i \in 1 .. Len(line) : line[i] = s[i] /\ s[i] # CRLF
      /\ \A j \in 1 .. Len(s) : s[j] = CRLF => Len(line) < j
  <2>1. CASE ends = {}
    <3>1. line = s /\ \A j \in 1 .. Len(s) : s[j] # CRLF
      BY <2>1 DEF FirstLine
    <3>. QED  BY <1>1, <3>1
  <2>2. CASE ends # {}
    <3>1. ends \in SUBSET Nat
      BY <1>1
    <3>2. least \in ends /\ \A j \in ends : least <= j
      BY <2>2, <3>1, LeastOf
    <3>3. line = SubSeq(s, 1, least - 1)
      BY <2>2 DEF FirstLine
    <3>4. least \in 1 .. Len(s) /\ \A j \in 1 .. Len(s) : s[j] = CRLF => least <= j
      BY <3>2
    <3>. HIDE DEF least, ends, line
    <3>5. least - 1 \in 0 .. Len(s)
      BY <1>1, <3>4
    <3>6. Len(line) = least - 1 /\ \A m \in 1 .. least - 1 : line[m] = s[m] /\ m \in 1 .. Len(s)
      BY <3>3, <3>5, Start
    <3>. QED  BY <1>1, <3>4, <3>6
  <2>. QED  BY <2>1, <2>2
<1>. HIDE DEF line
<1>3. ASSUME NEW i \in 1 .. Len(line) PROVE Stands(s, i, i)
  <2>1. i \in Nat /\ i > 0 /\ s[i] # CRLF /\ {m \in 1 .. i : s[m] # CRLF} = 1 .. i
    BY <1>1, <1>2
  <2>2. Cardinality(1 .. i) = i
    BY <2>1, FS_Interval
  <2>. QED  BY <2>1, <2>2 DEF Stands
<1>. QED  BY <1>2, <1>3 DEF line

-----------------------------------------------------------------------------
(* What the first read brought decides.                                    *)

Reading == {"scan", "more", "decide"}

ReaderTypes ==
  /\ program \in DOMAIN Inputs /\ pc \in {"wait", "first", "ended"} \cup Reading
  /\ pc # "wait" => input \in Inputs[program] /\ (pc = "first" => rest = input)
  /\ rest \in Seq(STRING)

\* The first read brought a part of the request that leaves room for a NUL.
FirstPart == \E n \in 1 .. Size - 1 : n <= Len(input) /\ first = SubSeq(input, 1, n)

\* The words that came with it are those the locals hold.
WordsOfFirst == \A i \in 1 .. Words : HasWord(first, i) => words[i] = Word(first, i)

\* From the first read to the answer the words are the first read's; a blank line it brought
\* is still in the buffer, which the loop then never reads into.
HeldWords ==
  /\ pc \in {"first"} \cup Reading => answer = <<"none">>
  /\ pc \in Reading => FirstPart /\ WordsOfFirst
  /\ pc \in Reading /\ HasBlankLine(first) => pc # "more" /\ Text = first
  /\ AnsweredAsAsked

LEMMA TypesHold ==
  /\ Init => ReaderTypes
  /\ ReaderTypes /\ [Next]_vars => ReaderTypes'
<1> USE ReaderAssumption DEF ReaderAssumption, ReaderTypes, Reading
<1>1. ASSUME Init PROVE ReaderTypes
  <2>1. program \in {"proxy", "server"} /\ pc = "wait" /\ rest = <<>>
    BY <1>1 DEF Init
  <2>. QED  BY <2>1, EmptySeq
<1>2. ASSUME ReaderTypes, [Next]_vars PROVE ReaderTypes'
  <2>1. CASE UNCHANGED vars
    BY <1>2, <2>1 DEF vars, client
  <2>2. CASE Connect
    <3>1. PICK t \in Inputs[program] : input' = t /\ rest' = t
      BY <2>2 DEF Connect
    <3>2. t \in Seq(STRING)
      BY <1>2
    <3>. QED  BY <1>2, <2>2, <3>1, <3>2 DEF Connect
  <2>3. CASE ClientCloses \/ NothingRead \/ HeaderEnds \/ ReadOn \/ Decide
    BY <1>2, <2>3 DEF ClientCloses, NothingRead, HeaderEnds, ReadOn, Decide, client
  <2>4. CASE ReadNothing
    BY <1>2, <2>4, EmptySeq DEF ReadNothing, client
  <2>5. ASSUME NEW n \in 1 .. Size, FirstRead(n) \/ ReadMore(n) PROVE ReaderTypes'
    <3>1. n <= Len(rest) /\ pc' = "scan" /\ UNCHANGED client /\ pc # "wait"
          /\ \E end : Receive(n, end)
      BY <2>5 DEF FirstRead, ReadMore
    <3>2. n \in 0 .. Len(rest) /\ Len(rest) \in Nat /\ rest \in Seq(STRING)
      BY <1>2, <3>1, LenProperties
    <3>3. rest' \in Seq(STRING)
      <4>1. rest' = SubSeq(rest, n + 1, Len(rest))
        BY <3>1 DEF Receive
      <4>2. \A m \in n + 1 .. Len(rest) : rest[m] \in STRING
        BY <3>2, ElementOfSeq
      <4>. QED  BY <3>2, <4>1, <4>2, SubSeqProperties
    <3>. QED  BY <1>2, <3>1, <3>3 DEF client
  <2>. QED  BY <1>2, <2>1, <2>2, <2>3, <2>4, <2>5 DEF Next, Worker
<1>. QED  BY <1>1, <1>2

\* The words that decide are those of the first line.
LEMMA FirstLineDecides ==
  ASSUME ReaderTypes, input \in Inputs[program], FirstPart, WordsOfFirst
  PROVE  LET line == FirstLine(input) IN
         \A i \in 1 .. Words : HasWord(first, i) =>
           IF i <= Len(line) THEN words[i] = line[i] ELSE words[i] \notin Versions
<1> DEFINE line == FirstLine(input)
<1>1. PICK n \in 1 .. Size - 1 : n <= Len(input) /\ first = SubSeq(input, 1, n)
  BY DEF FirstPart
<1>2. input \in Seq(STRING) /\ n \in 0 .. Len(input) /\ program \in DOMAIN Inputs
      /\ Len(input) \in Nat
  <2>1. input \in Seq(STRING) /\ program \in DOMAIN Inputs /\ Size \in Nat
    BY ReaderAssumption DEF ReaderAssumption, ReaderTypes
  <2>. QED  BY <1>1, <2>1, LenProperties
<1>3. Len(line) \in 0 .. Len(input)
      /\ \A i \in 1 .. Len(line) : line[i] = input[i] /\ Stands(input, i, i)
  BY <1>2, FirstLineWords
<1> SUFFICES ASSUME NEW i \in 1 .. Words, HasWord(first, i)
             PROVE  IF i <= Len(line) THEN words[i] = line[i] ELSE words[i] \notin Versions
  OBVIOUS
<1>4. words[i] = Word(input, i) /\ HasWord(input, i)
  BY <1>1, <1>2, SameWords DEF WordsOfFirst
<1>. HIDE DEF line
<1>5. CASE i <= Len(line)
  <2>1. i \in 1 .. Len(input) /\ Stands(input, i, i) /\ line[i] = input[i]
    BY <1>2, <1>3, <1>5
  <2>2. \A x \in 1 .. Len(input) : Stands(input, i, x) => x = i
    BY <1>2, <2>1, WordsOnce
  <2>3. Word(input, i) = input[i]
    BY <2>1, <2>2 DEF Word
  <2>. QED  BY <1>4, <1>5, <2>1, <2>3
<1>6. CASE ~ (i <= Len(line))
  <2>1. i \in Len(line) + 1 .. Locals(program)
    BY <1>3, <1>6 DEF Words, Locals
  <2>. QED  BY <1>2, <1>4, <1>6, <2>1, RequestsAssumption DEF line
<1>. QED  BY <1>5, <1>6

\* A request that came with its blank line came with its first line and its first key.
LEMMA WholeHeader ==
  ASSUME ReaderTypes, input \in Inputs[program], FirstPart, HasBlankLine(first),
         program = "server", input[1] = "LOCAL-GET"
  PROVE  /\ Len(FirstLine(input)) >= Words /\ \A i \in 1 .. Words : HasWord(first, i)
         /\ KeyIn(first) = FirstKey(input)
<1> DEFINE line == FirstLine(input)
<1>1. PICK n \in 1 .. Size - 1 : n <= Len(input) /\ first = SubSeq(input, 1, n)
  BY DEF FirstPart
<1>2. input \in Seq(STRING) /\ n \in 0 .. Len(input) /\ program \in DOMAIN Inputs
      /\ Len(input) \in Nat /\ n \in Nat
      /\ Len(input) > 0
  <2>1. input \in Seq(STRING) /\ program \in DOMAIN Inputs /\ Size \in Nat
    BY ReaderAssumption DEF ReaderAssumption, ReaderTypes
  <2>. QED  BY <1>1, <2>1, LenProperties
<1>3. Len(first) = n /\ \A m \in 1 .. n : first[m] = input[m] /\ m \in 1 .. Len(input)
  BY <1>1, <1>2, Start
<1>4. PICK b \in 1 .. n - 1 : input[b] = CRLF /\ input[b + 1] = CRLF
  <2>1. PICK b \in 1 .. n - 1 : first[b] = CRLF /\ first[b + 1] = CRLF
    BY <1>3 DEF HasBlankLine
  <2>. QED  BY <1>2, <1>3, <2>1
<1>5. /\ Len(line) \in 0 .. Len(input) /\ Len(line) < b
      /\ \A i \in 1 .. Len(line) : line[i] = input[i] /\ Stands(input, i, i)
  <2>1. b \in 1 .. Len(input)
    BY <1>2, <1>4
  <2>. QED  BY <1>2, <1>4, <2>1, FirstLineWords
<1>6. Len(line) >= Words /\ Words = 3
  BY <1>2, RequestsAssumption DEF Words, Locals
<1>7. PICK e \in 1 .. Len(input) : input[e] \in KeyWords /\ ~ HasBlankLine(SubSeq(input, 1, e))
  BY <1>2, RequestsAssumption
<1>. HIDE DEF line
<1>8. ASSUME NEW i \in 1 .. Words PROVE HasWord(first, i)
  <2>1. i \in 1 .. n /\ Stands(input, i, i)
    BY <1>2, <1>4, <1>5, <1>6
  <2>2. {x \in 1 .. i : first[x] # CRLF} = {x \in 1 .. i : input[x] # CRLF} /\ first[i] = input[i]
    BY <1>2, <1>3, <2>1
  <2>3. Stands(first, i, i)
    BY <2>1, <2>2 DEF Stands
  <2>. QED  BY <1>3, <2>1, <2>3 DEF HasWord
<1>9. e <= n
  <2> SUFFICES ASSUME e > n PROVE FALSE
    BY <1>2, <1>7
  <2>1. e \in 0 .. Len(input) /\ b \in 1 .. e - 1 /\ b + 1 \in 1 .. e
    BY <1>2, <1>4, <1>7
  <2>2. Len(SubSeq(input, 1, e)) = e /\ \A m \in 1 .. e : SubSeq(input, 1, e)[m] = input[m]
    BY <1>2, <2>1, Start
  <2>3. b \in 1 .. e
    BY <1>7, <2>1
  <2>. QED  BY <1>4, <1>7, <2>1, <2>2, <2>3 DEF HasBlankLine
<1>10. KeyIn(first) = FirstKey(input)
  <2> DEFINE few  == {i \in 1 .. Len(first) : first[i] \in KeyWords}
             all  == {i \in 1 .. Len(input) : input[i] \in KeyWords}
             one  == CHOOSE i \in few : \A j \in few : i <= j
             same == CHOOSE i \in all : \A j \in all : i <= j
  <2>1. e \in few /\ e \in all
    BY <1>2, <1>3, <1>7, <1>9
  <2>2. few \in SUBSET Nat /\ all \in SUBSET Nat /\ few # {} /\ all # {}
    BY <1>2, <1>3, <2>1
  <2>3. one \in few /\ \A j \in few : one <= j
    BY <2>2, LeastOf
  <2>4. same \in all /\ \A j \in all : same <= j
    BY <2>2, LeastOf
  <2>5. KeyIn(first) = first[one] /\ FirstKey(input) = input[same]
    BY <2>2 DEF KeyIn, FirstKey
  <2>6. few \subseteq all /\ \A j \in all : j <= n => j \in few
    BY <1>2, <1>3
  <2>7. one \in 1 .. n
    BY <1>3, <2>3
  <2>. HIDE DEF few, all, one, same
  <2>8. same <= one /\ one \in Nat /\ same \in Nat
    BY <2>2, <2>3, <2>4, <2>6
  <2>9. same \in few
    BY <1>2, <2>4, <2>6, <2>7, <2>8
  <2>10. one = same
    BY <2>3, <2>8, <2>9
  <2>. QED  BY <1>3, <2>5, <2>7, <2>10
<1>. QED  BY <1>6, <1>8, <1>10 DEF line

\* Words that agree as far as they decide have one answer.
LEMMA OneAnswerOnly ==
  ASSUME ReaderTypes, NEW line, Len(line) \in Nat, NEW c,
         \A i \in 1 .. Words :
           IF i <= Len(line) THEN words[i] = line[i] ELSE words[i] \notin Versions,
         NEW e, c = e \/ ~ (program = "server" /\ words[1] = "LOCAL-GET" /\ words[3] \in Versions)
  PROVE  Answer(words, c) = Answer([i \in 1 .. Words |-> IF i <= Len(line) THEN line[i] ELSE ""], e)
<1> DEFINE a == [i \in 1 .. Words |-> IF i <= Len(line) THEN line[i] ELSE ""]
<1>1. /\ \A i \in 1 .. Words : i <= Len(line) => words[i] = a[i]
      /\ \A i \in 1 .. Words : ~ (i <= Len(line)) =>
           words[i] \notin Versions /\ a[i] \notin Versions
  BY DEF Versions
<1>. HIDE DEF a
<1>2. \A i \in 1 .. Words : words[i] \in Versions <=> a[i] \in Versions
  BY <1>1
<1>3. \A i \in 1 .. Words : words[i] \in Versions => \A j \in 1 .. i : words[j] = a[j]
  <2> SUFFICES ASSUME NEW i \in 1 .. Words, words[i] \in Versions, NEW j \in 1 .. i
               PROVE words[j] = a[j]
    OBVIOUS
  <2>1. i <= Len(line) /\ Words \in Nat
    BY <1>1 DEF Words, Locals
  <2>2. j \in 1 .. Words /\ j <= Len(line)
    BY <2>1
  <2>. QED  BY <1>1, <2>2
<1>4. CASE program = "proxy"
  <2>1. Words = 4 /\ 3 \in 1 .. 4 /\ 4 \in 1 .. 4 /\ 1 \in 1 .. 3 /\ 2 \in 1 .. 3 /\ 3 \in 1 .. 3
    BY <1>4 DEF Words, Locals
  <2>2. (words[3] \in Versions <=> a[3] \in Versions)
        /\ (words[4] \in Versions <=> a[4] \in Versions)
    BY <1>2, <2>1
  <2>3. words[3] \in Versions \/ words[4] \in Versions =>
          words[1] = a[1] /\ words[2] = a[2] /\ words[3] = a[3]
    BY <1>3, <2>1
  <2>4. ProxyAnswer(words) = ProxyAnswer(a)
    BY <2>2, <2>3 DEF ProxyAnswer
  <2>. QED  BY <1>4, <2>4 DEF Answer, a
<1>5. CASE program # "proxy"
  <2>1. Words = 3 /\ 3 \in 1 .. 3 /\ 1 \in 1 .. 3 /\ 2 \in 1 .. 3 /\ program = "server"
    BY <1>5, ReaderAssumption DEF Words, Locals, ReaderTypes, ReaderAssumption
  <2>2. words[3] \in Versions <=> a[3] \in Versions
    BY <1>2, <2>1
  <2>3. words[3] \in Versions => words[1] = a[1] /\ words[2] = a[2]
    BY <1>3, <2>1
  <2>4. ServerAnswer(words, c) = ServerAnswer(a, e)
    BY <2>1, <2>2, <2>3 DEF ServerAnswer
  <2>. QED  BY <1>5, <2>4 DEF Answer, a
<1>. QED  BY <1>4, <1>5

-----------------------------------------------------------------------------
(* The string in the buffer, as it stands after the first read.            *)

LEMMA TextOfFirst ==
  ASSUME ReaderTypes, NEW n \in 1 .. Size, FirstRead(n)
  PROVE  /\ Text' = first' /\ n \in 1 .. Size - 1 /\ n <= Len(input)
         /\ first' = SubSeq(input, 1, n) /\ words' = Parse(first')
<1> DEFINE nuls == {i \in 1 .. Size : buffer'[i] = NUL}
           least == CHOOSE i \in nuls : \A j \in nuls : i <= j
<1>1. /\ n < Size /\ n <= Len(input) /\ first' = SubSeq(input, 1, n) /\ words' = Parse(first')
      /\ buffer' = [i \in 1 .. Size |-> IF i <= n THEN first'[i]
                                        ELSE IF i \in {n + 1} THEN NUL ELSE buffer[i]]
      /\ input \in Inputs[program] /\ program \in DOMAIN Inputs
  BY DEF FirstRead, Receive, ReaderTypes
<1>2. Size \in Nat /\ input \in Seq(STRING) /\ Len(input) \in Nat
  <2>1. Size \in Nat /\ input \in Seq(STRING)
    BY <1>1, ReaderAssumption DEF ReaderAssumption
  <2>. QED  BY <2>1, LenProperties
<1>3. Len(first') = n /\ first' \in Seq(STRING)
      /\ \A i \in 1 .. n : first'[i] = input[i] /\ i \in 1 .. Len(input)
  <2>1. n \in 0 .. Len(input)
    BY <1>1, <1>2
  <2>. QED  BY <1>1, <1>2, <2>1, Start
<1>4. \A i \in 1 .. n : buffer'[i] = input[i] /\ buffer'[i] # NUL
  <2>1. \A i \in 1 .. Len(input) : input[i] # NUL
    BY <1>1, RequestsAssumption
  <2>. QED  BY <1>1, <1>2, <1>3, <2>1
<1>5. n + 1 \in nuls /\ \A i \in nuls : n + 1 <= i
  <2>1. buffer'[n + 1] = NUL /\ n + 1 \in 1 .. Size
    BY <1>1, <1>2
  <2>2. \A i \in 1 .. Size : i <= n => i \in 1 .. n
    OBVIOUS
  <2>. QED  BY <1>2, <1>4, <2>1, <2>2
<1>6. least = n + 1
  <2>1. nuls \in SUBSET Nat /\ nuls # {}
    BY <1>2, <1>5
  <2>2. least \in nuls /\ \A j \in nuls : least <= j
    BY <2>1, LeastOf
  <2>3. least \in Nat
    BY <2>1, <2>2
  <2>. HIDE DEF least, nuls
  <2>. QED  BY <1>5, <2>2, <2>3
<1>7. Text' = SubSeq(buffer', 1, least - 1)
  BY <1>5 DEF Text
<1>. HIDE DEF least, nuls
<1>8. Text' = SubSeq(buffer', 1, n)
  BY <1>6, <1>7
<1>9. /\ Len(SubSeq(buffer', 1, n)) = n /\ SubSeq(buffer', 1, n) \in Seq(STRING)
      /\ \A i \in 1 .. n : SubSeq(buffer', 1, n)[i] = buffer'[i]
  <2>1. \A i \in 1 .. n : buffer'[i] \in STRING
    BY <1>2, <1>3, <1>4, ElementOfSeq
  <2>2. 1 \in Int /\ n \in Int
    OBVIOUS
  <2>. QED  BY <2>1, <2>2, SubSeqProperties
<1>10. SubSeq(buffer', 1, n) = first'
  <2> DEFINE c == SubSeq(buffer', 1, n)
  <2>1. c \in Seq(STRING) /\ Len(c) = n
    BY <1>9
  <2>2. \A i \in 1 .. n : c[i] = first'[i]
    BY <1>3, <1>4, <1>9
  <2>. HIDE DEF c
  <2>3. first' \in Seq(STRING) /\ Len(first') = Len(c) /\ \A i \in 1 .. Len(c) : c[i] = first'[i]
    BY <1>3, <2>1, <2>2
  <2>4. c = first'
    BY <2>1, <2>3, SeqEqual
  <2>. QED  BY <2>4 DEF c
<1>. QED  BY <1>1, <1>2, <1>8, <1>10

-----------------------------------------------------------------------------
(* The words held are the first read's, until the answer.                  *)

LEMMA HeldWordsKept ==
  ASSUME HeldWords, UNCHANGED <<first, input, answer, words, buffer, program>>,
         pc' = pc \/ ({pc, pc'} \subseteq Reading /\ (pc' = "more" => ~ HasBlankLine(first)))
                  \/ (pc = "first" /\ pc' = "wait")
  PROVE  HeldWords'
<1>1. Text' = Text
  BY DEF Text
<1>2. AnsweredAsAsked' = AnsweredAsAsked /\ FirstPart' = FirstPart /\ WordsOfFirst' = WordsOfFirst
  BY DEF AnsweredAsAsked, Enough, Asked, Answer, FirstPart, WordsOfFirst, Words
<1>. QED  BY <1>1, <1>2 DEF HeldWords, Reading

LEMMA NextHeldWords == ReaderTypes /\ HeldWords /\ [Next]_vars => HeldWords'
<1> SUFFICES ASSUME ReaderTypes, HeldWords, [Next]_vars PROVE HeldWords'
  OBVIOUS
<1>1. CASE UNCHANGED vars
  BY <1>1, HeldWordsKept DEF vars, client
<1>2. CASE Connect
  BY <1>2 DEF Connect, HeldWords, AnsweredAsAsked, Reading
<1>3. CASE ClientCloses
  BY <1>3, HeldWordsKept DEF ClientCloses
<1>4. CASE NothingRead
  BY <1>4, HeldWordsKept DEF NothingRead, client
<1>5. CASE HeaderEnds
  BY <1>5, HeldWordsKept DEF HeaderEnds, client, Reading
<1>6. CASE ReadOn
  <2>1. ~ HasBlankLine(Text) /\ pc = "scan"
    BY <1>6 DEF ReadOn, Seen
  <2>2. ~ HasBlankLine(first)
    BY <2>1 DEF HeldWords, Reading
  <2>. QED  BY <1>6, <2>2, HeldWordsKept DEF ReadOn, client, Reading
<1>7. CASE ReadNothing
  BY <1>7, HeldWordsKept DEF ReadNothing, client, Reading
<1>8. ASSUME NEW n \in 1 .. Size, ReadMore(n) PROVE HeldWords'
  <2>1. ~ HasBlankLine(first) /\ pc = "more" /\ pc' = "scan"
        /\ UNCHANGED <<first, input, answer, words, program>>
    BY <1>8 DEF ReadMore, HeldWords, Reading, client
  <2>2. AnsweredAsAsked' = AnsweredAsAsked /\ FirstPart' = FirstPart /\ WordsOfFirst' = WordsOfFirst
    BY <2>1 DEF AnsweredAsAsked, Enough, Asked, Answer, FirstPart, WordsOfFirst, Words
  <2>. QED  BY <2>1, <2>2 DEF HeldWords, Reading
<1>9. ASSUME NEW n \in 1 .. Size, FirstRead(n) PROVE HeldWords'
  <2>1. /\ Text' = first' /\ n \in 1 .. Size - 1 /\ n <= Len(input)
        /\ first' = SubSeq(input, 1, n) /\ words' = Parse(first')
    BY <1>9, TextOfFirst
  <2>2. pc' = "scan" /\ input' = input /\ answer' = <<"none">> /\ program' = program
    BY <1>9 DEF FirstRead, client, HeldWords
  <2>3. FirstPart'
    BY <2>1, <2>2 DEF FirstPart
  <2>4. WordsOfFirst'
    BY <2>1, <2>2 DEF WordsOfFirst, Parse, Words
  <2>. QED  BY <2>1, <2>2, <2>3, <2>4 DEF HeldWords, AnsweredAsAsked
<1>10. CASE Decide
  <2>1. /\ pc = "decide" /\ pc' \notin {"first"} \cup Reading
        /\ UNCHANGED <<program, input, first>>
    BY <1>10 DEF Decide, client, Reading
  <2>2. CASE bytes_read = -1
    BY <1>10, <2>1, <2>2 DEF Decide, HeldWords, AnsweredAsAsked, Reading
  <2>3. CASE bytes_read # -1
    <3>1. answer' = Answer(words, key')
      BY <1>10, <2>3 DEF Decide
    <3>2. key' = IF program = "server" /\ words[1] = "LOCAL-GET" /\ words[3] \in Versions
                 THEN KeyIn(Text) ELSE key
      BY <1>10, <2>3 DEF Decide
    <3>3. Enough => Answer(words, key') = Asked(input)
      <4> SUFFICES ASSUME Enough PROVE Answer(words, key') = Asked(input)
        OBVIOUS
      <4> DEFINE line == FirstLine(input)
      <4>1. FirstPart /\ WordsOfFirst /\ input \in Inputs[program] /\ program \in DOMAIN Inputs
        BY <2>1 DEF HeldWords, Reading, ReaderTypes
      <4>2. \A i \in 1 .. Words : HasWord(first, i)
        <5>1. CASE program = "server" /\ input[1] = "LOCAL-GET"
          BY <4>1, <5>1, WholeHeader DEF Enough
        <5>. QED  BY <5>1 DEF Enough
      <4>3. \A i \in 1 .. Words :
              IF i <= Len(line) THEN words[i] = line[i] ELSE words[i] \notin Versions
        BY <4>1, <4>2, FirstLineDecides
      <4>4. Len(line) \in Nat /\ \A i \in 1 .. Len(line) : line[i] = input[i]
        <5>1. input \in Seq(STRING)
          BY <4>1, ReaderAssumption DEF ReaderAssumption
        <5>. QED  BY <5>1, FirstLineWords, LenProperties
      <4>. HIDE DEF line
      <4>5. key' = FirstKey(input)
            \/ ~ (program = "server" /\ words[1] = "LOCAL-GET" /\ words[3] \in Versions)
        <5> SUFFICES ASSUME program = "server", words[1] = "LOCAL-GET", words[3] \in Versions
                     PROVE  key' = FirstKey(input)
          OBVIOUS
        <5>1. Words = 3
          BY DEF Words, Locals
        <5>2. 3 <= Len(line)
          BY <4>3, <5>1
        <5>3. 1 <= Len(line) /\ 1 \in 1 .. Words /\ 1 \in 1 .. Len(line)
          BY <4>4, <5>1, <5>2
        <5>4. input[1] = "LOCAL-GET"
          BY <4>3, <4>4, <5>3
        <5>5. HasBlankLine(first)
          BY <5>4 DEF Enough
        <5>6. Text = first
          BY <2>1, <5>5 DEF HeldWords, Reading
        <5>7. KeyIn(first) = FirstKey(input)
          BY <4>1, <5>4, <5>5, WholeHeader
        <5>. QED  BY <3>2, <5>6, <5>7
      <4>6. Answer(words, key') =
              Answer([i \in 1 .. Words |-> IF i <= Len(line) THEN line[i] ELSE ""], FirstKey(input))
        BY <4>3, <4>4, <4>5, OneAnswerOnly
      <4>. QED  BY <4>6 DEF Asked, line
    <3>4. Enough' = Enough /\ Asked(input)' = Asked(input)
      BY <2>1 DEF Enough, Asked, Answer, Words
    <3>5. AnsweredAsAsked'
      BY <2>1, <3>1, <3>3, <3>4 DEF AnsweredAsAsked
    <3>. QED  BY <2>1, <3>5 DEF HeldWords, Reading
  <2>. QED  BY <2>2, <2>3
<1>. QED  BY <1>1, <1>2, <1>3, <1>4, <1>5, <1>6, <1>7, <1>8, <1>9, <1>10 DEF Next, Worker

\* Of what the repository's clients send, cut into reads of any length and on any number of
\* connections, a request whose deciding words came with the first read is answered as its own
\* first line asks (RequestHandlers.h:302-373, s.c:260-302).  Requests with fewer words, and
\* first reads that end before the last of them, are outside Enough: those are the ones that
\* the words an earlier request left in the locals decide.
THEOREM AnswersAsAsked == Spec => []AnsweredAsAsked
<1>1. Init => HeldWords
  BY DEF Init, HeldWords, AnsweredAsAsked, Reading
<1>2. HeldWords => AnsweredAsAsked
  BY DEF HeldWords
<1>. QED  BY <1>1, <1>2, TypesHold, NextHeldWords, PTL DEF Spec

-----------------------------------------------------------------------------
(* A blank line that one read brings ends the loop.                        *)

BlankHolds ==
  /\ \A i \in 1 .. Len(rest) : rest[i] # NUL
  /\ pc = "first" \/ pc = "more" => ~ blank
  /\ pc = "scan" /\ blank => Seen

\* What a read brings is in the string of the buffer, whatever was there before.
LEMMA ReadIsSeen ==
  ASSUME ReaderTypes, NEW n \in 1 .. Size, ReadMore(n), HasBlankLine(SubSeq(rest, 1, n)),
         \A i \in 1 .. Len(rest) : rest[i] # NUL
  PROVE  HasBlankLine(Text')
<1> DEFINE nuls == {i \in 1 .. Size : buffer'[i] = NUL}
           least == CHOOSE i \in nuls : \A j \in nuls : i <= j
           chunk == SubSeq(rest, 1, n)
           S == {buffer'[i] : i \in 1 .. Size}
<1>1. /\ n <= Len(rest) /\ buffer' = [i \in 1 .. Size |-> IF i <= n THEN chunk[i]
                                                       ELSE IF i \in {} THEN NUL ELSE buffer[i]]
      /\ rest \in Seq(STRING)
  BY DEF ReadMore, Receive, ReaderTypes
<1>2. Size \in Nat /\ Len(rest) \in Nat
  BY <1>1, ReaderAssumption, LenProperties DEF ReaderAssumption
<1>3. Len(chunk) = n /\ \A i \in 1 .. n : chunk[i] = rest[i] /\ i \in 1 .. Len(rest)
  <2>1. n \in 0 .. Len(rest)
    BY <1>1, <1>2
  <2>. QED  BY <1>1, <2>1, Start
<1>4. PICK b \in 1 .. n - 1 : chunk[b] = CRLF /\ chunk[b + 1] = CRLF
  BY <1>3 DEF HasBlankLine
<1>. HIDE DEF chunk
<1>5. /\ b \in 1 .. n /\ b + 1 \in 1 .. n /\ \A i \in 1 .. n : i \in 1 .. Size
      /\ \A i \in 1 .. n : buffer'[i] = chunk[i] /\ buffer'[i] # NUL
  <2>1. b \in 1 .. n /\ b + 1 \in 1 .. n /\ \A i \in 1 .. n : i \in 1 .. Size
    BY <1>2, <1>4
  <2>2. \A i \in 1 .. n : buffer'[i] = chunk[i]
    BY <1>1, <2>1
  <2>. QED  BY <1>3, <2>1, <2>2
<1>6. buffer' \in [1 .. Size -> S] /\ buffer' \in Seq(S) /\ Len(buffer') = Size
  <2>1. DOMAIN buffer' = 1 .. Size /\ buffer' = [i \in 1 .. Size |-> buffer'[i]]
    BY <1>1
  <2>2. buffer' \in [1 .. Size -> S]
    BY <2>1
  <2>. HIDE DEF S
  <2>3. buffer' \in Seq(S)
    BY <1>2, <2>2, SeqDef
  <2>. QED  BY <1>2, <2>1, <2>2, <2>3, LenProperties
<1>7. CASE nuls = {}
  <2>1. Text' = buffer'
    BY <1>7 DEF Text
  <2>2. b \in 1 .. Size - 1
    BY <1>2, <1>4
  <2>. QED  BY <1>4, <1>5, <1>6, <2>1, <2>2 DEF HasBlankLine
<1>8. CASE nuls # {}
  <2>1. nuls \in SUBSET Nat
    BY <1>2
  <2>2. least \in nuls /\ \A j \in nuls : least <= j
    BY <1>8, <2>1, LeastOf
  <2>3. Text' = SubSeq(buffer', 1, least - 1)
    BY <1>8 DEF Text
  <2>4. least \in 1 .. Size /\ buffer'[least] = NUL
    BY <2>2
  <2>. HIDE DEF least, nuls, S
  <2>5. least - 1 \in Nat /\ n <= least - 1 /\ 1 \in Int
    BY <1>2, <1>5, <2>4
  <2>6. \A i \in 1 .. least - 1 : buffer'[i] \in S
    BY <1>2, <1>6, <2>4
  <2>7. Len(Text') = least - 1 /\ \A i \in 1 .. least - 1 : Text'[i] = buffer'[i]
    <3> DEFINE m == least - 1
    <3>1. m \in Int /\ 1 <= m /\ 1 \in Int /\ \A i \in 1 .. m : buffer'[i] \in S
      BY <2>5, <2>6
    <3>2. Text' = SubSeq(buffer', 1, m)
      BY <2>3
    <3>. HIDE DEF m
    <3>3. /\ Len(SubSeq(buffer', 1, m)) = IF 1 <= m THEN m - 1 + 1 ELSE 0
          /\ \A i \in 1 .. m - 1 + 1 : SubSeq(buffer', 1, m)[i] = buffer'[1 + i - 1]
      BY <3>1, SubSeqProperties
    <3>4. Len(Text') = m /\ \A i \in 1 .. m : Text'[i] = buffer'[i]
      BY <3>1, <3>2, <3>3
    <3>. QED  BY <3>4 DEF m
  <2>8. b \in 1 .. least - 1 - 1 /\ b \in 1 .. least - 1 /\ b + 1 \in 1 .. least - 1
    BY <1>4, <2>5
  <2>. QED  BY <1>4, <1>5, <2>7, <2>8 DEF HasBlankLine
<1>. QED  BY <1>7, <1>8

LEMMA NextBlankHolds == ReaderTypes /\ BlankHolds /\ [Next]_vars => BlankHolds'
<1> SUFFICES ASSUME ReaderTypes, BlankHolds, [Next]_vars PROVE BlankHolds'
  OBVIOUS
<1>0. buffer' = buffer /\ beyond' = beyond => Seen' = Seen
  BY DEF Seen, Text, HasBlankLine
<1>1. CASE UNCHANGED vars
  BY <1>0, <1>1 DEF vars, BlankHolds
<1>2. CASE ClientCloses \/ NothingRead \/ HeaderEnds \/ ReadOn \/ Decide
  BY <1>0, <1>2 DEF ClientCloses, NothingRead, HeaderEnds, ReadOn, Decide, BlankHolds
<1>3. CASE Connect
  <2>1. PICK s \in Inputs[program] : rest' = s
    BY <1>3 DEF Connect
  <2>2. \A i \in 1 .. Len(rest') : rest'[i] # NUL
    BY <2>1, RequestsAssumption DEF ReaderTypes
  <2>3. pc' = "first" /\ ~ blank'
    BY <1>3 DEF Connect
  <2>. QED  BY <2>2, <2>3 DEF BlankHolds
<1>4. CASE ReadNothing
  <2>1. Len(rest') = 0 /\ pc' = "scan" /\ pc = "more" /\ blank' = blank
    BY <1>4, EmptySeq DEF ReadNothing
  <2>. QED  BY <2>1 DEF BlankHolds
<1>5. ASSUME NEW n \in 1 .. Size, FirstRead(n) \/ ReadMore(n) PROVE BlankHolds'
  <2>1. /\ n <= Len(rest) /\ pc' = "scan" /\ rest' = SubSeq(rest, n + 1, Len(rest)) /\ ~ blank
        /\ (blank' => HasBlankLine(SubSeq(rest, 1, n)))
    BY <1>5 DEF FirstRead, ReadMore, Receive, BlankHolds
  <2>2. \A i \in 1 .. Len(rest') : rest'[i] # NUL
    <3>1. rest \in Seq(STRING) /\ Len(rest) \in Nat
      BY LenProperties DEF ReaderTypes
    <3>2. n + 1 \in Int /\ Len(rest) \in Int
          /\ \A i \in n + 1 .. Len(rest) : i \in 1 .. Len(rest) /\ rest[i] \in STRING
      BY <3>1, ElementOfSeq
    <3> DEFINE m == n + 1
               e == Len(rest)
    <3>3. /\ Len(SubSeq(rest, m, e)) = IF m <= e THEN e - m + 1 ELSE 0
          /\ \A i \in 1 .. e - m + 1 : SubSeq(rest, m, e)[i] = rest[m + i - 1]
      BY <3>2, SubSeqProperties
    <3>4. \A i \in 1 .. Len(rest') : i \in 1 .. e - m + 1 /\ m + i - 1 \in 1 .. Len(rest)
      BY <2>1, <3>1, <3>3
    <3>. QED  BY <2>1, <3>3, <3>4 DEF BlankHolds
  <2>3. HasBlankLine(SubSeq(rest, 1, n)) => HasBlankLine(Text')
    <3>1. CASE FirstRead(n)
      <4>1. Text' = SubSeq(rest, 1, n)
        BY <3>1, TextOfFirst DEF FirstRead
      <4>. QED  BY <4>1
    <3>2. CASE ReadMore(n)
      BY <3>2, ReadIsSeen DEF BlankHolds
    <3>. QED  BY <1>5, <3>1, <3>2
  <2>4. blank' => Seen'
    BY <2>1, <2>3 DEF Seen, HasBlankLine
  <2>. QED  BY <2>1, <2>2, <2>4 DEF BlankHolds
<1>. QED  BY <1>1, <1>2, <1>3, <1>4, <1>5 DEF Next, Worker

\* Once one read brings a blank line, wherever the reads before stopped and whatever they left
\* in the buffer, the worker reads no more: the safety half of BlankLineIsSeen
\* (RequestHandlers.h:321-322, s.c:270-271).
THEOREM BlankEndsLoop == Spec => [](blank => pc # "more")
<1>1. Init => BlankHolds
  BY EmptySeq DEF Init, BlankHolds
<1>2. BlankHolds => (blank => pc # "more")
  BY DEF BlankHolds
<1>. QED  BY <1>1, <1>2, TypesHold, NextBlankHolds, PTL DEF Spec
=============================================================================
