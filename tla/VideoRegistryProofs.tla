-------------------------- MODULE VideoRegistryProofs --------------------------
(***************************************************************************)
(* Theorems about VideoRegistry, for any subservers, files, table and      *)
(* number of searches: the safety half of the refinement of SearchService  *)
(* (each step of the main server is a step of the service, or none that can*)
(* be seen), the order in which the table keeps lines, and how datagrams   *)
(* become records.                                                         *)
(***************************************************************************)
EXTENDS VideoRegistry, FiniteSetTheorems, SequenceTheorems, WellFoundedInduction, TLAPS

Datagram == [from : Subservers, line : Nat]
Cell     == {Empty} \cup [from : Subservers, line : Nat, text : {"cut", "whole"}]
Message  == {<<"YES">>, <<"END">>, <<"NOT FOUND">>} \cup {<<"field", c>> : c \in Cell}
Rows     == [Fields -> Cell]

Types ==
  /\ files \in Contents /\ line \in [Subservers -> Nat] /\ wire \in Seq(Datagram)
  /\ f \in Fields /\ videos \in [1 .. TableSize -> Rows] /\ videoIndex \in Nat
  /\ qpc \in {"recv", "loop", "field"} /\ i \in Nat /\ flag \in {0, 2} /\ g \in Fields
  /\ found \in Seq(Nat) /\ answer \in Seq(Message)
  /\ qpc = "field" => i < videoIndex /\ i < TableSize

LEMMA InitTypes == Init => Types
<1> SUFFICES ASSUME Init PROVE Types
  OBVIOUS
<1>1. <<>> \in Seq(Datagram) /\ <<>> \in Seq(Nat) /\ <<>> \in Seq(Message)
  BY EmptySeq
<1>2. videos \in [1 .. TableSize -> Rows]
  BY DEF Init, Rows, Cell
<1>. QED  BY <1>1, <1>2 DEF Init, Types, Fields

LEMMA SubserverTypes ==
  ASSUME Types, NEW s \in Started, Announce(s) \/ AcceptFails(s) PROVE Types'
<1>1. s \in Subservers
  BY RegistryAssumption DEF RegistryAssumption, Types, Started
<1>2. Sendline(s) \in Nat
  BY <1>1 DEF Types, Sendline
<1>3. ASSUME NEW b \in BOOLEAN, Send(s, b) PROVE Types'
  <2>1. line' \in [Subservers -> Nat]
    BY <1>2, <1>3 DEF Send, Types
  <2>2. [from |-> s, line |-> Sendline(s)] \in Datagram
    BY <1>1, <1>2 DEF Datagram
  <2>3. wire' \in Seq(Datagram)
    <3>1. wire' = wire \/ wire' = Append(wire, [from |-> s, line |-> Sendline(s)])
      BY <1>3 DEF Send, Deliver
    <3>2. wire \in Seq(Datagram)
      BY DEF Types
    <3>. QED  BY <2>2, <3>1, <3>2, AppendProperties
  <2>4. UNCHANGED <<files, registry, search>>
    BY <1>3 DEF Send
  <2>. QED  BY <2>1, <2>3, <2>4 DEF Types, registry, search
<1>4. ASSUME NEW b \in BOOLEAN, Open(s, b) PROVE Types'
  BY <1>4 DEF Open, Types, registry, search
<1>5. CASE FileEnds(s) \/ AcceptFails(s)
  BY <1>5 DEF FileEnds, AcceptFails, Types, registry, search
<1>. QED  BY <1>3, <1>4, <1>5 DEF Announce

LEMMA StreamFrame == ASSUME NEW v \in Viewers, Stream(v)
                     PROVE  UNCHANGED <<files, line, wire, registry, search, main>>
  BY DEF Stream, Accept, ReadNoByte, ReadName, ViewerLeaves, WriteToGone, SetViewer

LEMMA StoresCell ==
  ASSUME Types, wire # <<>>, Row <= TableSize
  PROVE  [videos EXCEPT ![Row][f] = Stored(Head(wire))] \in [1 .. TableSize -> Rows]
<1>1. Head(wire) \in Datagram
  BY HeadTailProperties DEF Types
<1>2. Stored(Head(wire)) \in Cell
  BY <1>1 DEF Stored, Cell, Datagram
<1>3. Row \in 1 .. TableSize
  BY RegistryAssumption DEF RegistryAssumption, Row, Types
<1>. QED  BY <1>2, <1>3 DEF Types, Rows

LEMMA RegisterTypes == ASSUME Types, Register PROVE Types'
<1>1. CASE ReceiveField
  <2>1. wire # <<>> /\ wire' = Tail(wire) /\ wire' \in Seq(Datagram)
    BY <1>1, HeadTailProperties DEF ReceiveField, Types
  <2>2. f' \in Fields
    BY <1>1 DEF ReceiveField, NextField, Types, Fields
  <2>3. videos' \in [1 .. TableSize -> Rows]
    BY <1>1, StoresCell DEF ReceiveField, Types
  <2>. QED  BY <1>1, <2>1, <2>2, <2>3 DEF ReceiveField, Types, subserver, search
<1>2. CASE (\E ok \in BOOLEAN : OpenFile(ok)) \/ Overrun \/ CloseFile
  BY <1>2 DEF OpenFile, Overrun, CloseFile, Types, subserver, registry, search
<1>3. CASE Publish
  BY <1>3 DEF Publish, Types, subserver, search
<1>. QED  BY <1>1, <1>2, <1>3 DEF Register

LEMMA SearchTypes == ASSUME Types, ReceiveQuery \/ Answer PROVE Types'
<1>0. (\A m \in Message : Append(answer, m) \in Seq(Message)) /\ Append(found, i + 1) \in Seq(Nat)
  <2>1. answer \in Seq(Message) /\ found \in Seq(Nat) /\ i + 1 \in Nat
    BY DEF Types
  <2>. QED  BY <2>1, AppendProperties
<1> USE DEF Types, subserver, registry, search
<1>1. CASE ReceiveQuery
  BY <1>1, EmptySeq DEF ReceiveQuery
<1>2. ASSUME NEW b \in BOOLEAN, Compare(b) PROVE Types'
  <2>1. <<"YES">> \in Message
    BY DEF Message
  <2>2. i < videoIndex /\ i < TableSize /\ i + 1 \in Nat /\ qpc = "loop"
        /\ UNCHANGED <<files, line, wire, f, videos, videoIndex>>
    BY <1>2 DEF Compare, MoreRows, Searching
  <2>3. CASE b
    <3>1. /\ qpc' = "field" /\ g' = 1 /\ flag' = 2 /\ found' = Append(found, i + 1)
          /\ answer' = (IF flag = 0 THEN Append(answer, <<"YES">>) ELSE answer) /\ i' = i
      BY <1>2, <2>3 DEF Compare
    <3>2. answer' \in Seq(Message)
      BY <1>0, <2>1, <3>1
    <3>. QED  BY <1>0, <2>2, <3>1, <3>2 DEF Fields
  <2>4. CASE ~b
    <3>1. i' = i + 1 /\ UNCHANGED <<qpc, g, flag, found, answer>>
      BY <1>2, <2>4 DEF Compare
    <3>. QED  BY <2>2, <3>1
  <2>. QED  BY <2>3, <2>4
<1>3. CASE Abort \/ ReadPast
  BY <1>3 DEF Abort, ReadPast
<1>4. CASE Finish
  <2>1. <<"NOT FOUND">> \in Message /\ <<"END">> \in Message
    BY DEF Message
  <2>2. answer' \in Seq(Message)
    BY <1>0, <1>4, <2>1 DEF Finish
  <2>. QED  BY <1>4, <2>2 DEF Finish
<1>5. CASE SendField
  <2>1. videos[i + 1] \in Rows
    <3>1. i + 1 \in 1 .. TableSize
      BY <1>5, RegistryAssumption DEF SendField, Searching, RegistryAssumption
    <3>. QED  BY <3>1
  <2>2. videos[i + 1][g] \in Cell
    BY <2>1 DEF Rows
  <2>3. <<"field", videos[i + 1][g]>> \in Message
    BY <2>2 DEF Message
  <2>4. answer' \in Seq(Message)
    BY <1>0, <1>5, <2>3 DEF SendField
  <2>5. g' \in Fields /\ i' \in Nat /\ qpc' \in {"loop", "field"}
    <3>1. g \in 1 .. 4 /\ i \in Nat /\ qpc = "field"
      BY <1>5 DEF SendField, Searching, Fields
    <3>. QED  BY <1>5, <3>1 DEF SendField, Fields
  <2>6. qpc' = "field" => i' = i /\ qpc = "field"
    BY <1>5 DEF SendField
  <2>. QED  BY <1>5, <2>4, <2>5, <2>6 DEF SendField
<1>. QED  BY <1>1, <1>2, <1>3, <1>4, <1>5 DEF Answer

LEMMA NextTypes == Types /\ [Next]_vars => Types'
<1> SUFFICES ASSUME Types, [Next]_vars PROVE Types'
  OBVIOUS
<1>1. CASE UNCHANGED vars
  BY <1>1 DEF vars, subserver, registry, search, Types
<1>2. ASSUME NEW v \in Viewers, Stream(v) PROVE Types'
  BY <1>2, StreamFrame DEF registry, search, Types
<1>. QED  BY <1>1, <1>2, SubserverTypes, RegisterTypes, SearchTypes DEF Next
LEMMA AlwaysTyped == Spec => []Types
  BY InitTypes, NextTypes, PTL DEF Spec

-----------------------------------------------------------------------------
(* What the searches show: the rows that are counted, and those told.      *)

Cap(x)      == IF x < TableSize THEN x ELSE TableSize
Shown(v, x) == SubSeq(v, 1, Cap(x))

LEMMA ShownRows ==
  ASSUME NEW v \in [1 .. TableSize -> Rows], NEW x \in Nat
  PROVE  /\ Cap(x) \in 0 .. TableSize /\ Shown(v, x) \in Seq(Rows) /\ Len(Shown(v, x)) = Cap(x)
         /\ \A n \in 1 .. Cap(x) : Shown(v, x)[n] = v[n]
<1>1. Cap(x) \in 0 .. TableSize
  BY RegistryAssumption DEF RegistryAssumption, Cap
<1>2. \A n \in 1 .. Cap(x) : v[n] \in Rows
  BY <1>1, RegistryAssumption DEF RegistryAssumption
<1>3. /\ SubSeq(v, 1, Cap(x)) \in Seq(Rows)
      /\ Len(SubSeq(v, 1, Cap(x))) = IF 1 <= Cap(x) THEN Cap(x) - 1 + 1 ELSE 0
      /\ \A n \in 1 .. Cap(x) - 1 + 1 : SubSeq(v, 1, Cap(x))[n] = v[1 + n - 1]
  BY <1>1, <1>2, SubSeqProperties
<1>. QED  BY <1>1, <1>3 DEF Shown

LEMMA Quarters ==
  /\ \A m \in Int, r \in 0 .. 3 : (4 * m + r) \div 4 = m
  /\ \A a \in Int : a \div 4 \in Int /\ 4 * (a \div 4) <= a /\ a < 4 * (a \div 4) + 4
<1>1. \A m \in Int, r \in 0 .. 3 : (4 * m + r) \div 4 = m
  OBVIOUS
<1>2. \A a \in Int : a \div 4 \in Int /\ 4 * (a \div 4) <= a /\ a < 4 * (a \div 4) + 4
  OBVIOUS
<1>. QED  BY <1>1, <1>2

\* What a datagram of the answer carries, and the rows an answer tells whole: four fields
\* each, after the "YES".
Carried(m) == IF Len(m) = 2 THEN m[2] ELSE Empty
Whole(a)   == (Len(a) - 1) \div 4
RowIn(a, n) == [h \in Fields |-> Carried(a[4 * n - 3 + h])]
RowsIn(a)  == [n \in 1 .. Whole(a) |-> RowIn(a, n)]

LEMMA CarriedCell == ASSUME NEW m \in Message PROVE Carried(m) \in Cell
<1>1. CASE m \in {<<"YES">>, <<"END">>, <<"NOT FOUND">>}
  <2>1. Len(<<"YES">>) = 1 /\ Len(<<"END">>) = 1 /\ Len(<<"NOT FOUND">>) = 1
    OBVIOUS
  <2>2. Len(m) = 1
    BY <1>1, <2>1
  <2>. QED  BY <2>2 DEF Cell, Carried
<1>2. ASSUME NEW c \in Cell, m = <<"field", c>> PROVE Carried(m) \in Cell
  BY <1>2 DEF Carried
<1>. QED  BY <1>1, <1>2 DEF Message

LEMMA ToldRows ==
  ASSUME NEW a \in Seq(Message)
  PROVE  /\ Len(a) \in Nat /\ Whole(a) \in Int /\ 4 * Whole(a) <= Len(a) - 1
         /\ RowsIn(a) \in Seq(Rows) /\ Len(RowsIn(a)) = IF Whole(a) < 0 THEN 0 ELSE Whole(a)
         /\ \A n \in 1 .. Whole(a) : RowsIn(a)[n] = RowIn(a, n)
<1>1. Len(a) \in Nat /\ \A n \in 1 .. Len(a) : a[n] \in Message
  BY LenProperties, ElementOfSeq
<1>2. Whole(a) \in Int /\ 4 * Whole(a) <= Len(a) - 1
  <2>1. Len(a) - 1 \in Int
    BY <1>1
  <2>. QED  BY <2>1, Quarters DEF Whole
<1>3. ASSUME NEW n \in 1 .. Whole(a), NEW h \in Fields PROVE Carried(a[4 * n - 3 + h]) \in Cell
  <2>1. 4 * n - 3 + h \in 1 .. Len(a)
    BY <1>1, <1>2 DEF Fields
  <2>. QED  BY <1>1, <2>1, CarriedCell
<1>4. \A n \in 1 .. Whole(a) : RowIn(a, n) \in Rows
  BY <1>3 DEF Rows, RowIn
<1>5. PICK t \in Nat : t = IF Whole(a) < 0 THEN 0 ELSE Whole(a)
  BY <1>2
<1>6. 1 .. t = 1 .. Whole(a)
  BY <1>2, <1>5
<1>7. RowsIn(a) \in [1 .. t -> Rows] /\ \A n \in 1 .. Whole(a) : RowsIn(a)[n] = RowIn(a, n)
  BY <1>4, <1>6 DEF RowsIn
<1>8. RowsIn(a) \in Seq(Rows)
  BY <1>7, SeqDef
<1>9. Len(RowsIn(a)) = t
  <2>1. DOMAIN RowsIn(a) = 1 .. t /\ DOMAIN RowsIn(a) = 1 .. Len(RowsIn(a)) /\ Len(RowsIn(a)) \in Nat
    BY <1>7, <1>8, LenProperties
  <2>. QED  BY <2>1
<1>. QED  BY <1>1, <1>2, <1>5, <1>7, <1>8, <1>9

LEMMA NoneTold == ASSUME NEW a \in Seq(Message), Len(a) <= 4 PROVE RowsIn(a) = <<>>
<1>1. Len(a) \in Nat /\ Whole(a) \in Int /\ 4 * Whole(a) <= Len(a) - 1
  BY ToldRows
<1>2. Whole(a) <= 0
  BY <1>1
<1>3. RowsIn(a) \in Seq(Rows) /\ Len(RowsIn(a)) = IF Whole(a) < 0 THEN 0 ELSE Whole(a)
  BY ToldRows
<1>4. Len(RowsIn(a)) = 0
  BY <1>1, <1>2, <1>3
<1>. QED  BY <1>3, <1>4, EmptySeq

\* An answer that goes on tells the rows it told, unless the next one is whole now.
LEMMA SameRows ==
  ASSUME NEW a \in Seq(Message), NEW b \in Seq(Message), Len(a) <= Len(b),
         \A n \in 1 .. Len(a) : b[n] = a[n],
         Whole(a) = Whole(b) \/ (Whole(a) <= 0 /\ Whole(b) <= 0)
  PROVE  RowsIn(b) = RowsIn(a)
<1>1. Len(a) \in Nat /\ Whole(a) \in Int /\ 4 * Whole(a) <= Len(a) - 1 /\ Whole(b) \in Int
  BY ToldRows
<1>2. 1 .. Whole(a) = 1 .. Whole(b)
  BY <1>1
<1>3. ASSUME NEW n \in 1 .. Whole(a) PROVE RowIn(a, n) = RowIn(b, n)
  <2>1. \A h \in Fields : 4 * n - 3 + h \in 1 .. Len(a)
    BY <1>1 DEF Fields
  <2>. QED  BY <2>1 DEF RowIn
<1>. QED  BY <1>2, <1>3 DEF RowsIn

LEMMA OneMoreRow ==
  ASSUME NEW a \in Seq(Message), NEW b \in Seq(Message), Len(a) <= Len(b),
         \A n \in 1 .. Len(a) : b[n] = a[n],
         Whole(a) >= 0, Whole(b) = Whole(a) + 1
  PROVE  RowsIn(b) = Append(RowsIn(a), RowIn(b, Whole(b)))
<1>1. Len(a) \in Nat /\ Whole(a) \in Nat /\ 4 * Whole(a) <= Len(a) - 1 /\ Whole(b) \in Nat
  BY ToldRows
<1>2. /\ RowsIn(a) \in Seq(Rows) /\ Len(RowsIn(a)) = Whole(a)
      /\ \A n \in 1 .. Whole(a) : RowsIn(a)[n] = RowIn(a, n)
  BY <1>1, ToldRows
<1>3. /\ RowsIn(b) \in Seq(Rows) /\ Len(RowsIn(b)) = Whole(b)
      /\ \A n \in 1 .. Whole(b) : RowsIn(b)[n] = RowIn(b, n)
  BY <1>1, ToldRows
<1>4. RowIn(b, Whole(b)) \in Rows
  <2>1. Whole(b) \in 1 .. Len(RowsIn(b))
    BY <1>1, <1>3
  <2>. QED  BY <1>3, <2>1, ElementOfSeq
<1>5. ASSUME NEW n \in 1 .. Whole(a) PROVE RowIn(b, n) = RowIn(a, n)
  <2>1. \A h \in Fields : 4 * n - 3 + h \in 1 .. Len(a)
    BY <1>1 DEF Fields
  <2>. QED  BY <2>1 DEF RowIn
<1> DEFINE r == Append(RowsIn(a), RowIn(b, Whole(b)))
<1>6. /\ r \in Seq(Rows) /\ Len(r) = Whole(a) + 1 /\ r[Whole(a) + 1] = RowIn(b, Whole(b))
      /\ \A n \in 1 .. Whole(a) : r[n] = RowsIn(a)[n]
  BY <1>2, <1>4, AppendProperties
<1>7. \A n \in 1 .. Len(r) : RowsIn(b)[n] = r[n]
  <2>1. \A n \in 1 .. Len(r) : n \in 1 .. Whole(a) \/ n = Whole(a) + 1
    BY <1>1, <1>6
  <2>2. \A n \in 1 .. Whole(a) : n \in 1 .. Whole(b)
    BY <1>1
  <2>3. Whole(b) \in 1 .. Whole(b) /\ Whole(b) = Whole(a) + 1
    BY <1>1
  <2>. QED  BY <1>2, <1>3, <1>5, <1>6, <2>1, <2>2, <2>3
<1>. HIDE DEF r
<1>8. RowsIn(b) = r
  BY <1>3, <1>6, <1>7, SeqEqual
<1>. QED  BY <1>8 DEF r

-----------------------------------------------------------------------------
(* The inductive invariant: the answer so far has one row for each match,  *)
(* and is inside the row of the last one only while its fields are sent.   *)

M == Len(found)

Looping ==
  qpc = "loop" =>
    \/ flag = 0 /\ found = <<>> /\ answer = <<>>
    \/ flag = 2 /\ M >= 1 /\ Len(answer) = 4 * M + 1 /\ found[M] <= i

\* Row i + 1 matched, and its fields before g are sent as the table has them.
Sending ==
  qpc = "field" =>
    /\ flag = 2 /\ M >= 1 /\ Len(answer) = 4 * (M - 1) + g /\ found[M] = i + 1
    /\ M >= 2 => found[M - 1] <= i
    /\ \A h \in Fields : h < g => answer[4 * (M - 1) + 1 + h] = <<"field", videos[i + 1][h]>>

Ended == qpc = "recv" => answer = <<>> \/ answer[Len(answer)] \in {<<"NOT FOUND">>, <<"END">>}

Telling == Looping /\ Sending /\ Ended
RegistryInv == Types /\ Telling

LEMMA InitTelling == Init => Telling
  BY DEF Init, Telling, Looping, Sending, Ended

\* Nothing but the search touches its own state, and a row that it sends is counted.
LEMMA OthersKeepTelling ==
  ASSUME Types, Telling, UNCHANGED search,
         \A n \in 1 .. TableSize : n <= videoIndex => videos'[n] = videos[n]
  PROVE  Telling'
<1>1. UNCHANGED <<qpc, i, flag, g, found, answer>> /\ M' = M
  BY DEF search, M
<1>2. qpc = "field" => videos'[i + 1] = videos[i + 1]
  <2>1. qpc = "field" => i + 1 \in 1 .. TableSize /\ i + 1 <= videoIndex
    BY RegistryAssumption DEF Types, RegistryAssumption
  <2>. QED  BY <2>1
<1>3. Looping'
  BY <1>1 DEF Telling, Looping
<1>4. Sending'
  BY <1>1, <1>2 DEF Telling, Sending
<1>5. Ended'
  BY <1>1 DEF Telling, Ended
<1>. QED  BY <1>3, <1>4, <1>5 DEF Telling

\* Registration writes the row after those that are counted.
LEMMA RegisterFrame ==
  ASSUME Types, Register
  PROVE  /\ UNCHANGED search
         /\ \A n \in 1 .. TableSize : n <= videoIndex => videos'[n] = videos[n]
<1>1. CASE ReceiveField
  <2>1. \A n \in 1 .. TableSize : n <= videoIndex => n # Row
    BY RegistryAssumption DEF RegistryAssumption, Row, Types
  <2>. QED  BY <1>1, <2>1 DEF ReceiveField, Types
<1>2. CASE ~ReceiveField
  BY <1>2 DEF Register, OpenFile, Overrun, Publish, CloseFile, search, registry
<1>. QED  BY <1>1, <1>2

LEMMA Appended ==
  ASSUME Types
  PROVE  /\ Len(answer) \in Nat /\ M \in Nat
         /\ \A m \in Message : /\ Append(answer, m) \in Seq(Message)
                               /\ Len(Append(answer, m)) = Len(answer) + 1
                               /\ Append(answer, m)[Len(answer) + 1] = m
                               /\ \A n \in 1 .. Len(answer) : Append(answer, m)[n] = answer[n]
         /\ \A x \in Nat : /\ Len(Append(found, x)) = M + 1 /\ Append(found, x)[M + 1] = x
                           /\ \A n \in 1 .. M : Append(found, x)[n] = found[n]
<1>1. answer \in Seq(Message) /\ found \in Seq(Nat)
  BY DEF Types
<1>2. Len(answer) \in Nat /\ M \in Nat
  BY <1>1, LenProperties DEF M
<1>3. ASSUME NEW m \in Message
      PROVE  /\ Append(answer, m) \in Seq(Message) /\ Len(Append(answer, m)) = Len(answer) + 1
             /\ Append(answer, m)[Len(answer) + 1] = m
             /\ \A n \in 1 .. Len(answer) : Append(answer, m)[n] = answer[n]
  BY <1>1, AppendProperties
<1>4. ASSUME NEW x \in Nat
      PROVE  /\ Len(Append(found, x)) = M + 1 /\ Append(found, x)[M + 1] = x
             /\ \A n \in 1 .. M : Append(found, x)[n] = found[n]
  BY <1>1, AppendProperties DEF M
<1>. QED  BY <1>2, <1>3, <1>4

LEMMA SentCell ==
  ASSUME Types, qpc = "field"
  PROVE  /\ i + 1 \in 1 .. TableSize /\ i + 1 <= Cap(videoIndex) /\ videos[i + 1] \in Rows
         /\ \A h \in Fields : <<"field", videos[i + 1][h]>> \in Message
<1>1. i + 1 \in 1 .. TableSize /\ i + 1 <= Cap(videoIndex)
  BY RegistryAssumption DEF Types, RegistryAssumption, Cap
<1>2. videos[i + 1] \in Rows
  BY <1>1 DEF Types
<1>3. \A h \in Fields : videos[i + 1][h] \in Cell
  BY <1>2 DEF Rows
<1>. QED  BY <1>1, <1>2, <1>3 DEF Message

LEMMA CompareTelling == ASSUME Types, Telling, NEW b \in BOOLEAN, Compare(b) PROVE Telling'
<1>1. qpc = "loop" /\ i \in Nat /\ i + 1 \in Nat
  BY DEF Compare, Searching, Types
<1>2. CASE ~b
  <2>1. i' = i + 1 /\ UNCHANGED <<qpc, g, flag, found, answer>> /\ M' = M
    BY <1>2 DEF Compare, M
  <2>2. \/ flag = 0 /\ found = <<>> /\ answer = <<>>
        \/ flag = 2 /\ M >= 1 /\ Len(answer) = 4 * M + 1 /\ found[M] <= i
    BY <1>1 DEF Telling, Looping
  <2>3. M >= 1 => found[M] \in Nat
    <3>1. found \in Seq(Nat) /\ M = Len(found) /\ M \in Nat
      BY Appended DEF Types, M
    <3>2. M >= 1 => M \in 1 .. Len(found)
      BY <3>1
    <3>. QED  BY <3>1, <3>2, ElementOfSeq
  <2>4. Looping'
    <3>1. CASE flag = 0 /\ found = <<>> /\ answer = <<>>
      BY <2>1, <3>1 DEF Looping
    <3>2. CASE flag = 2 /\ M >= 1 /\ Len(answer) = 4 * M + 1 /\ found[M] <= i
      <4>1. found'[M'] <= i'
        BY <1>1, <2>1, <2>3, <3>2
      <4>. QED  BY <2>1, <3>2, <4>1 DEF Looping
    <3>. QED  BY <2>2, <3>1, <3>2
  <2>. QED  BY <1>1, <2>1, <2>4 DEF Telling, Sending, Ended
<1>3. CASE b
  <2>1. qpc' = "field" /\ g' = 1 /\ flag' = 2 /\ found' = Append(found, i + 1) /\ i' = i
    BY <1>3 DEF Compare
  <2>2. answer' = IF flag = 0 THEN Append(answer, <<"YES">>) ELSE answer
    BY <1>3 DEF Compare
  <2>3. M \in Nat /\ M' = M + 1 /\ found'[M + 1] = i + 1 /\ \A n \in 1 .. M : found'[n] = found[n]
    BY <1>1, <2>1, Appended DEF M
  <2>4. CASE flag = 0
    <3>1. M = 0 /\ Len(answer) = 0
      <4>1. found = <<>> /\ answer = <<>>
        BY <1>1, <2>4 DEF Telling, Looping
      <4>. QED  BY <4>1, EmptySeq DEF M
    <3>2. Len(answer') = 1
      <4>1. <<"YES">> \in Message
        BY DEF Message
      <4>. QED  BY <2>2, <2>4, <3>1, <4>1, Appended
    <3>. QED  BY <2>1, <2>3, <3>1, <3>2 DEF Telling, Looping, Sending, Ended, Fields
  <2>5. CASE flag # 0
    <3>1. M >= 1 /\ Len(answer) = 4 * M + 1 /\ found[M] <= i
      BY <1>1, <2>5 DEF Telling, Looping
    <3>2. Len(answer') = 4 * (M' - 1) + g'
      BY <2>1, <2>2, <2>3, <2>5, <3>1
    <3>3. found'[M' - 1] <= i'
      <4>1. M' - 1 = M /\ M \in 1 .. M
        BY <2>3, <3>1
      <4>. QED  BY <2>1, <2>3, <3>1, <4>1
    <3>4. \A h \in Fields : ~ (h < g')
      BY <2>1 DEF Fields
    <3>5. M' >= 1 /\ found'[M'] = i' + 1
      <4>1. M' = M + 1 /\ M' >= 1
        BY <2>3
      <4>2. found'[M'] = found'[M + 1]
        BY <4>1, Zenon
      <4>. QED  BY <2>1, <2>3, <4>1, <4>2
    <3>6. Sending'
      BY <2>1, <3>2, <3>3, <3>4, <3>5 DEF Sending
    <3>. QED  BY <2>1, <3>6 DEF Telling, Looping, Ended
  <2>. QED  BY <2>4, <2>5
<1>. QED  BY <1>2, <1>3

LEMMA SendTelling == ASSUME Types, Telling, SendField PROVE Telling'
<1> DEFINE m == <<"field", videos[i + 1][g]>>
<1>1. qpc = "field" /\ g \in 1 .. 4 /\ g \in Fields /\ i \in Nat
  BY DEF SendField, Searching, Types, Fields
<1>2. /\ flag = 2 /\ M >= 1 /\ Len(answer) = 4 * (M - 1) + g /\ found[M] = i + 1
      /\ M >= 2 => found[M - 1] <= i
      /\ \A h \in Fields : h < g => answer[4 * (M - 1) + 1 + h] = <<"field", videos[i + 1][h]>>
  BY <1>1 DEF Telling, Sending
<1>3. M \in Nat /\ M' = M /\ UNCHANGED <<flag, found, videos>>
  BY Appended DEF SendField, registry, M
<1>4. m \in Message /\ answer' = Append(answer, m)
  BY <1>1, SentCell DEF SendField
<1>5. /\ Len(answer') = Len(answer) + 1 /\ answer'[Len(answer) + 1] = m
      /\ \A n \in 1 .. Len(answer) : answer'[n] = answer[n]
  BY <1>4, Appended
<1>6. CASE g = 4
  <2>1. qpc' = "loop" /\ i' = i + 1
    BY <1>6 DEF SendField
  <2>2. Len(answer') = 4 * M' + 1
    BY <1>2, <1>3, <1>5, <1>6
  <2>. QED  BY <1>1, <1>2, <1>3, <2>1, <2>2 DEF Telling, Looping, Sending, Ended
<1>7. CASE g # 4
  <2>1. qpc' = "field" /\ i' = i /\ g' = g + 1
    BY <1>1, <1>7 DEF SendField
  <2>2. Len(answer') = 4 * (M' - 1) + g'
    BY <1>1, <1>2, <1>3, <1>5, <2>1
  <2>3. ASSUME NEW h \in Fields, h < g'
        PROVE  answer'[4 * (M' - 1) + 1 + h] = <<"field", videos'[i' + 1][h]>>
    <3>1. CASE h = g
      <4>1. 4 * (M' - 1) + 1 + h = Len(answer) + 1
        BY <1>1, <1>2, <1>3, <3>1
      <4>. QED  BY <1>3, <1>5, <2>1, <3>1, <4>1
    <3>2. CASE h < g
      <4>1. 4 * (M' - 1) + 1 + h \in 1 .. Len(answer)
        BY <1>1, <1>2, <1>3, <3>2 DEF Fields
      <4>2. answer[4 * (M' - 1) + 1 + h] = <<"field", videos[i + 1][h]>>
        BY <1>2, <1>3, <3>2
      <4>. QED  BY <1>3, <1>5, <2>1, <4>1, <4>2
    <3>. QED  BY <1>1, <2>1, <2>3, <3>1, <3>2 DEF Fields
  <2>. HIDE DEF m
  <2>. QED  BY <1>2, <1>3, <2>1, <2>2, <2>3 DEF Telling, Looping, Sending, Ended
<1>. QED  BY <1>6, <1>7

LEMMA FinishTelling == ASSUME Types, Finish PROVE Telling'
<1>1. PICK m \in {<<"NOT FOUND">>, <<"END">>} : answer' = Append(answer, m)
  BY DEF Finish
<1>2. answer'[Len(answer')] = m
  <2>1. m \in Message
    BY <1>1 DEF Message
  <2>. QED  BY <1>1, <2>1, Appended
<1>. QED  BY <1>1, <1>2 DEF Finish, Telling, Looping, Sending, Ended

LEMMA SearchTelling == ASSUME Types, Telling, ReceiveQuery \/ Answer PROVE Telling'
<1>1. CASE ReceiveQuery
  BY <1>1 DEF ReceiveQuery, Telling, Looping, Sending, Ended
<1>2. CASE Abort \/ ReadPast
  BY <1>2, OthersKeepTelling DEF Abort, ReadPast, registry, search
<1>. QED  BY <1>1, <1>2, CompareTelling, SendTelling, FinishTelling DEF Answer

LEMMA NextInv == RegistryInv /\ [Next]_vars => RegistryInv'
<1> SUFFICES ASSUME Types, Telling, [Next]_vars PROVE Telling'
  BY NextTypes DEF RegistryInv
<1>1. CASE UNCHANGED vars
  BY <1>1, OthersKeepTelling DEF vars, registry
<1>2. ASSUME NEW s \in Started, Announce(s) \/ AcceptFails(s) PROVE Telling'
  <2>1. UNCHANGED <<registry, search>>
    BY <1>2 DEF Announce, Open, Send, FileEnds, AcceptFails
  <2>. QED  BY <2>1, OthersKeepTelling DEF registry
<1>3. ASSUME NEW v \in Viewers, Stream(v) PROVE Telling'
  BY <1>3, StreamFrame, OthersKeepTelling DEF registry
<1>4. CASE Register
  BY <1>4, RegisterFrame, OthersKeepTelling
<1>. QED  BY <1>1, <1>2, <1>3, <1>4, SearchTelling DEF Next

LEMMA AlwaysInv == Spec => []RegistryInv
<1>1. Init => RegistryInv
  BY InitTypes, InitTelling DEF RegistryInv
<1>. QED  BY <1>1, NextInv, PTL DEF Spec

-----------------------------------------------------------------------------
(* Every step is one of the service's, or changes nothing that it shows.   *)

LastTold(a, fd) == IF RowsIn(a) = <<>> THEN 0 ELSE fd[Len(RowsIn(a))]

LEMMA Shows ==
  /\ SubSeq(videos, 1, Counted) = Shown(videos, videoIndex) /\ RowsSent = RowsIn(answer)
  /\ (IF RowsSent = <<>> THEN 0 ELSE found[Len(RowsSent)]) = LastTold(answer, found)
<1>1. SubSeq(videos, 1, Counted) = Shown(videos, videoIndex)
  BY DEF Counted, Shown, Cap
<1>2. RowsSent = RowsIn(answer)
  BY DEF RowsSent, RowsIn, RowIn, Received, Carried, Whole
<1>. QED  BY <1>1, <1>2 DEF LastTold

LEMMA ShowsNext ==
  /\ SubSeq(videos, 1, Counted)' = Shown(videos', videoIndex') /\ RowsSent' = RowsIn(answer')
  /\ (IF RowsSent = <<>> THEN 0 ELSE found[Len(RowsSent)])' = LastTold(answer', found')
<1>1. SubSeq(videos, 1, Counted)' = Shown(videos', videoIndex')
  BY DEF Counted, Shown, Cap
<1>2. RowsSent' = RowsIn(answer')
  BY DEF RowsSent, RowsIn, RowIn, Received, Carried, Whole
<1>. QED  BY <1>1, <1>2 DEF LastTold

LEMMA InitService == Init => Service!Init
<1> SUFFICES ASSUME Init PROVE Service!Init
  OBVIOUS
<1>1. answer = <<>> /\ videoIndex = 0 /\ Status = "idle"
  BY DEF Init, Status
<1>2. Types
  BY InitTypes
<1>3. Shown(videos, videoIndex) = <<>>
  <2>1. videos \in [1 .. TableSize -> Rows] /\ 0 \in Nat /\ videoIndex = 0
    BY <1>1, <1>2 DEF Types
  <2>2. Cap(0) = 0
    BY RegistryAssumption DEF RegistryAssumption, Cap
  <2>3. Shown(videos, videoIndex) \in Seq(Rows) /\ Len(Shown(videos, videoIndex)) = 0
    BY <2>1, <2>2, ShownRows
  <2>. QED  BY <2>3, EmptySeq
<1>4. RowsIn(answer) = <<>>
  <2>1. answer \in Seq(Message) /\ Len(answer) = 0
    BY <1>1, EmptySeq
  <2>2. Len(answer) <= 4
    BY <2>1
  <2>. QED  BY <2>1, <2>2, NoneTold
<1>. QED  BY <1>1, <1>3, <1>4, Shows DEF Service!Init, LastTold

\* The state of the main server's search, as the service sees it.
LEMMA UpStatus ==
  ASSUME Telling, main = "up"
  PROVE  /\ Status # "down" /\ (qpc # "recv" <=> Status = "searching")
<1>1. CASE qpc # "recv"
  BY <1>1 DEF Status
<1>2. CASE qpc = "recv" /\ answer = <<>>
  BY <1>2 DEF Status
<1>3. CASE qpc = "recv" /\ answer # <<>>
  <2>1. answer[Len(answer)] = <<"NOT FOUND">> \/ answer[Len(answer)] = <<"END">>
    BY <1>3 DEF Telling, Ended
  <2>2. Status = answer[Len(answer)][1]
    BY <1>3 DEF Status, Last
  <2>3. <<"NOT FOUND">>[1] = "NOT FOUND" /\ <<"END">>[1] = "END"
    OBVIOUS
  <2>4. Status = "NOT FOUND" \/ Status = "END"
    BY <2>1, <2>2, <2>3, Zenon
  <2>. QED  BY <1>3, <2>4
<1>. QED  BY <1>1, <1>2, <1>3

LEMMA SearchUnseen ==
  ASSUME UNCHANGED search
  PROVE  /\ LastTold(answer', found') = LastTold(answer, found) /\ RowsIn(answer') = RowsIn(answer)
         /\ UNCHANGED main => UNCHANGED Status
<1>1. UNCHANGED <<qpc, found, answer>>
  BY DEF search
<1>. QED  BY <1>1 DEF Status

LEMMA Unseen ==
  ASSUME Types, Types', UNCHANGED <<videoIndex, search, main>>,
         \A n \in 1 .. TableSize : n <= videoIndex => videos'[n] = videos[n]
  PROVE  UNCHANGED Service!vars
<1>1. Shown(videos', videoIndex) = Shown(videos, videoIndex)
  <2>1. /\ videos \in [1 .. TableSize -> Rows] /\ videos' \in [1 .. TableSize -> Rows]
        /\ videoIndex \in Nat
    BY DEF Types
  <2>2. /\ Cap(videoIndex) \in 0 .. TableSize /\ Shown(videos, videoIndex) \in Seq(Rows)
        /\ Len(Shown(videos, videoIndex)) = Cap(videoIndex)
        /\ \A n \in 1 .. Cap(videoIndex) : Shown(videos, videoIndex)[n] = videos[n]
    BY <2>1, ShownRows
  <2>3. /\ Shown(videos', videoIndex) \in Seq(Rows)
        /\ Len(Shown(videos', videoIndex)) = Cap(videoIndex)
        /\ \A n \in 1 .. Cap(videoIndex) : Shown(videos', videoIndex)[n] = videos'[n]
    BY <2>1, ShownRows
  <2>4. \A n \in 1 .. Cap(videoIndex) : n \in 1 .. TableSize /\ n <= videoIndex
    BY <2>1, RegistryAssumption DEF RegistryAssumption, Cap
  <2>5. \A n \in 1 .. Len(Shown(videos', videoIndex)) :
          Shown(videos', videoIndex)[n] = Shown(videos, videoIndex)[n]
    BY <2>2, <2>3, <2>4
  <2>. QED  BY <2>2, <2>3, <2>5, SeqEqual
<1>. QED  BY <1>1, Shows, ShowsNext, SearchUnseen DEF Service!vars

LEMMA Stops ==
  ASSUME Telling, main = "up", main' # "up", UNCHANGED <<videos, videoIndex, search>>
  PROVE  Service!Stop
<1>1. Status # "down" /\ Status' = "down"
  BY UpStatus DEF Status
<1>. QED  BY <1>1, Shows, ShowsNext, SearchUnseen DEF Service!Stop

LEMMA PublishAdds == ASSUME Types, Types', Publish PROVE [Service!Next]_(Service!vars)
<1>1. /\ videos \in [1 .. TableSize -> Rows] /\ videoIndex \in Nat /\ videoIndex + 1 \in Nat
      /\ UNCHANGED <<videos, search, main>> /\ videoIndex' = videoIndex + 1
  BY DEF Types, Publish
<1>2. CASE videoIndex < TableSize
  <2> DEFINE old == Shown(videos, videoIndex)
             new == Shown(videos, videoIndex + 1)
  <2>1. Cap(videoIndex) = videoIndex /\ Cap(videoIndex + 1) = videoIndex + 1
    BY <1>1, <1>2, RegistryAssumption DEF RegistryAssumption, Cap
  <2>2. /\ old \in Seq(Rows) /\ Len(old) = videoIndex
        /\ \A n \in 1 .. videoIndex : old[n] = videos[n]
    BY <1>1, <2>1, ShownRows
  <2>3. /\ new \in Seq(Rows) /\ Len(new) = videoIndex + 1
        /\ \A n \in 1 .. videoIndex + 1 : new[n] = videos[n]
    BY <1>1, <2>1, ShownRows
  <2>. HIDE DEF old, new
  <2>4. /\ SubSeq(new, 1, Len(old)) \in Seq(Rows) /\ Len(SubSeq(new, 1, Len(old))) = Len(old)
        /\ \A n \in 1 .. Len(old) : SubSeq(new, 1, Len(old))[n] = new[n]
    <3>1. \A n \in 1 .. videoIndex : new[n] \in Rows
      <4>1. \A n \in 1 .. videoIndex : n \in 1 .. Len(new)
        BY <1>1, <2>3
      <4>. QED  BY <2>3, <4>1, ElementOfSeq
    <3>2. /\ SubSeq(new, 1, videoIndex) \in Seq(Rows)
          /\ Len(SubSeq(new, 1, videoIndex)) = IF 1 <= videoIndex THEN videoIndex - 1 + 1 ELSE 0
          /\ \A n \in 1 .. videoIndex - 1 + 1 : SubSeq(new, 1, videoIndex)[n] = new[1 + n - 1]
      BY <1>1, <3>1, SubSeqProperties
    <3>. QED  BY <1>1, <2>2, <3>2
  <2>5. SubSeq(new, 1, Len(old)) = old
    <3>1. \A n \in 1 .. Len(old) : SubSeq(new, 1, Len(old))[n] = old[n]
      BY <1>1, <2>2, <2>3, <2>4
    <3>. QED  BY <2>2, <2>4, <3>1, SeqEqual
  <2>6. Len(new) = Len(old) + 1
    BY <2>2, <2>3
  <2>7. /\ SubSeq(videos, 1, Counted) = old /\ SubSeq(videos, 1, Counted)' = new
    BY <1>1, Shows, ShowsNext DEF old, new
  <2>8. Service!Add
    BY <1>1, <2>5, <2>6, <2>7, Shows, ShowsNext, SearchUnseen DEF Service!Add
  <2>. QED  BY <2>8 DEF Service!Next
<1>3. CASE ~ (videoIndex < TableSize)
  <2>1. Cap(videoIndex + 1) = Cap(videoIndex)
    BY <1>1, <1>3, RegistryAssumption DEF RegistryAssumption, Cap
  <2>2. Shown(videos', videoIndex') = Shown(videos, videoIndex)
    BY <1>1, <2>1 DEF Shown
  <2>. QED  BY <1>1, <2>2, Shows, ShowsNext, SearchUnseen DEF Service!vars
<1>. QED  BY <1>2, <1>3

LEMMA RegisterServes ==
  ASSUME Types, Types', Telling, Register PROVE [Service!Next]_(Service!vars)
<1>1. ASSUME NEW ok \in BOOLEAN, OpenFile(ok) PROVE [Service!Next]_(Service!vars)
  <2>1. CASE ok
    BY <1>1, <2>1, Unseen DEF OpenFile
  <2>2. CASE ~ok
    BY <1>1, <2>2, Stops DEF OpenFile, At, Service!Next
  <2>. QED  BY <2>1, <2>2
<1>2. CASE ReceiveField
  BY <1>2, RegisterFrame, Unseen DEF ReceiveField
<1>3. CASE CloseFile
  BY <1>3, Unseen DEF CloseFile
<1>4. CASE Overrun
  BY <1>4, Stops DEF Overrun, At, registry, Service!Next
<1>. QED  BY <1>1, <1>2, <1>3, <1>4, PublishAdds DEF Register

\* How many rows are told whole: all that matched, but the one that is being sent.
LEMMA HowMany ==
  ASSUME Types, Telling
  PROVE  /\ qpc = "loop" /\ flag = 0 => RowsIn(answer) = <<>>
         /\ qpc = "loop" /\ flag # 0 => /\ Whole(answer) = M /\ M \in Nat \ {0}
                                        /\ Len(answer) = 4 * M + 1
         /\ qpc = "field" => /\ Whole(answer) = M - 1 /\ M \in Nat \ {0}
                             /\ Len(answer) = 4 * (M - 1) + g
<1>1. M \in Nat /\ Len(answer) \in Nat /\ Whole(answer) \in Int /\ answer \in Seq(Message)
      /\ 4 * Whole(answer) <= Len(answer) - 1
  BY Appended, ToldRows DEF Types
<1>2. CASE qpc = "loop" /\ flag = 0
  <2>1. Len(answer) = 0
    BY <1>2, EmptySeq DEF Telling, Looping
  <2>2. Len(answer) <= 4
    BY <2>1
  <2>3. RowsIn(answer) = <<>>
    BY <1>1, <2>2, NoneTold
  <2>. QED  BY <1>2, <2>3
<1>3. CASE qpc = "loop" /\ flag # 0
  <2>1. M >= 1 /\ Len(answer) = 4 * M + 1
    BY <1>3 DEF Telling, Looping
  <2>2. Len(answer) - 1 = 4 * M + 0
    BY <1>1, <2>1
  <2>3. (4 * M + 0) \div 4 = M
    BY <1>1, Quarters
  <2>. QED  BY <1>1, <1>3, <2>1, <2>2, <2>3 DEF Whole
<1>4. CASE qpc = "field"
  <2>1. M >= 1 /\ Len(answer) = 4 * (M - 1) + g /\ g \in 1 .. 4
    BY <1>4 DEF Telling, Sending, Types, Fields
  <2>2. Len(answer) - 1 = 4 * (M - 1) + (g - 1) /\ g - 1 \in 0 .. 3 /\ M - 1 \in Int
    BY <1>1, <2>1
  <2>3. (4 * (M - 1) + (g - 1)) \div 4 = M - 1
    BY <2>2, Quarters
  <2>. QED  BY <1>1, <1>4, <2>1, <2>2, <2>3 DEF Whole
<1>. QED  BY <1>2, <1>3, <1>4

\* A search that only goes on tells nothing new.
LEMMA GoesOn ==
  ASSUME Telling, main = "up", UNCHANGED <<videos, videoIndex, main>>, qpc # "recv", qpc' # "recv",
         RowsIn(answer') = RowsIn(answer), LastTold(answer', found') = LastTold(answer, found)
  PROVE  UNCHANGED Service!vars
<1>1. Status = "searching" /\ Status' = "searching"
  BY DEF Status
<1>2. Shown(videos', videoIndex') = Shown(videos, videoIndex)
  OBVIOUS
<1>. QED  BY <1>1, <1>2, Shows, ShowsNext DEF Service!vars

LEMMA QueryServes == ASSUME Telling, ReceiveQuery PROVE Service!Search
<1>1. /\ main = "up" /\ qpc = "recv" /\ main' = "up" /\ qpc' = "loop"
      /\ UNCHANGED <<videos, videoIndex>> /\ answer' = <<>>
  BY DEF ReceiveQuery, Searching, registry
<1>2. Status \notin {"searching", "down"} /\ Status' = "searching"
  BY <1>1, UpStatus DEF Status
<1>3. RowsIn(answer') = <<>>
  <2>1. answer' \in Seq(Message) /\ Len(answer') = 0
    BY <1>1, EmptySeq
  <2>2. Len(answer') <= 4
    BY <2>1
  <2>. QED  BY <2>1, <2>2, NoneTold
<1>. QED  BY <1>1, <1>2, <1>3, Shows, ShowsNext DEF Service!Search, LastTold

LEMMA CompareServes ==
  ASSUME Types, Types', Telling, Telling', NEW b \in BOOLEAN, Compare(b)
  PROVE  UNCHANGED Service!vars
<1>1. /\ main = "up" /\ qpc = "loop" /\ UNCHANGED <<videos, videoIndex, main>>
      /\ qpc' \in {"loop", "field"} /\ i + 1 \in Nat
  BY DEF Compare, Searching, registry, Types
<1>2. CASE ~b
  <2>1. UNCHANGED <<found, answer>>
    BY <1>2 DEF Compare
  <2>. QED  BY <1>1, <2>1, GoesOn
<1>3. CASE b
  <2>1. /\ qpc' = "field" /\ found' = Append(found, i + 1) /\ g' = 1
        /\ answer' = IF flag = 0 THEN Append(answer, <<"YES">>) ELSE answer
    BY <1>3 DEF Compare
  <2>2. M \in Nat /\ M' = M + 1 /\ \A n \in 1 .. M : found'[n] = found[n]
    BY <1>1, <2>1, Appended DEF M
  <2>3. answer \in Seq(Message) /\ answer' \in Seq(Message)
    BY DEF Types
  <2>4. CASE flag = 0
    <3>1. RowsIn(answer) = <<>> /\ M = 0
      <4>1. found = <<>>
        BY <1>1, <2>4 DEF Telling, Looping
      <4>. QED  BY <1>1, <2>4, <4>1, HowMany, EmptySeq DEF M
    <3>2. Len(answer') = 1
      <4>1. answer = <<>> /\ <<"YES">> \in Message
        BY <1>1, <2>4 DEF Telling, Looping, Message
      <4>. QED  BY <2>1, <2>4, <4>1, Appended, EmptySeq
    <3>3. RowsIn(answer') = <<>>
      <4>1. Len(answer') <= 4
        BY <3>2
      <4>. QED  BY <2>3, <4>1, NoneTold
    <3>4. LastTold(answer', found') = LastTold(answer, found)
      BY <3>1, <3>3 DEF LastTold
    <3>. QED  BY <1>1, <2>1, <3>1, <3>3, <3>4, GoesOn
  <2>5. CASE flag # 0
    <3>1. answer' = answer
      BY <2>1, <2>5
    <3>2. Whole(answer) = M /\ M \in Nat \ {0}
      BY <1>1, <2>5, HowMany
    <3>3. Len(RowsIn(answer)) = M
      BY <2>3, <3>2, ToldRows
    <3>4. found'[Len(RowsIn(answer))] = found[Len(RowsIn(answer))]
      BY <2>2, <3>2, <3>3
    <3>5. LastTold(answer', found') = LastTold(answer, found)
      BY <3>1, <3>4 DEF LastTold
    <3>. QED  BY <1>1, <2>1, <3>1, <3>5, GoesOn
  <2>. QED  BY <2>4, <2>5
<1>. QED  BY <1>2, <1>3

\* The fourth field ends a row: it is told whole, from a counted row after the last told.
LEMMA LastFieldTells ==
  ASSUME Types, Types', Telling, Telling', SendField, g = 4 PROVE Service!Tell
<1>1. /\ main = "up" /\ qpc = "field" /\ main' = "up" /\ qpc' = "loop" /\ i' = i + 1 /\ i \in Nat
      /\ UNCHANGED <<videos, videoIndex, flag, found>> /\ M' = M /\ M \in Nat
  BY Appended DEF SendField, Searching, registry, Types, M
<1>2. /\ flag = 2 /\ found[M] = i + 1 /\ (M >= 2 => found[M - 1] <= i)
      /\ \A h \in Fields : h < 4 => answer[4 * (M - 1) + 1 + h] = <<"field", videos[i + 1][h]>>
  BY <1>1 DEF Telling, Sending
<1>3. /\ Whole(answer) = M - 1 /\ Len(answer) = 4 * (M - 1) + 4 /\ Whole(answer') = M
      /\ M \in Nat \ {0} /\ answer \in Seq(Message) /\ answer' \in Seq(Message)
  <2>1. Whole(answer) = M - 1 /\ Len(answer) = 4 * (M - 1) + 4 /\ M \in Nat \ {0}
    BY <1>1, HowMany
  <2>2. Whole(answer') = M'
    <3>1. qpc' = "loop" /\ flag' # 0
      BY <1>1, <1>2
    <3>2. flag' = 2 /\ M' >= 1 /\ Len(answer') = 4 * M' + 1
      BY <3>1 DEF Telling, Looping
    <3>3. Len(answer') - 1 = 4 * M + 0 /\ (4 * M + 0) \div 4 = M
      BY <1>1, <3>2, Quarters
    <3>. QED  BY <1>1, <3>3 DEF Whole
  <2>. QED  BY <1>1, <2>1, <2>2 DEF Types
<1> DEFINE m == <<"field", videos[i + 1][4]>>
<1>4. /\ i + 1 \in 1 .. TableSize /\ i + 1 <= Cap(videoIndex) /\ videos[i + 1] \in Rows
      /\ m \in Message /\ answer' = Append(answer, m)
  BY <1>1, SentCell DEF SendField, Fields
<1>5. /\ Len(answer') = Len(answer) + 1 /\ answer'[Len(answer) + 1] = m
      /\ \A n \in 1 .. Len(answer) : answer'[n] = answer[n]
  BY <1>4, Appended
<1>6. \A h \in Fields : answer'[4 * M - 3 + h] = <<"field", videos[i + 1][h]>>
  <2>1. ASSUME NEW h \in Fields PROVE answer'[4 * M - 3 + h] = <<"field", videos[i + 1][h]>>
    <3>1. CASE h = 4
      <4>1. 4 * M - 3 + h = Len(answer) + 1
        BY <1>1, <1>3, <3>1
      <4>. QED  BY <1>5, <3>1, <4>1
    <3>2. CASE h # 4
      <4>1. h < 4 /\ 4 * M - 3 + h = 4 * (M - 1) + 1 + h /\ 4 * M - 3 + h \in 1 .. Len(answer)
        BY <1>1, <1>3, <3>2 DEF Fields
      <4>. QED  BY <1>2, <1>5, <4>1
    <3>. QED  BY <3>1, <3>2
  <2>. QED  BY <2>1
<1>. HIDE DEF m
<1>7. RowIn(answer', M) = videos[i + 1]
  <2>1. \A h \in Fields : Carried(answer'[4 * M - 3 + h]) = videos[i + 1][h]
    BY <1>6 DEF Carried
  <2>2. videos[i + 1] = [h \in Fields |-> videos[i + 1][h]]
    BY <1>4 DEF Rows
  <2>. QED  BY <2>1, <2>2 DEF RowIn
<1>8. RowsIn(answer') = Append(RowsIn(answer), videos[i + 1])
  <2>1. Len(answer) <= Len(answer') /\ Whole(answer) >= 0 /\ Whole(answer') = Whole(answer) + 1
    BY <1>1, <1>3, <1>5
  <2>2. RowsIn(answer') = Append(RowsIn(answer), RowIn(answer', Whole(answer')))
    BY <1>3, <1>5, <2>1, OneMoreRow
  <2>. QED  BY <1>3, <1>7, <2>2
<1>9. Len(RowsIn(answer)) = M - 1 /\ Len(RowsIn(answer')) = M /\ RowsIn(answer') # <<>>
  <2>1. Len(RowsIn(answer)) = M - 1 /\ Len(RowsIn(answer')) = M
    BY <1>1, <1>3, ToldRows
  <2>. QED  BY <1>3, <2>1, EmptySeq
<1>10. LastTold(answer', found') = i + 1
  BY <1>1, <1>2, <1>9 DEF LastTold
<1>11. LastTold(answer, found) \in Int /\ LastTold(answer, found) <= i
  <2>1. CASE RowsIn(answer) = <<>>
    BY <1>1, <2>1 DEF LastTold
  <2>2. CASE RowsIn(answer) # <<>>
    <3>1. M >= 2
      <4>1. RowsIn(answer) \in Seq(Rows)
        BY <1>3, ToldRows
      <4>. QED  BY <1>3, <1>9, <2>2, <4>1, EmptySeq
    <3>2. M - 1 \in 1 .. Len(found) /\ found \in Seq(Nat)
      BY <1>1, <3>1 DEF M, Types
    <3>3. found[M - 1] \in Nat
      BY <3>2, ElementOfSeq
    <3>. QED  BY <1>2, <1>9, <2>2, <3>1, <3>3 DEF LastTold
  <2>. QED  BY <2>1, <2>2
<1>12. /\ Shown(videos', videoIndex') = Shown(videos, videoIndex)
       /\ i + 1 \in LastTold(answer, found) + 1 .. Len(Shown(videos, videoIndex))
       /\ Shown(videos, videoIndex)[i + 1] = videos[i + 1]
  <2>1. videos \in [1 .. TableSize -> Rows] /\ videoIndex \in Nat
    BY DEF Types
  <2>2. /\ Len(Shown(videos, videoIndex)) = Cap(videoIndex) /\ Cap(videoIndex) \in Nat
        /\ \A n \in 1 .. Cap(videoIndex) : Shown(videos, videoIndex)[n] = videos[n]
    BY <2>1, ShownRows, RegistryAssumption DEF RegistryAssumption
  <2>3. i + 1 \in 1 .. Cap(videoIndex)
    BY <1>1, <1>4, <2>2
  <2>. QED  BY <1>1, <1>11, <2>2, <2>3
<1>13. Status = "searching" /\ Status' = "searching"
  BY <1>1 DEF Status
<1>. QED  BY <1>8, <1>10, <1>12, <1>13, Shows, ShowsNext DEF Service!Tell

LEMMA FieldServes ==
  ASSUME Types, Types', Telling, Telling', SendField PROVE [Service!Next]_(Service!vars)
<1>1. CASE g = 4
  BY <1>1, LastFieldTells DEF Service!Next
<1>2. CASE g # 4
  <2>1. /\ main = "up" /\ qpc = "field" /\ qpc' = "field" /\ g' = g + 1 /\ g \in 1 .. 3
        /\ UNCHANGED <<videos, videoIndex, main, found>> /\ M' = M /\ M \in Nat
    BY <1>2, Appended DEF SendField, Searching, registry, Types, Fields, M
  <2>2. Whole(answer) = M - 1 /\ Len(answer) = 4 * (M - 1) + g
    BY <2>1, HowMany
  <2>3. Whole(answer') = M - 1
    <3>1. Len(answer') = 4 * (M' - 1) + g'
      BY <2>1 DEF Telling, Sending
    <3>2. Len(answer') - 1 = 4 * (M - 1) + g /\ (4 * (M - 1) + g) \div 4 = M - 1
      BY <2>1, <3>1, Quarters
    <3>. QED  BY <3>2 DEF Whole
  <2>4. /\ answer \in Seq(Message) /\ answer' \in Seq(Message) /\ Len(answer) <= Len(answer')
        /\ \A n \in 1 .. Len(answer) : answer'[n] = answer[n]
    <3>1. <<"field", videos[i + 1][g]>> \in Message
      BY <2>1, SentCell DEF Types
    <3>. QED  BY <3>1, Appended DEF SendField, Types
  <2>5. RowsIn(answer') = RowsIn(answer)
    BY <2>2, <2>3, <2>4, SameRows
  <2>6. LastTold(answer', found') = LastTold(answer, found)
    BY <2>1, <2>5 DEF LastTold
  <2>. QED  BY <2>1, <2>5, <2>6, GoesOn
<1>. QED  BY <1>1, <1>2

LEMMA FinishServes == ASSUME Types, Types', Telling, Telling', Finish PROVE Service!End
<1>1. /\ main = "up" /\ qpc = "loop" /\ main' = "up" /\ qpc' = "recv"
      /\ UNCHANGED <<videos, videoIndex, found>>
  BY DEF Finish, Searching, registry
<1> DEFINE m == IF flag = 0 THEN <<"NOT FOUND">> ELSE <<"END">>
<1>2. answer' = Append(answer, m)
  BY DEF Finish
<1>3. m \in Message /\ answer \in Seq(Message) /\ answer' \in Seq(Message)
  <2>1. m \in Message
    BY DEF Message
  <2>. QED  BY <2>1 DEF Types
<1>. HIDE DEF m
<1>4. /\ Len(answer) \in Nat /\ Len(answer') = Len(answer) + 1
      /\ \A n \in 1 .. Len(answer) : answer'[n] = answer[n]
  BY <1>2, <1>3, Appended
<1>5. Status = "searching" /\ Status' = m[1]
  <2>1. answer'[Len(answer')] = m
    BY <1>2, <1>3, Appended
  <2>2. answer' # <<>>
    <3>1. Len(answer') # 0
      BY <1>4
    <3>. QED  BY <3>1, EmptySeq
  <2>. QED  BY <1>1, <2>1, <2>2 DEF Status, Last
<1>6. RowsIn(answer') = RowsIn(answer) /\ (RowsIn(answer) = <<>> <=> flag = 0)
  <2>1. CASE flag = 0
    <3>1. RowsIn(answer) = <<>>
      BY <1>1, <2>1, HowMany
    <3>2. Len(answer') = 1
      <4>1. answer = <<>>
        BY <1>1, <2>1 DEF Telling, Looping
      <4>. QED  BY <1>4, <4>1, EmptySeq
    <3>3. RowsIn(answer') = <<>>
      <4>1. Len(answer') <= 4
        BY <3>2
      <4>. QED  BY <1>3, <4>1, NoneTold
    <3>. QED  BY <2>1, <3>1, <3>3
  <2>2. CASE flag # 0
    <3>1. Whole(answer) = M /\ Len(answer) = 4 * M + 1 /\ M \in Nat \ {0}
      BY <1>1, <2>2, HowMany
    <3>2. Whole(answer') = M
      <4>1. Len(answer') - 1 = 4 * M + 1 /\ (4 * M + 1) \div 4 = M
        BY <1>4, <3>1, Quarters
      <4>. QED  BY <4>1 DEF Whole
    <3>3. Len(answer) <= Len(answer')
      BY <1>4
    <3>4. RowsIn(answer') = RowsIn(answer)
      BY <1>3, <1>4, <3>1, <3>2, <3>3, SameRows
    <3>5. Len(RowsIn(answer)) = M
      BY <1>3, <3>1, ToldRows
    <3>6. RowsIn(answer) # <<>>
      BY <3>1, <3>5, EmptySeq
    <3>. QED  BY <2>2, <3>4, <3>6
  <2>. QED  BY <2>1, <2>2
<1>7. LastTold(answer', found') = LastTold(answer, found)
  BY <1>1, <1>6 DEF LastTold
<1>8. Status' = IF RowsIn(answer) = <<>> THEN "NOT FOUND" ELSE "END"
  <2>1. <<"NOT FOUND">>[1] = "NOT FOUND" /\ <<"END">>[1] = "END"
    OBVIOUS
  <2>2. CASE flag = 0
    BY <1>5, <1>6, <2>1, <2>2 DEF m
  <2>3. CASE flag # 0
    BY <1>5, <1>6, <2>1, <2>3 DEF m
  <2>. QED  BY <2>2, <2>3
<1>9. Shown(videos', videoIndex') = Shown(videos, videoIndex)
  BY <1>1
<1>. QED  BY <1>5, <1>6, <1>7, <1>8, <1>9, Shows, ShowsNext DEF Service!End

LEMMA NextServes == RegistryInv /\ [Next]_vars => [Service!Next]_(Service!vars)
<1> SUFFICES ASSUME Types, Telling, Types', Telling', [Next]_vars
             PROVE  [Service!Next]_(Service!vars)
  BY NextInv DEF RegistryInv
<1>1. CASE UNCHANGED vars
  BY <1>1, Unseen DEF vars, registry
<1>2. ASSUME NEW s \in Started, Announce(s) \/ AcceptFails(s) PROVE UNCHANGED Service!vars
  <2>1. UNCHANGED <<registry, search, main>>
    BY <1>2 DEF Announce, Open, Send, FileEnds, AcceptFails
  <2>. QED  BY <2>1, Unseen DEF registry
<1>3. ASSUME NEW v \in Viewers, Stream(v) PROVE UNCHANGED Service!vars
  BY <1>3, StreamFrame, Unseen DEF registry
<1>4. CASE Answer
  <2>1. CASE Abort \/ ReadPast
    BY <2>1, Stops DEF Abort, ReadPast, Searching, registry, Service!Next
  <2>2. CASE Finish
    BY <2>2, FinishServes DEF Service!Next
  <2>. QED  BY <1>4, <2>1, <2>2, CompareServes, FieldServes DEF Answer
<1>5. CASE ReceiveQuery
  BY <1>5, QueryServes DEF Service!Next
<1>. QED  BY <1>1, <1>2, <1>3, <1>4, <1>5, RegisterServes DEF Next

\* The two threads of the main server share the table and its index with no lock, and
\* yet they serve searches as SearchService says: a row that was counted never changes,
\* and a search tells rows whole, each at most once, in the order of the table, and its
\* end (mainserver.c:124-233, 235-314).  That it comes to its end is left to the run.
THEOREM ServesSearches == Spec => Service!Init /\ [][Service!Next]_(Service!vars)
<1>. QED  BY AlwaysInv, InitService, NextServes, PTL DEF Spec

-----------------------------------------------------------------------------
(* The order of the table.  A line of a sender is in the table before those*)
(* that wait, these before those it has still to send; while none was lost *)
(* a line that it sent is in one of the two.                               *)

Follows(a, b, s) == a < b \/ (a = b /\ b = Len(files[s]))

\* The next field is written here; what is behind it was never written.
NextRow == IF rpc = "publish" THEN videoIndex + 2 ELSE videoIndex + 1

Announcing ==
  /\ k \in [Subservers -> Fields] /\ lost \in Nat
  /\ \A s \in Started :
       /\ line[s] \in 0 .. Len(files[s])
       /\ k[s] # 1 => line[s] # 0
       /\ line[s] < Len(files[s]) => line[s] % 4 = k[s] - 1

Waiting ==
  /\ \A w \in 1 .. Len(wire) : wire[w].from \in Started /\ wire[w].line \in 1 .. line[wire[w].from]
  /\ \A w, x \in 1 .. Len(wire) :
       w < x /\ wire[w].from = wire[x].from => Follows(wire[w].line, wire[x].line, wire[w].from)

Entered ==
  /\ rpc = "publish" => f = 1
  /\ \A n \in 1 .. TableSize, h \in Fields : videos[n][h] # Empty =>
       /\ Before(n, h, NextRow, f)
       /\ videos[n][h].from \in Started /\ videos[n][h].line \in 1 .. line[videos[n][h].from]
       /\ files[videos[n][h].from][videos[n][h].line] # "blank"
  /\ \A s \in Started, n, m \in 1 .. TableSize, h, j \in Fields :
       Holds(s, m, h) /\ Holds(s, n, j) /\ Before(m, h, n, j) =>
         Follows(videos[m][h].line, videos[n][j].line, s)
  /\ \A s \in Started, n \in 1 .. TableSize, h \in Fields, w \in 1 .. Len(wire) :
       Holds(s, n, h) /\ wire[w].from = s => Follows(videos[n][h].line, wire[w].line, s)

InTable(s, l) == \E n \in 1 .. TableSize, h \in Fields : Holds(s, n, h) /\ videos[n][h].line = l
OnWire(s, l)  == \E w \in 1 .. Len(wire) : wire[w] = [from |-> s, line |-> l]
Present ==
  lost = 0 => \A s \in Started : \A l \in 1 .. line[s] :
    files[s][l] # "blank" => InTable(s, l) \/ OnWire(s, l)

InOrder == Announcing /\ Waiting /\ Entered /\ Present

LEMMA Files == ASSUME Types, NEW s \in Started PROVE s \in Subservers /\ Len(files[s]) \in Nat
<1>1. files \in Contents /\ s \in DOMAIN files
  BY DEF Types, Started
<1>2. s \in Subservers /\ files[s] \in Seq(Kinds)
  BY <1>1, RegistryAssumption DEF RegistryAssumption
<1>. QED  BY <1>2, LenProperties

LEMMA OrderStarts == ASSUME Init, Types PROVE InOrder
<1>1. k \in [Subservers -> Fields] /\ lost = 0 /\ Len(wire) = 0 /\ rpc = "open"
  BY EmptySeq DEF Init, Fields
<1>2. \A s \in Started : s \in Subservers /\ Len(files[s]) \in Nat /\ line[s] = 0 /\ k[s] = 1
  BY Files DEF Init
<1>3. \A n \in 1 .. TableSize, h \in Fields : videos[n][h] = Empty
  BY DEF Init
<1>4. 0 % 4 = 0
  OBVIOUS
<1>5. Announcing
  BY <1>1, <1>2, <1>4 DEF Announcing
<1>6. Waiting /\ Present
  BY <1>1, <1>2 DEF Waiting, Present
<1>7. Entered
  BY <1>1, <1>3 DEF Entered, Holds
<1>. QED  BY <1>5, <1>6, <1>7 DEF InOrder

\* What a step of a sender does.
LEMMA OneLine ==
  ASSUME Types, Announcing, NEW s \in Started, NEW b \in BOOLEAN, Send(s, b)
  PROVE  LET l == Sendline(s) IN
         /\ l \in 1 .. Len(files[s]) /\ l \in Nat /\ line[s] <= l /\ (line[s] = l => l = Len(files[s]))
         /\ (l = line[s] \/ l = line[s] + 1)
         /\ line' = [line EXCEPT ![s] = l] /\ k' = [k EXCEPT ![s] = (k[s] % 4) + 1]
         /\ UNCHANGED <<files, rpc, f, videos, videoIndex>>
         /\ \/ wire' = Append(wire, [from |-> s, line |-> l]) /\ lost' = lost
            \/ wire' = wire /\ lost' = lost + 1
<1>1. line[s] \in 0 .. Len(files[s]) /\ Len(files[s]) \in Nat /\ (k[s] # 1 => line[s] # 0)
  BY Files DEF Announcing
<1>2. ~ (k[s] = 1 /\ line[s] = Len(files[s]))
  BY DEF Send, AtEnd
<1>3. Sendline(s) = IF line[s] = Len(files[s]) THEN line[s] ELSE line[s] + 1
  BY DEF Sendline, AtEnd
<1>4. /\ line' = [line EXCEPT ![s] = Sendline(s)] /\ k' = [k EXCEPT ![s] = (k[s] % 4) + 1]
      /\ UNCHANGED <<files, rpc, f, videos, videoIndex>>
  BY DEF Send, registry
<1>5. \/ wire' = Append(wire, [from |-> s, line |-> Sendline(s)]) /\ lost' = lost
      \/ wire' = wire /\ lost' = lost + 1
  BY DEF Send, Deliver
<1>6. /\ Sendline(s) \in 1 .. Len(files[s]) /\ Sendline(s) \in Nat /\ line[s] <= Sendline(s)
      /\ (line[s] = Sendline(s) => Sendline(s) = Len(files[s]))
      /\ (Sendline(s) = line[s] \/ Sendline(s) = line[s] + 1)
  BY <1>1, <1>2, <1>3
<1>. QED  BY <1>4, <1>5, <1>6

LEMMA SendKeepsAnnouncing ==
  ASSUME Types, Announcing, NEW s \in Started, NEW b \in BOOLEAN, Send(s, b)
  PROVE  Announcing'
<1> DEFINE l == Sendline(s)
<1>1. /\ l \in 1 .. Len(files[s]) /\ line' = [line EXCEPT ![s] = l]
      /\ (l = line[s] \/ l = line[s] + 1) /\ line[s] <= l /\ (line[s] = l => l = Len(files[s]))
      /\ k' = [k EXCEPT ![s] = (k[s] % 4) + 1] /\ files' = files /\ (lost' = lost \/ lost' = lost + 1)
  BY OneLine
<1>. HIDE DEF l
<1>2. s \in Subservers /\ Len(files[s]) \in Nat /\ k[s] \in 1 .. 4 /\ line \in [Subservers -> Nat]
  BY Files DEF Announcing, Fields, Types
<1>3. (k[s] % 4) + 1 \in Fields
  BY <1>2 DEF Fields
<1>4. k' \in [Subservers -> Fields] /\ lost' \in Nat
  <2>1. k \in [Subservers -> Fields] /\ lost \in Nat
    BY DEF Announcing
  <2> DEFINE to == (k[s] % 4) + 1
  <2>2. to \in Fields /\ k' = [k EXCEPT ![s] = to]
    BY <1>1, <1>3
  <2>. HIDE DEF to
  <2>3. k' \in [Subservers -> Fields]
    BY <2>1, <2>2
  <2>4. lost' \in Nat
    BY <1>1, <2>1
  <2>. QED  BY <2>3, <2>4
<1>5. ASSUME NEW t \in Started
      PROVE  /\ line'[t] \in 0 .. Len(files[t]) /\ (k'[t] # 1 => line'[t] # 0)
             /\ line'[t] < Len(files[t]) => line'[t] % 4 = k'[t] - 1
  <2>1. CASE t # s
    BY <1>1, <1>2, <2>1, Files DEF Announcing, Types
  <2>2. CASE t = s
    <3>1. line'[t] = l /\ k'[t] = (k[s] % 4) + 1 /\ l \in 1 .. Len(files[t])
      BY <1>1, <1>2, <2>2 DEF Announcing
    <3>2. ASSUME l < Len(files[t]) PROVE l % 4 = k[s] % 4
      <4>1. l = line[s] + 1 /\ line[s] < Len(files[s]) /\ line[s] \in Nat
        BY <1>1, <1>2, <2>2, <3>2
      <4>2. line[s] % 4 = k[s] - 1
        BY <4>1 DEF Announcing
      <4>. HIDE DEF l
      <4>. QED  BY <1>2, <4>1, <4>2
    <3>3. k[s] % 4 \in Int
      BY <1>2
    <3>. QED  BY <1>2, <2>2, <3>1, <3>2, <3>3
  <2>. QED  BY <2>1, <2>2
<1>. QED  BY <1>1, <1>4, <1>5 DEF Announcing, Started

LEMMA SendKeepsOrder ==
  ASSUME Types, InOrder, NEW s \in Started, NEW b \in BOOLEAN, Send(s, b)
  PROVE  Waiting' /\ Entered' /\ Present'
<1> USE DEF InOrder
<1> DEFINE l == Sendline(s)
           d == [from |-> s, line |-> l]
<1>1. /\ l \in 1 .. Len(files[s]) /\ l \in Nat /\ line[s] <= l /\ (line[s] = l => l = Len(files[s]))
      /\ (l = line[s] \/ l = line[s] + 1)
      /\ line' = [line EXCEPT ![s] = l]
      /\ UNCHANGED <<files, rpc, f, videos, videoIndex>>
      /\ \/ wire' = Append(wire, d) /\ lost' = lost
         \/ wire' = wire /\ lost' = lost + 1
  BY OneLine
<1>2. s \in Subservers /\ line \in [Subservers -> Nat] /\ wire \in Seq(Datagram) /\ lost \in Nat
  BY Files DEF Types, Announcing
<1>3. d \in Datagram
  BY <1>1, <1>2 DEF Datagram
<1>4. d.from = s /\ d.line = l
  OBVIOUS
<1>. HIDE DEF l, d
<1>5. \A t \in Started : t \in Subservers /\ line'[t] \in Nat /\ line[t] \in Nat /\ line[t] <= line'[t]
  BY <1>1, <1>2, Files
<1>6. \A a \in 1 .. line[s] : Follows(a, l, s)
  BY <1>1, <1>5 DEF Follows
<1>7. /\ Len(wire) \in Nat /\ Len(wire') \in Nat
      /\ \A w \in 1 .. Len(wire) : w \in 1 .. Len(wire') /\ wire'[w] = wire[w]
      /\ \A w \in 1 .. Len(wire') :
           (w \in 1 .. Len(wire) /\ wire'[w] = wire[w]) \/ (w = Len(wire) + 1 /\ wire'[w] = d)
  <2>1. CASE wire' = wire
    BY <1>2, <2>1, LenProperties
  <2>2. CASE wire' = Append(wire, d)
    <3>1. /\ Len(wire) \in Nat /\ Len(wire') = Len(wire) + 1 /\ wire'[Len(wire) + 1] = d
          /\ \A w \in 1 .. Len(wire) : wire'[w] = wire[w]
      BY <1>2, <1>3, <2>2, AppendProperties, LenProperties
    <3>. QED  BY <3>1
  <2>. QED  BY <1>1, <2>1, <2>2
<1>8. \A a, c, t : Follows(a, c, t)' <=> Follows(a, c, t)
  BY <1>1 DEF Follows
<1>9. /\ \A t, n, h : Holds(t, n, h)' <=> Holds(t, n, h)
      /\ NextRow' = NextRow /\ Started' = Started
  BY <1>1 DEF Holds, NextRow, Started
<1>10. Waiting'
  <2>1. ASSUME NEW w \in 1 .. Len(wire')
        PROVE  wire'[w].from \in Started /\ wire'[w].line \in 1 .. line'[wire'[w].from]
    <3>1. CASE w \in 1 .. Len(wire) /\ wire'[w] = wire[w]
      <4>1. wire[w].from \in Started /\ wire[w].line \in 1 .. line[wire[w].from]
        BY <3>1 DEF Waiting
      <4>. QED  BY <1>5, <3>1, <4>1
    <3>2. CASE wire'[w] = d
      BY <1>1, <1>2, <1>4, <3>2
    <3>. QED  BY <1>7, <3>1, <3>2
  <2>2. ASSUME NEW w \in 1 .. Len(wire'), NEW x \in 1 .. Len(wire'), w < x, wire'[w].from = wire'[x].from
        PROVE  Follows(wire'[w].line, wire'[x].line, wire'[w].from)
    <3>1. w \in 1 .. Len(wire) /\ wire'[w] = wire[w]
      BY <1>7, <2>2
    <3>2. CASE x \in 1 .. Len(wire) /\ wire'[x] = wire[x]
      BY <2>2, <3>1, <3>2 DEF Waiting
    <3>3. CASE wire'[x] = d
      <4>1. wire[w].from = s
        BY <1>4, <2>2, <3>1, <3>3
      <4>2. wire[w].line \in 1 .. line[s]
        BY <3>1, <4>1 DEF Waiting
      <4>. QED  BY <1>4, <1>6, <3>1, <3>3, <4>1, <4>2
    <3>. QED  BY <1>7, <3>2, <3>3
  <2>. QED  BY <1>8, <1>9, <2>1, <2>2 DEF Waiting
<1>11. Entered'
  <2>1. ASSUME NEW n \in 1 .. TableSize, NEW h \in Fields, videos[n][h] # Empty
        PROVE  /\ Before(n, h, NextRow, f)
               /\ videos[n][h].from \in Started /\ videos[n][h].line \in 1 .. line'[videos[n][h].from]
               /\ files[videos[n][h].from][videos[n][h].line] # "blank"
    <3>1. /\ Before(n, h, NextRow, f)
          /\ videos[n][h].from \in Started /\ videos[n][h].line \in 1 .. line[videos[n][h].from]
          /\ files[videos[n][h].from][videos[n][h].line] # "blank"
      BY <2>1 DEF Entered
    <3>. QED  BY <1>5, <3>1
  <2>2. ASSUME NEW t \in Started, NEW n \in 1 .. TableSize, NEW h \in Fields, NEW w \in 1 .. Len(wire'),
               Holds(t, n, h), wire'[w].from = t
        PROVE  Follows(videos[n][h].line, wire'[w].line, t)
    <3>1. CASE w \in 1 .. Len(wire) /\ wire'[w] = wire[w]
      BY <2>2, <3>1 DEF Entered
    <3>2. CASE wire'[w] = d
      <4>1. t = s /\ videos[n][h].line \in 1 .. line[s]
        BY <1>4, <2>2, <3>2 DEF Entered, Holds
      <4>. QED  BY <1>4, <1>6, <3>2, <4>1
    <3>. QED  BY <1>7, <3>1, <3>2
  <2>3. \A t \in Started, n, m \in 1 .. TableSize, h, j \in Fields :
          Holds(t, m, h) /\ Holds(t, n, j) /\ Before(m, h, n, j) =>
            Follows(videos[m][h].line, videos[n][j].line, t)
    BY DEF Entered
  <2>4. rpc = "publish" => f = 1
    BY DEF Entered
  <2>5. \A m, n, h, j : Before(m, h, n, j)' <=> Before(m, h, n, j)
    BY DEF Before
  <2>. QED  BY <1>1, <1>8, <1>9, <2>1, <2>2, <2>3, <2>4, <2>5 DEF Entered, Before
<1>12. Present'
  <2> SUFFICES ASSUME lost' = 0, NEW t \in Started, NEW a \in 1 .. line'[t], files[t][a] # "blank"
               PROVE  InTable(t, a) \/ OnWire(t, a)'
    BY <1>1, <1>9 DEF Present, InTable
  <2>1. lost = 0 /\ wire' = Append(wire, d)
    BY <1>1, <1>2
  <2>2. CASE a \in 1 .. line[t]
    <3>1. InTable(t, a) \/ OnWire(t, a)
      BY <2>1, <2>2 DEF Present
    <3>2. OnWire(t, a) => OnWire(t, a)'
      BY <1>7 DEF OnWire
    <3>. QED  BY <3>1, <3>2
  <2>3. CASE a \notin 1 .. line[t]
    <3>1. t = s /\ a = l
      BY <1>1, <1>2, <1>5, <2>3
    <3>2. wire'[Len(wire) + 1] = d /\ Len(wire) + 1 \in 1 .. Len(wire')
      <4>1. Len(wire') = Len(wire) + 1 /\ wire'[Len(wire) + 1] = d
        BY <1>2, <1>3, <2>1, AppendProperties
      <4>. QED  BY <1>7, <4>1
    <3>. QED  BY <3>1, <3>2 DEF OnWire, d
  <2>. QED  BY <2>2, <2>3
<1>. QED  BY <1>10, <1>11, <1>12

LEMMA ReceiveKeepsOrder == ASSUME Types, InOrder, ReceiveField PROVE InOrder'
<1> USE DEF InOrder
<1> DEFINE d == Head(wire)
<1>1. /\ UNCHANGED <<files, line, k, lost, videoIndex>> /\ rpc = "recv" /\ wire # <<>> /\ wire' = Tail(wire)
      /\ f' = (f % 4) + 1 /\ rpc' = (IF f = 4 THEN "publish" ELSE "recv")
      /\ Row <= TableSize \/ ~ Stores(d)
      /\ IF Stores(d) THEN videos' = [videos EXCEPT ![Row][f] = Stored(d)] ELSE videos' = videos
  BY DEF ReceiveField, At, NextField, subserver
<1>2. /\ wire \in Seq(Datagram) /\ f \in 1 .. 4 /\ videoIndex \in Nat /\ lost \in Nat /\ TableSize \in Nat
      /\ videos \in [1 .. TableSize -> Rows] /\ Row = videoIndex + 1
  BY RegistryAssumption DEF RegistryAssumption, Types, Fields, Announcing, Row
<1>3. /\ Len(wire) \in Nat /\ 1 \in 1 .. Len(wire) /\ d = wire[1] /\ d \in Datagram /\ Len(wire') \in Nat
      /\ \A w \in 1 .. Len(wire') : w + 1 \in 1 .. Len(wire) /\ wire'[w] = wire[w + 1]
      /\ \A w \in 1 .. Len(wire) : w # 1 => w - 1 \in 1 .. Len(wire') /\ wire'[w - 1] = wire[w]
  <2>1. /\ wire' \in Seq(Datagram) /\ Len(wire') = Len(wire) - 1 /\ d = wire[1] /\ Len(wire) \in Nat
        /\ \A w \in 1 .. Len(wire') : wire'[w] = wire[w + 1] /\ Len(wire) # 0
    BY <1>1, <1>2, HeadTailProperties, LenProperties, EmptySeq
  <2>2. Len(wire) # 0 /\ d \in Datagram
    BY <1>1, <1>2, HeadTailProperties, EmptySeq
  <2>. HIDE DEF d
  <2>. QED  BY <2>1, <2>2
<1>. HIDE DEF d
<1>4. d.from \in Started /\ d.line \in 1 .. line[d.from] /\ Started' = Started /\ \A s \in Started : line[s] \in Nat
  BY <1>1, <1>3, Files DEF Waiting, Started, Types
<1>5. \A a, c, t : Follows(a, c, t)' <=> Follows(a, c, t)
  BY <1>1 DEF Follows
<1>6. NextRow = Row /\ Before(Row, f, NextRow', f') /\ (rpc' = "publish" => f' = 1)
      /\ \A n \in 1 .. TableSize, h \in Fields : Before(n, h, Row, f) => Before(n, h, NextRow', f')
  <2>1. CASE f = 4
    BY <1>1, <1>2, <2>1 DEF NextRow, Before, Fields
  <2>2. CASE f # 4
    <3>0. \A x \in 1 .. 4 : x # 4 => (x % 4) + 1 = x + 1
      OBVIOUS
    <3>1. f' = f + 1 /\ rpc' = "recv"
      BY <1>1, <1>2, <2>2, <3>0
    <3>. QED  BY <1>1, <1>2, <3>1 DEF NextRow, Before, Fields
  <2>. QED  BY <2>1, <2>2
<1>7. /\ \A n \in 1 .. TableSize, h \in Fields : videos[n][h] # Empty =>
           Before(n, h, Row, f) /\ videos'[n][h] = videos[n][h]
      /\ \A n \in 1 .. TableSize, h \in Fields : videos'[n][h] # Empty =>
           \/ videos[n][h] # Empty /\ videos'[n][h] = videos[n][h]
           \/ n = Row /\ h = f /\ Stores(d) /\ videos'[n][h] = Stored(d)
  <2>1. \A n \in 1 .. TableSize, h \in Fields : videos[n][h] # Empty => Before(n, h, Row, f)
    BY <1>6 DEF Entered
  <2>2. \A n \in 1 .. TableSize, h \in Fields :
          videos'[n][h] = videos[n][h] \/ (n = Row /\ h = f /\ Stores(d) /\ videos'[n][h] = Stored(d))
    <3>1. CASE ~ Stores(d)
      BY <1>1, <3>1
    <3>2. CASE Stores(d)
      <4>1. Row \in 1 .. TableSize /\ videos[Row] \in Rows /\ f \in Fields
        BY <1>1, <1>2, <3>2 DEF Fields
      <4>. QED  BY <1>1, <1>2, <3>2, <4>1 DEF Rows
    <3>. QED  BY <3>1, <3>2
  <2>3. ~ Before(Row, f, Row, f)
    BY <1>2 DEF Before
  <2>. QED  BY <2>1, <2>2, <2>3
<1>8. Stored(d).from = d.from /\ Stored(d).line = d.line /\ Stored(d) # Empty
  BY DEF Stored, Empty
<1>9. \A w \in 1 .. Len(wire) : w # 1 /\ wire[w].from = d.from => Follows(d.line, wire[w].line, d.from)
  BY <1>3 DEF Waiting
<1>10. Announcing'
  BY <1>1 DEF Announcing, Started
<1>11. Waiting'
  <2>1. ASSUME NEW w \in 1 .. Len(wire')
        PROVE  wire'[w].from \in Started /\ wire'[w].line \in 1 .. line[wire'[w].from]
    BY <1>3 DEF Waiting
  <2>2. ASSUME NEW w \in 1 .. Len(wire'), NEW x \in 1 .. Len(wire'), w < x, wire'[w].from = wire'[x].from
        PROVE  Follows(wire'[w].line, wire'[x].line, wire'[w].from)
    <3>1. w + 1 \in 1 .. Len(wire) /\ x + 1 \in 1 .. Len(wire) /\ w + 1 < x + 1
      BY <1>3, <2>2
    <3>. QED  BY <1>3, <2>2, <3>1 DEF Waiting
  <2>. QED  BY <1>1, <1>4, <1>5, <2>1, <2>2 DEF Waiting
<1>12. Entered'
  <2>1. ASSUME NEW n \in 1 .. TableSize, NEW h \in Fields, videos'[n][h] # Empty
        PROVE  /\ Before(n, h, NextRow', f')
               /\ videos'[n][h].from \in Started /\ videos'[n][h].line \in 1 .. line[videos'[n][h].from]
               /\ files[videos'[n][h].from][videos'[n][h].line] # "blank"
    <3>1. CASE videos[n][h] # Empty /\ videos'[n][h] = videos[n][h]
      BY <1>6, <3>1 DEF Entered
    <3>2. CASE n = Row /\ h = f /\ Stores(d) /\ videos'[n][h] = Stored(d)
      BY <1>4, <1>6, <1>8, <3>2 DEF Stores
    <3>. QED  BY <1>7, <2>1, <3>1, <3>2
  <2>2. ASSUME NEW s \in Started, NEW n \in 1 .. TableSize, NEW h \in Fields, Holds(s, n, h)'
        PROVE  \/ Holds(s, n, h) /\ videos'[n][h] = videos[n][h] /\ Before(n, h, Row, f)
               \/ n = Row /\ h = f /\ s = d.from /\ videos'[n][h].line = d.line
    BY <1>7, <1>8, <2>2 DEF Holds
  <2>3. ASSUME NEW s \in Started, NEW n \in 1 .. TableSize, NEW m \in 1 .. TableSize,
               NEW h \in Fields, NEW j \in Fields,
               Holds(s, m, h)', Holds(s, n, j)', Before(m, h, n, j)
        PROVE  Follows(videos'[m][h].line, videos'[n][j].line, s)
    <3>1. CASE m = Row /\ h = f
      <4>1. ~ Before(n, j, Row, f) /\ (n # Row \/ j # f)
        BY <1>2, <2>3, <3>1 DEF Before, Fields
      <4>. QED  BY <2>2, <2>3, <4>1
    <3>2. CASE Holds(s, m, h) /\ videos'[m][h] = videos[m][h]
      <4>1. CASE Holds(s, n, j) /\ videos'[n][j] = videos[n][j]
        BY <2>3, <3>2, <4>1 DEF Entered
      <4>2. CASE n = Row /\ j = f /\ s = d.from /\ videos'[n][j].line = d.line
        BY <1>3, <3>2, <4>2 DEF Entered
      <4>. QED  BY <2>2, <2>3, <4>1, <4>2
    <3>. QED  BY <2>2, <2>3, <3>1, <3>2
  <2>4. ASSUME NEW s \in Started, NEW n \in 1 .. TableSize, NEW h \in Fields, NEW w \in 1 .. Len(wire'),
               Holds(s, n, h)', wire'[w].from = s
        PROVE  Follows(videos'[n][h].line, wire'[w].line, s)
    <3>1. w + 1 \in 1 .. Len(wire) /\ w + 1 # 1 /\ wire'[w] = wire[w + 1]
      BY <1>3
    <3>2. CASE Holds(s, n, h) /\ videos'[n][h] = videos[n][h]
      BY <2>4, <3>1, <3>2 DEF Entered
    <3>3. CASE n = Row /\ h = f /\ s = d.from /\ videos'[n][h].line = d.line
      BY <1>9, <2>4, <3>1, <3>3
    <3>. QED  BY <2>2, <2>4, <3>2, <3>3
  <2>5. \A m, n, h, j : Before(m, h, n, j)' <=> Before(m, h, n, j)
    BY DEF Before
  <2>. QED  BY <1>1, <1>4, <1>5, <1>6, <2>1, <2>3, <2>4, <2>5 DEF Entered, Before
<1>13. Present'
  <2> SUFFICES ASSUME lost = 0, NEW s \in Started, NEW a \in 1 .. line[s], files[s][a] # "blank"
               PROVE  InTable(s, a)' \/ OnWire(s, a)'
    BY <1>1, <1>4 DEF Present
  <2>1. CASE InTable(s, a)
    <3>1. PICK n \in 1 .. TableSize, h \in Fields : Holds(s, n, h) /\ videos[n][h].line = a
      BY <2>1 DEF InTable
    <3>2. videos'[n][h] = videos[n][h]
      BY <1>7, <3>1 DEF Holds
    <3>. QED  BY <3>1, <3>2 DEF InTable, Holds
  <2>2. CASE OnWire(s, a)
    <3>1. PICK w \in 1 .. Len(wire) : wire[w] = [from |-> s, line |-> a]
      BY <2>2 DEF OnWire
    <3>2. CASE w # 1
      BY <1>3, <3>1, <3>2 DEF OnWire
    <3>3. CASE w = 1
      <4>1. d.from = s /\ d.line = a /\ Stores(d)
        BY <1>3, <3>1, <3>3 DEF Stores
      <4>2. Row \in 1 .. TableSize /\ f \in Fields /\ videos[Row] \in Rows
        BY <1>1, <1>2, <4>1 DEF Fields
      <4>3. videos'[Row][f] = Stored(d)
        BY <1>1, <1>2, <4>1, <4>2 DEF Rows
      <4>. QED  BY <1>8, <4>1, <4>2, <4>3 DEF InTable, Holds
    <3>. QED  BY <3>2, <3>3
  <2>. QED  BY <2>1, <2>2 DEF Present
<1>. QED  BY <1>10, <1>11, <1>12, <1>13

\* Every other step leaves lines, datagrams and table alone, and the place of the next field.
LEMMA OtherSteps ==
  ASSUME Types, [Next]_vars
  PROVE  \/ ReceiveField \/ \E s \in Started, b \in BOOLEAN : Send(s, b)
         \/ /\ UNCHANGED <<files, line, k, wire, lost, videos, f>>
            /\ NextRow' = NextRow /\ (rpc' = "publish" => rpc = "publish")
<1> DEFINE Still == /\ UNCHANGED <<files, line, k, wire, lost, videos, f>>
                    /\ NextRow' = NextRow /\ (rpc' = "publish" => rpc = "publish")
<1>1. CASE UNCHANGED vars
  BY <1>1 DEF vars, subserver, registry, NextRow
<1>2. ASSUME NEW s \in Started, Announce(s) \/ AcceptFails(s)
      PROVE  Still \/ \E b \in BOOLEAN : Send(s, b)
  BY <1>2 DEF Announce, Open, FileEnds, AcceptFails, registry, NextRow
<1>3. ASSUME NEW v \in Viewers, Stream(v) PROVE Still
  BY <1>3 DEF Stream, Accept, ReadNoByte, ReadName, ViewerLeaves, WriteToGone, SetViewer, registry, NextRow
<1>4. CASE (\E ok \in BOOLEAN : OpenFile(ok)) \/ Overrun \/ CloseFile
  BY <1>4 DEF OpenFile, Overrun, CloseFile, At, subserver, registry, NextRow
<1>5. CASE Publish
  <2>1. UNCHANGED <<files, line, k, wire, lost, videos, f>> /\ rpc = "publish" /\ rpc' = "close"
        /\ videoIndex' = videoIndex + 1 /\ videoIndex \in Nat
    BY <1>5 DEF Publish, At, subserver, Types
  <2>. QED  BY <2>1 DEF NextRow
<1>6. CASE ReceiveQuery \/ Answer
  BY <1>6 DEF ReceiveQuery, Answer, Compare, Abort, ReadPast, SendField, Finish, subserver, registry, NextRow
<1>. QED  BY <1>1, <1>2, <1>3, <1>4, <1>5, <1>6 DEF Next, Register

LEMMA StillInOrder ==
  ASSUME InOrder, UNCHANGED <<files, line, k, wire, lost, videos, f>>, NextRow' = NextRow,
         rpc' = "publish" => rpc = "publish"
  PROVE  InOrder'
<1>1. Announcing' /\ Waiting' /\ Present'
  BY DEF InOrder, Announcing, Waiting, Present, Started, Follows, InTable, OnWire, Holds
<1>2. Entered'
  BY DEF InOrder, Entered, Started, Follows, Holds, Before
<1>. QED  BY <1>1, <1>2 DEF InOrder

LEMMA NextInOrder == Types /\ InOrder /\ [Next]_vars => InOrder'
<1> SUFFICES ASSUME Types, InOrder, [Next]_vars PROVE InOrder'
  OBVIOUS
<1>1. ASSUME NEW s \in Started, NEW b \in BOOLEAN, Send(s, b) PROVE InOrder'
  BY <1>1, SendKeepsAnnouncing, SendKeepsOrder DEF InOrder
<1>. QED  BY <1>1, OtherSteps, ReceiveKeepsOrder, StillInOrder

-----------------------------------------------------------------------------
(* How often the last line of a file is sent: what the record that it ends *)
(* in still needs.                                                         *)

LastWaiting(s) == {w \in 1 .. Len(wire) : wire[w].from = s /\ wire[w].line = Len(files[s])}
LastSent(s) ==
  IF line[s] < Len(files[s]) THEN 0
  ELSE IF k[s] = 1 THEN Records(s) - Len(files[s]) + 1
  ELSE Records(s) - Len(files[s]) + k[s] - 4
NotTooOften ==
  \A s \in Started : Cardinality(LastLines(s)) + Cardinality(LastWaiting(s)) <= LastSent(s)

LEMMA UpToFour ==
  /\ \A n \in Nat : n <= 4 * ((n + 3) \div 4) /\ 4 * ((n + 3) \div 4) \in Int
  /\ \A n \in Nat, x \in 1 .. 4 : n % 4 = x - 1 =>
       4 * ((n + 3) \div 4) = IF x = 1 THEN n ELSE n + 5 - x
<1>1. \A n \in Nat : n <= 4 * ((n + 3) \div 4) /\ 4 * ((n + 3) \div 4) \in Int
  OBVIOUS
<1>2. \A n \in Nat, x \in 1 .. 4 : n % 4 = x - 1 =>
        4 * ((n + 3) \div 4) = IF x = 1 THEN n ELSE n + 5 - x
  OBVIOUS
<1>. QED  BY <1>1, <1>2

LEMMA FiniteParts ==
  ASSUME Types, NEW s \in Started
  PROVE  /\ IsFiniteSet(LastLines(s)) /\ IsFiniteSet(LastWaiting(s))
         /\ Cardinality(LastLines(s)) \in Nat /\ Cardinality(LastWaiting(s)) \in Nat
<1>1. IsFiniteSet(1 .. TableSize) /\ IsFiniteSet(Fields) /\ IsFiniteSet(1 .. Len(wire))
  <2>1. TableSize \in Int /\ Len(wire) \in Int /\ 1 \in Int /\ 4 \in Int
    BY RegistryAssumption, LenProperties DEF RegistryAssumption, Types
  <2>. QED  BY <2>1, FS_Interval DEF Fields
<1>2. IsFiniteSet((1 .. TableSize) \X Fields)
  BY <1>1, FS_Product
<1>3. LastLines(s) \in SUBSET ((1 .. TableSize) \X Fields) /\ LastWaiting(s) \in SUBSET (1 .. Len(wire))
  BY DEF LastLines, LastWaiting
<1>4. IsFiniteSet(LastLines(s)) /\ IsFiniteSet(LastWaiting(s))
  BY <1>1, <1>2, <1>3, FS_Subset
<1>. QED  BY <1>4, FS_CardinalityType

LEMMA CountStarts == ASSUME Init, Types PROVE NotTooOften
<1> SUFFICES ASSUME NEW s \in Started
             PROVE  Cardinality(LastLines(s)) + Cardinality(LastWaiting(s)) <= LastSent(s)
  BY DEF NotTooOften
<1>1. s \in Subservers /\ Len(files[s]) \in Nat /\ line[s] = 0 /\ k[s] = 1 /\ Len(wire) = 0
  BY Files, EmptySeq DEF Init
<1>2. LastLines(s) = {} /\ LastWaiting(s) = {}
  BY <1>1 DEF Init, LastLines, LastWaiting, Holds
<1>3. Cardinality(LastLines(s)) = 0 /\ Cardinality(LastWaiting(s)) = 0
  BY <1>2, FS_EmptySet
<1>4. LastSent(s) >= 0
  <2>1. Len(files[s]) <= Records(s) /\ Records(s) \in Int
    BY <1>1, UpToFour DEF Records
  <2>. QED  BY <1>1, <2>1 DEF LastSent
<1>. QED  BY <1>3, <1>4, <1>1

LEMMA SendCounts ==
  ASSUME Types, InOrder, NotTooOften, NEW s \in Started, NEW b \in BOOLEAN, Send(s, b)
  PROVE  NotTooOften'
<1> DEFINE l == Sendline(s)
           d == [from |-> s, line |-> l]
           n == Len(files[s])
<1>1. /\ l \in 1 .. n /\ l \in Nat /\ line[s] <= l /\ (line[s] = l => l = n)
      /\ (l = line[s] \/ l = line[s] + 1)
      /\ line' = [line EXCEPT ![s] = l] /\ k' = [k EXCEPT ![s] = (k[s] % 4) + 1]
      /\ UNCHANGED <<files, videos>>
      /\ (wire' = Append(wire, d) \/ wire' = wire)
  BY OneLine DEF InOrder
<1>2. /\ s \in Subservers /\ n \in Nat /\ line \in [Subservers -> Nat] /\ wire \in Seq(Datagram)
      /\ k \in [Subservers -> Fields] /\ k[s] \in 1 .. 4
  BY Files DEF Types, InOrder, Announcing, Fields
<1>3. ~ (k[s] = 1 /\ line[s] = n)
  BY DEF Send, AtEnd
<1>4. Started' = Started /\ \A t : LastLines(t)' = LastLines(t) /\ Records(t)' = Records(t)
  BY <1>1 DEF Started, LastLines, Holds, Records
<1>5. d.from = s /\ d.line = l /\ d \in Datagram
  BY <1>1, <1>2 DEF Datagram
<1>6. ASSUME NEW t \in Started, t # s PROVE LastSent(t)' = LastSent(t) /\ LastWaiting(t)' = LastWaiting(t)
  <2>1. LastSent(t)' = LastSent(t)
    BY <1>1, <1>2, <1>4, <1>6, Files DEF LastSent
  <2>2. LastWaiting(t)' = LastWaiting(t)
    <3>1. CASE wire' = wire
      BY <1>1, <3>1 DEF LastWaiting
    <3>2. CASE wire' = Append(wire, d)
      <4>1. /\ Len(wire) \in Nat /\ Len(wire') = Len(wire) + 1 /\ wire'[Len(wire) + 1] = d
            /\ \A w \in 1 .. Len(wire) : wire'[w] = wire[w]
        BY <1>2, <1>5, <3>2, AppendProperties, LenProperties
      <4>. HIDE DEF d
      <4>2. \A w : w \in 1 .. Len(wire') <=> (w \in 1 .. Len(wire) \/ w = Len(wire) + 1)
        BY <4>1
      <4>. QED  BY <1>1, <1>5, <1>6, <4>1, <4>2 DEF LastWaiting
    <3>. QED  BY <1>1, <3>1, <3>2
  <2>. QED  BY <2>1, <2>2
<1>7. \/ LastWaiting(s)' = LastWaiting(s)
      \/ l = n /\ LastWaiting(s)' = LastWaiting(s) \cup {Len(wire) + 1}
  <2>1. CASE wire' = wire
    BY <1>1, <2>1 DEF LastWaiting
  <2>2. CASE wire' = Append(wire, d)
    <3>1. /\ Len(wire) \in Nat /\ Len(wire') = Len(wire) + 1 /\ wire'[Len(wire) + 1] = d
          /\ \A w \in 1 .. Len(wire) : wire'[w] = wire[w]
      BY <1>2, <1>5, <2>2, AppendProperties, LenProperties
    <3>. HIDE DEF d
    <3>2. \A w : w \in 1 .. Len(wire') <=> (w \in 1 .. Len(wire) \/ w = Len(wire) + 1)
      BY <3>1
    <3>. QED  BY <1>1, <1>5, <3>1, <3>2 DEF LastWaiting
  <2>. QED  BY <1>1, <2>1, <2>2
<1>8. LastSent(s)' >= LastSent(s) /\ (l = n => LastSent(s)' >= LastSent(s) + 1) /\ LastSent(s) \in Int /\ LastSent(s)' \in Int
  <2>1. line'[s] = l /\ k'[s] = (k[s] % 4) + 1
    BY <1>1, <1>2
  <2>2. n <= Records(s) /\ Records(s) \in Int
    BY <1>2, UpToFour DEF Records
  <2>3. k'[s] \in 1 .. 4 /\ (k'[s] = k[s] + 1 \/ (k[s] = 4 /\ k'[s] = 1))
    <3>1. \A x \in 1 .. 4 : (x % 4) + 1 \in 1 .. 4 /\ ((x % 4) + 1 = x + 1 \/ (x = 4 /\ (x % 4) + 1 = 1))
      OBVIOUS
    <3>. QED  BY <1>2, <2>1, <3>1
  <2>4. LastSent(s)' = IF l < n THEN 0 ELSE IF k'[s] = 1 THEN Records(s) - n + 1 ELSE Records(s) - n + k'[s] - 4
    BY <1>1, <1>4, <2>1 DEF LastSent
  <2>5. LastSent(s) = IF line[s] < n THEN 0 ELSE IF k[s] = 1 THEN Records(s) - n + 1 ELSE Records(s) - n + k[s] - 4
    BY DEF LastSent
  <2>. HIDE DEF l, n
  <2>6. line[s] \in Nat /\ line[s] <= n
    BY <1>1, <1>2
  <2>7. CASE l < n
    <3>1. line[s] < n
      BY <1>1, <1>2, <2>6, <2>7
    <3>. QED  BY <1>1, <1>2, <2>4, <2>5, <2>7, <3>1
  <2>8. CASE l = n /\ line[s] < n
    <3>1. (k[s] - 1 + 1) % 4 = n % 4
      <4>1. line[s] % 4 = k[s] - 1
        BY <2>8 DEF InOrder, Announcing, n
      <4>2. n = line[s] + 1
        BY <1>1, <2>6, <2>8
      <4>. QED  BY <1>2, <2>6, <4>1, <4>2
    <3>2. n % 4 = k'[s] - 1
      BY <1>2, <2>1, <3>1
    <3>3. Records(s) = IF k'[s] = 1 THEN n ELSE n + 5 - k'[s]
      BY <1>2, <2>3, <3>2, UpToFour DEF Records, n
    <3>4. LastSent(s) = 0 /\ ~ (l < n) /\ n \in Nat
      BY <1>2, <2>5, <2>8
    <3>5. LastSent(s)' = IF k'[s] = 1 THEN Records(s) - n + 1 ELSE Records(s) - n + k'[s] - 4
      BY <2>4, <3>4
    <3>6. LastSent(s)' = 1
      BY <2>3, <3>3, <3>4, <3>5
    <3>. QED  BY <3>4, <3>6
  <2>9. CASE l = n /\ line[s] = n
    <3>1. k[s] # 1 /\ LastSent(s) = Records(s) - n + k[s] - 4
      BY <1>2, <1>3, <2>5, <2>9
    <3>2. LastSent(s)' = IF k'[s] = 1 THEN Records(s) - n + 1 ELSE Records(s) - n + k'[s] - 4
      BY <1>2, <2>4, <2>9
    <3>. QED  BY <1>2, <2>2, <2>3, <3>1, <3>2
  <2>. QED  BY <1>1, <1>2, <2>6, <2>7, <2>8, <2>9
<1>. HIDE DEF l, d, n
<1>9. Cardinality(LastLines(s))' + Cardinality(LastWaiting(s))' <= LastSent(s)'
  <2>1. /\ IsFiniteSet(LastWaiting(s)) /\ Cardinality(LastWaiting(s)) \in Nat /\ Cardinality(LastLines(s)) \in Nat
        /\ Cardinality(LastLines(s)) + Cardinality(LastWaiting(s)) <= LastSent(s)
    BY FiniteParts DEF NotTooOften
  <2>2. \/ Cardinality(LastWaiting(s)') = Cardinality(LastWaiting(s))
        \/ l = n /\ Cardinality(LastWaiting(s)') \in {Cardinality(LastWaiting(s)), Cardinality(LastWaiting(s)) + 1}
    BY <1>7, <2>1, FS_AddElement
  <2>. QED  BY <1>4, <1>8, <2>1, <2>2
<1>10. ASSUME NEW t \in Started, t # s
       PROVE  Cardinality(LastLines(t))' + Cardinality(LastWaiting(t))' <= LastSent(t)'
  BY <1>4, <1>6, <1>10 DEF NotTooOften
<1>. QED  BY <1>4, <1>9, <1>10 DEF NotTooOften

LEMMA ReceiveCounts == ASSUME Types, InOrder, NotTooOften, ReceiveField PROVE NotTooOften'
<1> DEFINE d == Head(wire)
<1>1. /\ UNCHANGED <<files, line, k>> /\ wire # <<>> /\ wire' = Tail(wire) /\ (Row <= TableSize \/ ~ Stores(d))
      /\ IF Stores(d) THEN videos' = [videos EXCEPT ![Row][f] = Stored(d)] ELSE videos' = videos
      /\ NextRow = Row
  BY DEF ReceiveField, At, subserver, NextRow, Row
<1>2. /\ wire \in Seq(Datagram) /\ videoIndex \in Nat /\ TableSize \in Nat /\ f \in Fields
      /\ videos \in [1 .. TableSize -> Rows] /\ Row = videoIndex + 1
  BY RegistryAssumption DEF RegistryAssumption, Types, Row
<1>3. /\ 1 \in 1 .. Len(wire) /\ d = wire[1]
      /\ \A w \in 1 .. Len(wire') : w + 1 \in 1 .. Len(wire) /\ wire'[w] = wire[w + 1]
  <2>1. /\ Len(wire') = Len(wire) - 1 /\ d = wire[1] /\ Len(wire) \in Nat /\ Len(wire) # 0
        /\ \A w \in 1 .. Len(wire') : wire'[w] = wire[w + 1]
    BY <1>1, <1>2, HeadTailProperties, LenProperties, EmptySeq
  <2>. HIDE DEF d
  <2>. QED  BY <2>1
<1>4. Started' = Started /\ \A s : LastSent(s)' = LastSent(s)
  BY <1>1 DEF Started, LastSent, Records
<1>5. Stored(d).from = d.from /\ Stored(d).line = d.line
  BY DEF Stored
<1>. HIDE DEF d
<1> SUFFICES ASSUME NEW s \in Started
             PROVE  Cardinality(LastLines(s)') + Cardinality(LastWaiting(s)') <= LastSent(s)
  BY <1>4 DEF NotTooOften
<1> DEFINE Rest == LastWaiting(s) \ {1}
           last == d.from = s /\ d.line = Len(files[s])
<1>6. /\ IsFiniteSet(LastLines(s)) /\ IsFiniteSet(LastWaiting(s))
      /\ Cardinality(LastLines(s)) \in Nat /\ Cardinality(LastWaiting(s)) \in Nat
      /\ Cardinality(LastLines(s)) + Cardinality(LastWaiting(s)) <= LastSent(s)
  BY FiniteParts DEF NotTooOften
<1>7. IsFiniteSet(Rest) /\ Cardinality(Rest) = IF last THEN Cardinality(LastWaiting(s)) - 1
                                               ELSE Cardinality(LastWaiting(s))
  <2>1. 1 \in LastWaiting(s) <=> last
    BY <1>3 DEF LastWaiting
  <2>. QED  BY <1>6, <2>1, FS_RemoveElement
<1>8. Cardinality(LastWaiting(s)') <= Cardinality(Rest) /\ IsFiniteSet(LastWaiting(s)')
  <2> DEFINE back == [w \in LastWaiting(s)' |-> w + 1]
  <2>1. \A w \in LastWaiting(s)' : w \in Int /\ w + 1 \in Rest
    BY <1>1, <1>3 DEF LastWaiting
  <2>2. back \in Injection(LastWaiting(s)', Rest)
    BY <2>1 DEF Injection, IsInjective
  <2>. HIDE DEF back, Rest
  <2>. QED  BY <1>7, <2>2, FS_Injection
<1>9. LastLines(s)' = LastLines(s) \/ (last /\ LastLines(s)' = LastLines(s) \cup {<<Row, f>>})
  <2>1. CASE ~ Stores(d)
    BY <1>1, <2>1 DEF LastLines, Holds
  <2>2. CASE Stores(d)
    <3>1. Row \in 1 .. TableSize /\ videos[Row] \in Rows
      BY <1>1, <1>2, <2>2
    <3>2. \A n \in 1 .. TableSize, h \in Fields :
            videos'[n][h] = IF n = Row /\ h = f THEN Stored(d) ELSE videos[n][h]
      BY <1>1, <1>2, <2>2, <3>1 DEF Rows
    <3>3. videos[Row][f] = Empty
      <4>1. ~ Before(Row, f, Row, f)
        BY <1>2 DEF Before, Fields
      <4>. QED  BY <1>1, <1>2, <3>1, <4>1 DEF InOrder, Entered
    <3>4. Stored(d) # Empty
      BY DEF Stored, Empty
    <3>5. \A n \in 1 .. TableSize, h \in Fields :
            <<n, h>> \in LastLines(s)' <=> <<n, h>> \in LastLines(s) \/ (n = Row /\ h = f /\ last)
      <4> SUFFICES ASSUME NEW n \in 1 .. TableSize, NEW h \in Fields
                   PROVE  <<n, h>> \in LastLines(s)' <=> <<n, h>> \in LastLines(s) \/ (n = Row /\ h = f /\ last)
        OBVIOUS
      <4>1. /\ <<n, h>> \in LastLines(s)' <=>
                 videos'[n][h] # Empty /\ videos'[n][h].from = s /\ videos'[n][h].line = Len(files[s])
            /\ <<n, h>> \in LastLines(s) <=>
                 videos[n][h] # Empty /\ videos[n][h].from = s /\ videos[n][h].line = Len(files[s])
        BY <1>1 DEF LastLines, Holds
      <4>2. CASE n = Row /\ h = f
        BY <1>5, <3>2, <3>3, <3>4, <4>1, <4>2
      <4>3. CASE ~ (n = Row /\ h = f)
        BY <3>2, <4>1, <4>3
      <4>. QED  BY <4>2, <4>3
    <3>6. LastLines(s)' \subseteq (1 .. TableSize) \X Fields /\ LastLines(s) \subseteq (1 .. TableSize) \X Fields
      BY DEF LastLines
    <3>. HIDE DEF last
    <3>7. CASE last
      BY <1>2, <3>1, <3>5, <3>6, <3>7
    <3>8. CASE ~ last
      BY <3>5, <3>6, <3>8
    <3>. QED  BY <3>7, <3>8
  <2>. QED  BY <2>1, <2>2
<1>10. Cardinality(LastLines(s)') = Cardinality(LastLines(s))
       \/ (last /\ Cardinality(LastLines(s)') \in {Cardinality(LastLines(s)), Cardinality(LastLines(s)) + 1})
  BY <1>6, <1>9, FS_AddElement
<1>11. Cardinality(LastWaiting(s)') \in Nat /\ Cardinality(Rest) \in Nat /\ LastSent(s) \in Int
  <2>1. LastSent(s) \in Int
    <3>1. /\ Len(files[s]) \in Nat /\ Records(s) \in Int /\ k[s] \in Int
      BY Files, UpToFour DEF Records, InOrder, Announcing, Fields
    <3>. QED  BY <3>1 DEF LastSent
  <2>. QED  BY <1>7, <1>8, <2>1, FS_CardinalityType
<1>. HIDE DEF Rest, last
<1>. QED  BY <1>6, <1>7, <1>8, <1>10, <1>11

LEMMA NextCounts == Types /\ InOrder /\ NotTooOften /\ [Next]_vars => NotTooOften'
<1> SUFFICES ASSUME Types, InOrder, NotTooOften, [Next]_vars PROVE NotTooOften'
  OBVIOUS
<1>1. CASE UNCHANGED <<files, line, k, wire, lost, videos, f>>
  BY <1>1 DEF NotTooOften, Started, LastLines, Holds, LastWaiting, LastSent, Records
<1>. QED  BY <1>1, OtherSteps, SendCounts, ReceiveCounts

\* What the table holds of a subserver, read row by row, are lines of its file in order, each
\* once but for the last one, which is repeated at most to the end of a record; while no
\* datagram is lost none before it is left out, however many others send and whatever their
\* files (mainserver.c:124-233, subserver.c:203-220).
THEOREM KeepsOrder == Spec => []TableKeepsOrder
<1>1. Types /\ InOrder /\ NotTooOften => TableKeepsOrder
  <2> SUFFICES ASSUME Types, InOrder, NotTooOften, NEW s \in Started
               PROVE  /\ Ordered(s) /\ NothingLeftOut(s)
                      /\ Cardinality(LastLines(s)) <= Records(s) - Len(files[s]) + 1
    BY DEF TableKeepsOrder
  <2>1. Len(files[s]) \in Nat /\ line[s] \in 0 .. Len(files[s])
    BY Files DEF InOrder, Announcing
  <2>2. Ordered(s)
    <3>1. ASSUME NEW m \in 1 .. TableSize, NEW h \in Fields, NEW n \in m .. TableSize, NEW j \in Fields,
                 Holds(s, m, h), Holds(s, n, j), Before(m, h, n, j)
          PROVE  Follows(videos[m][h].line, videos[n][j].line, s)
      <4>1. n \in 1 .. TableSize
        BY RegistryAssumption DEF RegistryAssumption
      <4>. QED  BY <3>1, <4>1 DEF InOrder, Entered
    <3>. QED  BY <3>1 DEF Ordered, Follows
  <2>3. NothingLeftOut(s)
    <3> SUFFICES ASSUME NEW n \in 1 .. TableSize, NEW h \in Fields, Holds(s, n, h)
                 PROVE  /\ videos[n][h].line \in 1 .. Len(files[s]) /\ files[s][videos[n][h].line] # "blank"
                        /\ lost = 0 => \A l \in 1 .. videos[n][h].line - 1 : files[s][l] # "blank" => InTable(s, l)
      BY DEF NothingLeftOut, InTable
    <3>1. videos[n][h].line \in 1 .. line[s] /\ files[s][videos[n][h].line] # "blank"
      BY DEF InOrder, Entered, Holds
    <3>2. ASSUME lost = 0, NEW l \in 1 .. videos[n][h].line - 1, files[s][l] # "blank" PROVE ~ OnWire(s, l)
      <4> SUFFICES ASSUME NEW w \in 1 .. Len(wire), wire[w] = [from |-> s, line |-> l] PROVE FALSE
        BY DEF OnWire
      <4>1. Follows(videos[n][h].line, wire[w].line, s) /\ wire[w].line = l
        BY DEF InOrder, Entered
      <4>. QED  BY <2>1, <3>1, <4>1 DEF Follows
    <3>3. \A l \in 1 .. videos[n][h].line - 1 : l \in 1 .. line[s]
      BY <2>1, <3>1
    <3>4. videos[n][h].line \in 1 .. Len(files[s])
      BY <2>1, <3>1
    <3>. QED  BY <3>1, <3>2, <3>3, <3>4 DEF InOrder, Present
  <2>4. Cardinality(LastLines(s)) <= Records(s) - Len(files[s]) + 1
    <3>1. /\ Cardinality(LastLines(s)) \in Nat /\ Cardinality(LastWaiting(s)) \in Nat
          /\ Cardinality(LastLines(s)) + Cardinality(LastWaiting(s)) <= LastSent(s)
      BY FiniteParts DEF NotTooOften
    <3>2. Len(files[s]) <= Records(s) /\ Records(s) \in Int
      BY <2>1, UpToFour DEF Records
    <3>3. k[s] \in 1 .. 4
      BY Files DEF InOrder, Announcing, Fields
    <3>4. LastSent(s) <= Records(s) - Len(files[s]) + 1 /\ LastSent(s) \in Int
      BY <2>1, <3>2, <3>3 DEF LastSent
    <3>. QED  BY <2>1, <3>1, <3>2, <3>4
  <2>. QED  BY <2>2, <2>3, <2>4
<1>. QED  BY <1>1, OrderStarts, CountStarts, NextInOrder, NextCounts, AlwaysTyped, InitTypes, PTL DEF Spec

-----------------------------------------------------------------------------
(* Records.  Between two records nobody owes a field: what the senders have*)
(* begun, less what waits and what the row has, is a number of whole       *)
(* records.  The sum over the senders is told by its partial sums p.       *)

Numbered(n, nth) ==
  /\ n \in Nat /\ nth \in [1 .. n -> Subservers]
  /\ \A a, b \in 1 .. n : nth[a] = nth[b] => a = b
  /\ \A s \in Subservers : \E a \in 1 .. n : nth[a] = s

Sums(p, n, nth, next) ==
  /\ p \in [0 .. n -> Int] /\ p[0] = 0
  /\ \A a \in 1 .. n : p[a] = p[a - 1] + next[nth[a]] - 1

Fours == {4 * q : q \in Int}

Framed(n, nth) ==
  /\ k \in [Subservers -> Fields] /\ lost \in Nat
  /\ lost = 0 => \E p \in [0 .. n -> Int] :
                   Sums(p, n, nth, k) /\ p[n] - Len(wire) - (f - 1) \in Fours

LEMMA InFours ==
  /\ 0 \in Fours /\ \A x \in Fours : x \in Int /\ x + 4 \in Fours /\ x - 4 \in Fours
  /\ \A h \in 1 .. 4 : 0 - 0 - (h - 1) \in Fours => h = 1
<1>1. 0 \in Fours
  <2>1. 0 = 4 * 0
    OBVIOUS
  <2>. QED  BY <2>1 DEF Fours
<1>2. ASSUME NEW q \in Int PROVE 4 * q \in Int /\ 4 * q + 4 \in Fours /\ 4 * q - 4 \in Fours
  <2>1. 4 * q + 4 = 4 * (q + 1) /\ 4 * q - 4 = 4 * (q - 1)
    OBVIOUS
  <2>. QED  BY <2>1 DEF Fours
<1>3. ASSUME NEW h \in 1 .. 4, NEW q \in Int, 0 - 0 - (h - 1) = 4 * q PROVE h = 1
  BY <1>3
<1>. QED  BY <1>1, <1>2, <1>3 DEF Fours

LEMMA Numbering == \E n \in Nat : \E nth \in [1 .. n -> Subservers] : Numbered(n, nth)
<1>1. PICK n \in Nat : ExistsBijection(1 .. n, Subservers)
  BY RegistryAssumption, FS_NatBijection DEF RegistryAssumption
<1>2. PICK nth : nth \in Bijection(1 .. n, Subservers)
  BY <1>1 DEF ExistsBijection
<1>. QED  BY <1>2 DEF Numbered, Bijection, Injection, Surjection, IsInjective

\* The sum of nothing is 0.
LEMMA NothingBegun ==
  ASSUME NEW n, NEW nth, Numbered(n, nth), NEW next, \A s \in Subservers : next[s] = 1,
         NEW p, Sums(p, n, nth, next)
  PROVE  p[n] = 0
<1> DEFINE wrong == {a \in 0 .. n : p[a] # 0}
           R == OpToRel(<, Nat)
<1>1. CASE wrong = {}
  BY <1>1 DEF Numbered
<1>2. CASE wrong # {}
  <2>1. PICK a \in wrong : \A b \in wrong : <<b, a>> \notin R
    <3>1. wrong \subseteq Nat
      OBVIOUS
    <3>2. IsWellFoundedOn(R, Nat)
      BY NatLessThanWellFounded DEF OpToRel
    <3>. HIDE DEF R, wrong
    <3>. QED  BY <1>2, <3>1, <3>2, WFMin
  <2>2. n \in Nat /\ a \in 1 .. n
    BY DEF Numbered, Sums
  <2>3. p[a - 1] = 0
    <3>1. a - 1 \in 0 .. n /\ a - 1 < a /\ a - 1 \in Nat /\ a \in Nat
      BY <2>2
    <3>2. <<a - 1, a>> \in R
      BY <3>1 DEF OpToRel
    <3>. QED  BY <2>1, <3>1, <3>2
  <2>4. next[nth[a]] = 1 /\ p[a] = p[a - 1] + next[nth[a]] - 1
    BY <2>2 DEF Numbered, Sums
  <2>5. p[a] = 0
    BY <2>3, <2>4
  <2>. QED  BY <2>1, <2>5
<1>. QED  BY <1>1, <1>2

\* One sender goes to its next field: the sums from its place on change by the same amount.
SumsFollow(n, nth) ==
  \A next \in [Subservers -> Fields], s \in Subservers, to \in Fields, p \in [0 .. n -> Int] :
    Sums(p, n, nth, next) =>
      \E r \in [0 .. n -> Int] :
        Sums(r, n, nth, [next EXCEPT ![s] = to]) /\ r[n] = p[n] + to - next[s]

LEMMA OneMoreSent ==
  ASSUME NEW n, NEW nth, Numbered(n, nth) PROVE SumsFollow(n, nth)
<1> SUFFICES ASSUME NEW next \in [Subservers -> Fields], NEW s \in Subservers, NEW to \in Fields,
                    NEW p \in [0 .. n -> Int], Sums(p, n, nth, next)
             PROVE  \E r \in [0 .. n -> Int] :
                      Sums(r, n, nth, [next EXCEPT ![s] = to]) /\ r[n] = p[n] + to - next[s]
  BY DEF SumsFollow
<1>1. PICK j \in 1 .. n : nth[j] = s
  BY DEF Numbered
<1>2. n \in Nat /\ next[s] \in Int /\ to \in Int /\ j \in Int
  BY DEF Numbered, Fields
<1> DEFINE r == [a \in 0 .. n |-> IF a >= j THEN p[a] + to - next[s] ELSE p[a]]
<1>3. r \in [0 .. n -> Int] /\ r[0] = 0 /\ r[n] = p[n] + to - next[s]
  BY <1>1, <1>2 DEF Sums
<1>4. ASSUME NEW a \in 1 .. n PROVE r[a] = r[a - 1] + [next EXCEPT ![s] = to][nth[a]] - 1
  <2>1. a \in 0 .. n /\ a - 1 \in 0 .. n /\ nth[a] \in Subservers /\ a \in Int
    BY <1>2 DEF Numbered
  <2>2. p[a] = p[a - 1] + next[nth[a]] - 1 /\ p[a - 1] \in Int /\ next[nth[a]] \in Int
    BY <2>1 DEF Sums, Fields
  <2>3. CASE a = j
    <3>1. [next EXCEPT ![s] = to][nth[a]] = to /\ next[nth[a]] = next[s]
      BY <1>1, <2>3
    <3>2. r[a] = p[a] + to - next[s] /\ r[a - 1] = p[a - 1]
      BY <1>2, <2>1, <2>3
    <3>. HIDE DEF r
    <3>. QED  BY <1>2, <2>2, <3>1, <3>2
  <2>4. CASE a # j
    <3>1. nth[a] # s
      BY <1>1, <2>4 DEF Numbered
    <3>2. [next EXCEPT ![s] = to][nth[a]] = next[nth[a]]
      BY <2>1, <3>1
    <3>3. \/ r[a] = p[a] /\ r[a - 1] = p[a - 1]
          \/ r[a] = p[a] + to - next[s] /\ r[a - 1] = p[a - 1] + to - next[s]
      BY <1>2, <2>1, <2>4
    <3> DEFINE e == [next EXCEPT ![s] = to][nth[a]]
               d == to - next[s]
    <3>4. e = next[nth[a]] /\ d \in Int /\ p[a - 1] \in Int /\ e \in Int /\ p[a] = p[a - 1] + e - 1
      BY <1>2, <2>2, <3>2
    <3>5. \/ r[a] = p[a] /\ r[a - 1] = p[a - 1]
          \/ r[a] = p[a] + d /\ r[a - 1] = p[a - 1] + d
      <4>1. p[a] \in Int /\ p[a - 1] \in Int
        BY <3>4
      <4>. HIDE DEF r
      <4>. QED  BY <1>2, <3>3, <4>1
    <3>. HIDE DEF r, e, d
    <3>6. r[a] = r[a - 1] + e - 1
      BY <3>4, <3>5
    <3>. QED  BY <3>6 DEF e
  <2>. QED  BY <2>3, <2>4
<1>. HIDE DEF r
<1>5. Sums(r, n, nth, [next EXCEPT ![s] = to])
  BY <1>3, <1>4 DEF Sums
<1>. QED  BY <1>3, <1>5

LEMMA FramedStarts == ASSUME NEW n, NEW nth, Numbered(n, nth), Init PROVE Framed(n, nth)
<1> DEFINE p == [a \in 0 .. n |-> 0]
<1>1. k \in [Subservers -> Fields] /\ \A s \in Subservers : k[s] = 1
  BY DEF Init, Fields
<1>2. p \in [0 .. n -> Int] /\ p[0] = 0 /\ p[n] = 0 /\ \A a \in 1 .. n : p[a] = 0 /\ p[a - 1] = 0
  BY DEF Numbered
<1>. HIDE DEF p
<1>3. \A a \in 1 .. n : p[a] = p[a - 1] + k[nth[a]] - 1
  BY <1>1, <1>2 DEF Numbered
<1>4. p[n] - Len(wire) - (f - 1) \in Fours
  <2>1. p[n] = 0 /\ Len(wire) = 0 /\ f = 1
    BY <1>2, EmptySeq DEF Init
  <2>2. p[n] - Len(wire) - (f - 1) = 0
    BY <2>1
  <2>. QED  BY <2>2, InFours
<1>. QED  BY <1>1, <1>2, <1>3, <1>4 DEF Init, Framed, Sums

LEMMA SendFrames ==
  ASSUME NEW n, NEW nth, Numbered(n, nth), Types, Framed(n, nth),
         NEW s \in Started, NEW b \in BOOLEAN, Send(s, b)
  PROVE  Framed(n, nth)'
<1>1. s \in Subservers
  BY RegistryAssumption DEF RegistryAssumption, Types, Started
<1> DEFINE to == (k[s] % 4) + 1
<1>2. k[s] \in 1 .. 4 /\ to \in Fields /\ (to = k[s] + 1 \/ to = k[s] - 3)
  <2>1. k[s] \in 1 .. 4
    BY <1>1 DEF Framed, Fields
  <2>2. to \in 1 .. 4 /\ (to = k[s] + 1 \/ to = k[s] - 3)
    BY <2>1
  <2>. QED  BY <2>1, <2>2 DEF Fields
<1>3. k' = [k EXCEPT ![s] = to] /\ f' = f
  BY DEF Send, registry
<1>. HIDE DEF to
<1>4. k' \in [Subservers -> Fields]
  BY <1>2, <1>3 DEF Framed
<1>5. CASE lost' = lost
  <2>1. wire' = Append(wire, [from |-> s, line |-> Sendline(s)]) \/ lost' = lost + 1
    BY DEF Send, Deliver
  <2>2. wire' = Append(wire, [from |-> s, line |-> Sendline(s)])
    BY <1>5, <2>1 DEF Framed
  <2>3. Len(wire) \in Nat /\ Len(wire') = Len(wire) + 1
    <3>1. wire \in Seq(Datagram) /\ [from |-> s, line |-> Sendline(s)] \in Datagram
      BY <1>1 DEF Types, Datagram, Sendline
    <3>. QED  BY <2>2, <3>1, AppendProperties, LenProperties
  <2>4. ASSUME lost = 0
        PROVE  \E r \in [0 .. n -> Int] :
                 Sums(r, n, nth, k') /\ r[n] - Len(wire') - (f' - 1) \in Fours
    <3>1. PICK p \in [0 .. n -> Int] :
            Sums(p, n, nth, k) /\ p[n] - Len(wire) - (f - 1) \in Fours
      BY <2>4 DEF Framed
    <3>2. PICK r \in [0 .. n -> Int] : Sums(r, n, nth, k') /\ r[n] = p[n] + to - k[s]
      <4>1. /\ k \in [Subservers -> Fields] /\ s \in Subservers /\ to \in Fields
            /\ p \in [0 .. n -> Int] /\ Sums(p, n, nth, k) /\ Numbered(n, nth)
        BY <1>1, <1>2, <3>1 DEF Framed
      <4>2. SumsFollow(n, nth)
        BY OneMoreSent
      <4>3. \E r \in [0 .. n -> Int] : Sums(r, n, nth, [k EXCEPT ![s] = to]) /\ r[n] = p[n] + to - k[s]
        BY ONLY <4>1, <4>2 DEF SumsFollow
      <4>. QED  BY <1>3, <4>3
    <3> DEFINE x == p[n] - Len(wire) - (f - 1)
               y == r[n] - Len(wire') - (f' - 1)
    <3>3. p[n] \in Int /\ f \in Int /\ k[s] \in Int /\ to \in Int /\ r[n] \in Int
      BY <1>2 DEF Numbered, Types, Fields
    <3>4. y = x \/ y = x - 4
      <4>1. f' = f /\ Len(wire) \in Int /\ Len(wire') = Len(wire) + 1 /\ r[n] = p[n] + to - k[s]
        BY <1>3, <2>3, <3>2
      <4>2. CASE to = k[s] + 1
        <5>1. r[n] = p[n] + 1
          BY <3>3, <4>1, <4>2
        <5>2. y = x
          BY ONLY <3>3, <4>1, <5>1
        <5>. QED  BY <5>2
      <4>3. CASE to = k[s] - 3
        <5>1. r[n] = p[n] - 3
          BY <3>3, <4>1, <4>3
        <5>. QED  BY <3>3, <4>1, <5>1
      <4>. QED  BY <1>2, <4>2, <4>3
    <3>5. y \in Fours
      <4>1. x \in Fours
        BY <3>1
      <4>. HIDE DEF x, y
      <4>. QED  BY <3>4, <4>1, InFours
    <3>. QED  BY <3>2, <3>5
  <2>. QED  BY <1>4, <1>5, <2>4 DEF Framed
<1>6. CASE lost' # lost
  <2>1. lost' = lost + 1 /\ lost \in Nat
    BY <1>6 DEF Send, Deliver, Framed
  <2>2. lost' \in Nat /\ lost' # 0
    BY <2>1
  <2>. QED  BY <1>4, <2>2 DEF Framed
<1>. QED  BY <1>5, <1>6

LEMMA ReceiveFrames ==
  ASSUME NEW n, NEW nth, Numbered(n, nth), Types, Framed(n, nth), ReceiveField
  PROVE  Framed(n, nth)'
<1>1. UNCHANGED <<k, lost>> /\ f' = (f % 4) + 1 /\ f \in 1 .. 4
  BY DEF ReceiveField, NextField, subserver, Types, Fields
<1>2. Len(wire) \in Nat /\ Len(wire') = Len(wire) - 1
  <2>1. wire \in Seq(Datagram) /\ wire # <<>> /\ wire' = Tail(wire)
    BY DEF ReceiveField, Types
  <2>. QED  BY <2>1, HeadTailProperties, LenProperties
<1>3. f' \in Int /\ (f' = f + 1 \/ f' = f - 3)
  BY <1>1
<1>4. ASSUME lost = 0
      PROVE  \E p \in [0 .. n -> Int] :
               Sums(p, n, nth, k) /\ p[n] - Len(wire') - (f' - 1) \in Fours
  <2>1. PICK p \in [0 .. n -> Int] :
          Sums(p, n, nth, k) /\ p[n] - Len(wire) - (f - 1) \in Fours
    BY <1>4 DEF Framed
  <2> DEFINE x == p[n] - Len(wire) - (f - 1)
             y == p[n] - Len(wire') - (f' - 1)
  <2>2. p[n] \in Int
    BY DEF Numbered
  <2>3. y = x \/ y = x + 4
    BY <1>1, <1>2, <1>3, <2>2
  <2>4. y \in Fours
    <3>1. x \in Fours
      BY <2>1
    <3>. HIDE DEF x, y
    <3>. QED  BY <2>3, <3>1, InFours
  <2>. QED  BY <2>1, <2>4
<1>. QED  BY <1>1, <1>4 DEF Framed

LEMMA NextFramed ==
  ASSUME NEW n, NEW nth, Numbered(n, nth) PROVE Types /\ Framed(n, nth) /\ [Next]_vars => Framed(n, nth)'
<1> SUFFICES ASSUME Types, Framed(n, nth), [Next]_vars PROVE Framed(n, nth)'
  OBVIOUS
<1>1. CASE UNCHANGED <<k, lost, wire, f>>
  BY <1>1 DEF Framed
<1>. QED  BY <1>1, OtherSteps, SendFrames, ReceiveFrames

\* However short the files and in whatever order the senders take turns, four datagrams make
\* a record again once every sender is between two and none was lost (mainserver.c:158-229,
\* subserver.c:203-220).
THEOREM RecordsRecover == Spec => []FramingRecovers
<1>1. PICK n \in Nat : \E nth \in [1 .. n -> Subservers] : Numbered(n, nth)
  BY Numbering
<1>2. PICK nth \in [1 .. n -> Subservers] : Numbered(n, nth)
  BY <1>1
<1>3. Init => Framed(n, nth)
  BY <1>2, FramedStarts
<1>4. Types /\ Framed(n, nth) /\ [Next]_vars => Framed(n, nth)'
  BY <1>2, NextFramed
<1>5. Types /\ Framed(n, nth) => FramingRecovers
  <2> SUFFICES ASSUME Types, Framed(n, nth), wire = <<>>, lost = 0, \A s \in Subservers : k[s] = 1
               PROVE  f = 1
    BY DEF FramingRecovers
  <2>1. PICK p \in [0 .. n -> Int] :
          Sums(p, n, nth, k) /\ p[n] - Len(wire) - (f - 1) \in Fours
    BY DEF Framed
  <2>2. p[n] = 0
    BY <1>2, <2>1, NothingBegun
  <2>3. Len(wire) = 0
    BY EmptySeq
  <2>4. f \in 1 .. 4
    BY DEF Types, Fields
  <2>5. 0 - 0 - (f - 1) \in Fours
    BY <2>1, <2>2, <2>3
  <2>. QED  BY <2>4, <2>5, InFours
<1>. QED  BY <1>3, <1>4, <1>5, AlwaysTyped, PTL DEF Spec
=============================================================================
