----------------------- MODULE FrameworkServerProofs -----------------------
(***************************************************************************)
(* Theorems about FrameworkServer, for any clients, their manners, and any *)
(* number of threads and requests.                                         *)
(***************************************************************************)
EXTENDS FrameworkServer, SequenceTheorems, TLAPS

Items == [c : Clients, text : {"whole", "part"}]
Held  == {"parse", "exists", "check", "load", "write"}

Types ==
  /\ manner \in [Clients -> Manners] /\ file \in [Clients -> FileStates]
  /\ pc \in {"start", "accept", "read", "stop", "sleep"}
  /\ pc = "read" => clientSocket \in Clients
  /\ backlog \in Seq(Clients) /\ queue \in Seq(Items)
  /\ conn \in [Clients -> {"none", "open", "gone", "collected", "reset"}]
  /\ arrived \in [Clients -> {"nothing", "part", "whole"}]
  /\ at \in [Threads -> {"idle"} \cup Held]
  /\ item \in [Threads -> Items \cup {None}]
  /\ \A t \in Threads : at[t] \in Held <=> item[t].c # "nobody"
  /\ responce \in [Threads -> {"none", "404", "403", "file"}]
  /\ answers \in [Clients -> Seq({"none", "404", "403", "file"})]

LEMMA InitTypes == Init => Types
<1> SUFFICES ASSUME Init PROVE Types
  OBVIOUS
<1>1. manner \in [Clients -> Manners]
  BY FrameworkAssumption DEF FrameworkAssumption, Init
<1>. QED  BY <1>1 DEF Init, Types, Held, None

\* A thread that is not idle has an item.
LEMMA HeldItem ==
  ASSUME Types, NEW t \in Threads
  PROVE  /\ at[t] \in Held => item[t] \in Items /\ item[t].c \in Clients
         /\ at[t] = "idle" => item[t] = None
  BY FrameworkAssumption DEF FrameworkAssumption, Types, Items, None, Held

LEMMA ClientTypes ==
  ASSUME Types, NEW c \in Clients,
         Connect(c) \/ Request(c) \/ RestArrives(c) \/ Leave(c) \/ FileChanges(c) \/ Collect(c)
  PROVE  Types'
<1> USE DEF fixed, boss, client, pool
<1>1. CASE Connect(c)
  <2>1. backlog' \in Seq(Clients)
    BY <1>1, AppendProperties DEF Connect, Types
  <2>. QED  BY <1>1, <2>1 DEF Connect, Types
<1>2. CASE Request(c)
  <2>1. arrived' \in [Clients -> {"nothing", "part", "whole"}]
    BY <1>2 DEF Request, Types
  <2>. QED  BY <1>2, <2>1 DEF Request, Types
<1>3. CASE RestArrives(c)
  BY <1>3 DEF RestArrives, Types
<1>4. CASE Leave(c)
  BY <1>4 DEF Leave, Types
<1>5. CASE FileChanges(c)
  <2>1. file' \in [Clients -> FileStates]
    BY <1>5 DEF FileChanges, Types
  <2>. QED  BY <1>5, <2>1 DEF FileChanges, Types
<1>6. CASE Collect(c)
  BY <1>6 DEF Collect, Types
<1>. QED  BY <1>1, <1>2, <1>3, <1>4, <1>5, <1>6

LEMMA MainTypes == ASSUME Types, Main PROVE Types'
<1> USE DEF fixed, client, pool
<1>1. CASE Start
  BY <1>1 DEF Start, At, Types
<1>2. CASE AcceptTcpClient
  <2>1. clientSocket' \in Clients /\ backlog' \in Seq(Clients)
    BY <1>2, HeadTailProperties DEF AcceptTcpClient, Types
  <2>. QED  BY <1>2, <2>1 DEF AcceptTcpClient, Types
<1>3. CASE Read
  <2>1. clientSocket \in Clients
    BY <1>3 DEF Read, At, Types
  <2>2. queue' \in Seq(Items)
    <3>1. CASE arrived[clientSocket] = "nothing"
      BY <1>3, <3>1 DEF Read, Types
    <3>2. CASE arrived[clientSocket] # "nothing"
      <4>1. [c |-> clientSocket, text |-> arrived[clientSocket]] \in Items
        BY <2>1, <3>2 DEF Types, Items
      <4>. QED  BY <1>3, <3>2, <4>1, AppendProperties DEF Read, Types
    <3>. QED  BY <3>1, <3>2
  <2>. QED  BY <1>3, <2>1, <2>2 DEF Read, Types
<1>4. CASE Stop
  <2>1. conn' \in [Clients -> {"none", "open", "gone", "collected", "reset"}]
    BY <1>4 DEF Stop, Reset, Types
  <2>. QED  BY <1>4, <2>1 DEF Stop, Types
<1>5. CASE Sleep
  BY <1>5 DEF Sleep, At, Types
<1>. QED  BY <1>1, <1>2, <1>3, <1>4, <1>5 DEF Main

LEMMA ThreadTypes == ASSUME Types, NEW t \in Threads, ThreadProc(t) PROVE Types'
<1>1. at[t] \in Held => item[t].c \in Clients
  BY HeldItem
<1> USE DEF fixed, boss, client, pool, Working, GoTo, Respond, Throw
<1>2. CASE Take(t)
  <2>1. queue' \in Seq(Items) /\ Head(queue) \in Items
    BY <1>2, HeadTailProperties DEF Take, Types
  <2>2. Head(queue).c # "nobody"
    BY <2>1, FrameworkAssumption DEF FrameworkAssumption, Items
  <2>. QED  BY <1>2, <2>1, <2>2 DEF Take, Types, Held
<1>3. CASE Parse(t)
  BY <1>3 DEF Parse, Types, Held
<1>4. CASE Exists(t)
  BY <1>4 DEF Exists, Types, Held
<1>5. CASE IsReadable(t)
  BY <1>5 DEF IsReadable, Types, Held
<1>6. CASE ReadFully(t)
  BY <1>6 DEF ReadFully, Types, Held
<1>7. CASE Write(t)
  <2>1. CASE UNCHANGED <<at, item, responce, answers>>
    BY <1>7, <2>1 DEF Write, Types
  <2>2. CASE /\ at' = [at EXCEPT ![t] = "idle"] /\ item' = [item EXCEPT ![t] = None]
             /\ responce' = [responce EXCEPT ![t] = "none"]
             /\ answers' = [answers EXCEPT ![item[t].c] = Append(@, responce[t])]
    <3>1. answers' \in [Clients -> Seq({"none", "404", "403", "file"})]
      <4>1. Append(answers[item[t].c], responce[t]) \in Seq({"none", "404", "403", "file"})
        BY <1>1, <1>7, AppendProperties DEF Write, Types, Held
      <4>. QED  BY <2>2, <4>1 DEF Types
    <3>. QED  BY <1>7, <2>2, <3>1 DEF Write, Types, Held, None
  <2>. QED  BY <1>7, <2>1, <2>2 DEF Write
<1>. QED  BY <1>2, <1>3, <1>4, <1>5, <1>6, <1>7 DEF ThreadProc

LEMMA NextTypes == Types /\ [Next]_vars => Types'
<1> SUFFICES ASSUME Types, [Next]_vars PROVE Types'
  OBVIOUS
<1>1. CASE UNCHANGED vars
  BY <1>1 DEF vars, fixed, boss, client, pool, Types
<1>2. CASE Next
  BY <1>2, ClientTypes, MainTypes, ThreadTypes DEF Next
<1>. QED  BY <1>1, <1>2

-----------------------------------------------------------------------------
(* Where a client's connection is: waiting to be accepted, read by Main(), *)
(* queued, held by a thread of the pool, or answered.                      *)

Waits(c)  == \E n \in 1 .. Len(backlog) : backlog[n] = c
Reads(c)  == pc = "read" /\ clientSocket = c
Queued(c) == \E n \in 1 .. Len(queue) : queue[n].c = c
HeldBy(c) == \E t \in Threads : item[t].c = c
Live(c)   == Waits(c) \/ Reads(c) \/ Queued(c) \/ HeldBy(c)

\* It is in one of these places, and there once.
Once ==
  /\ \A m, n \in 1 .. Len(backlog) : backlog[m] = backlog[n] => m = n
  /\ \A m, n \in 1 .. Len(queue) : queue[m].c = queue[n].c => m = n
  /\ \A t, u \in Threads : item[t].c = item[u].c /\ item[t].c # "nobody" => t = u

OnePlace(c) ==
  /\ Waits(c) => ~Reads(c) /\ ~Queued(c) /\ ~HeldBy(c)
  /\ Reads(c) => ~Queued(c) /\ ~HeldBy(c)
  /\ Queued(c) => ~HeldBy(c)
  /\ Live(c) => answers[c] = <<>> /\ conn[c] \in {"open", "gone"}
  /\ answers[c] # <<>> => Len(answers[c]) = 1 /\ conn[c] \in {"open", "gone", "collected"}
  /\ conn[c] = "gone" => manner[c] = "leaves"

PlaceInv == Types /\ Once /\ \A c \in Clients : OnePlace(c)

LEMMA PlaceKept ==
  ASSUME PlaceInv, Types', UNCHANGED <<fixed, backlog, queue, item, answers>>,
         NEW c \in Clients, Reads(c)' => Reads(c),
         Live(c) => conn'[c] \in {"open", "gone"},
         conn'[c] \in {conn[c], "gone", "collected"},
         conn'[c] = "gone" => conn[c] = "gone" \/ manner[c] = "leaves"
  PROVE  OnePlace(c)'
<1>1. OnePlace(c)
  BY DEF PlaceInv
<1>2. (Waits(c)' <=> Waits(c)) /\ (Queued(c)' <=> Queued(c)) /\ (HeldBy(c)' <=> HeldBy(c))
  BY DEF Waits, Queued, HeldBy
<1>3. Live(c)' => Live(c)
  BY <1>2 DEF Live
<1>. QED  BY <1>1, <1>2, <1>3 DEF OnePlace, fixed, Live

LEMMA ClientPlace ==
  ASSUME PlaceInv, NEW c \in Clients,
         Connect(c) \/ Request(c) \/ RestArrives(c) \/ Leave(c) \/ FileChanges(c) \/ Collect(c)
  PROVE  PlaceInv'
<1>1. Types' /\ Types
  BY ClientTypes DEF PlaceInv
<1>2. CASE Connect(c)
  <2>1. /\ backlog' = Append(backlog, c) /\ conn' = [conn EXCEPT ![c] = "open"] /\ conn[c] = "none"
        /\ UNCHANGED <<fixed, pc, clientSocket, queue, item, answers>>
    BY <1>2 DEF Connect, pool
  <2>2. /\ Len(backlog') = Len(backlog) + 1 /\ Len(backlog) \in Nat
        /\ \A n \in 1 .. Len(backlog) : backlog'[n] = backlog[n]
        /\ backlog'[Len(backlog) + 1] = c
    BY <1>1, <2>1, AppendProperties, LenProperties DEF Types
  <2>3. ~Live(c) /\ answers[c] = <<>>
    BY <2>1 DEF PlaceInv, OnePlace
  <2>4. \A m, n \in 1 .. Len(backlog') : backlog'[m] = backlog'[n] => m = n
    <3>1. ASSUME NEW m \in 1 .. Len(backlog'), NEW n \in 1 .. Len(backlog'), backlog'[m] = backlog'[n]
          PROVE  m = n
      <4>1. m \in 1 .. Len(backlog) \/ m = Len(backlog) + 1
        BY <2>2
      <4>2. n \in 1 .. Len(backlog) \/ n = Len(backlog) + 1
        BY <2>2
      <4>. QED  BY <2>2, <2>3, <3>1, <4>1, <4>2 DEF PlaceInv, Once, Live, Waits
    <3>. QED  BY <3>1
  <2>5. ASSUME NEW d \in Clients PROVE OnePlace(d)'
    <3>1. OnePlace(d)
      BY DEF PlaceInv
    <3>2. /\ Waits(d)' <=> (Waits(d) \/ d = c)
          /\ Reads(d)' <=> Reads(d)
          /\ Queued(d)' <=> Queued(d)
          /\ HeldBy(d)' <=> HeldBy(d)
      <4>1. Waits(d)' <=> (Waits(d) \/ d = c)
        BY <2>2 DEF Waits
      <4>. QED  BY <2>1, <4>1 DEF Reads, Queued, HeldBy
    <3>3. conn'[d] = IF d = c THEN "open" ELSE conn[d]
      BY <1>1, <2>1 DEF Types
    <3>. QED  BY <2>1, <2>3, <3>1, <3>2, <3>3 DEF OnePlace, Live, fixed
  <2>. QED  BY <1>1, <2>1, <2>4, <2>5 DEF PlaceInv, Once
<1>3. CASE Request(c) \/ RestArrives(c) \/ FileChanges(c)
  <2>1. UNCHANGED <<fixed, backlog, queue, item, answers, pc, clientSocket, conn>>
    BY <1>3 DEF Request, RestArrives, FileChanges, boss, pool
  <2>2. ASSUME NEW d \in Clients PROVE OnePlace(d)'
    BY <1>1, <2>1, PlaceKept DEF Reads, PlaceInv, OnePlace
  <2>. QED  BY <1>1, <2>1, <2>2 DEF PlaceInv, Once
<1>4. CASE Leave(c)
  <2>1. /\ UNCHANGED <<fixed, backlog, queue, item, answers, pc, clientSocket>>
        /\ conn' = [conn EXCEPT ![c] = "gone"] /\ manner[c] = "leaves"
    BY <1>4 DEF Leave, boss, pool
  <2>2. ASSUME NEW d \in Clients PROVE OnePlace(d)'
    <3>1. conn'[d] = IF d = c THEN "gone" ELSE conn[d]
      BY <1>1, <2>1 DEF Types
    <3>. QED  BY <1>1, <2>1, <3>1, PlaceKept DEF Reads, PlaceInv, OnePlace
  <2>. QED  BY <1>1, <2>1, <2>2 DEF PlaceInv, Once
<1>5. CASE Collect(c)
  <2>1. /\ UNCHANGED <<fixed, backlog, queue, item, answers, pc, clientSocket>>
        /\ conn' = [conn EXCEPT ![c] = "collected"] /\ ~Contains(backlog, c) /\ ~InUse(c)
    BY <1>5 DEF Collect, boss, pool
  <2>2. ~Live(c)
    BY <1>1, <2>1, LenProperties DEF Contains, InUse, Live, Waits, Reads, Queued, HeldBy, Types
  <2>3. ASSUME NEW d \in Clients PROVE OnePlace(d)'
    <3>1. conn'[d] = IF d = c THEN "collected" ELSE conn[d]
      BY <1>1, <2>1 DEF Types
    <3>. QED  BY <1>1, <2>1, <2>2, <3>1, PlaceKept DEF Reads, PlaceInv, OnePlace
  <2>. QED  BY <1>1, <2>1, <2>3 DEF PlaceInv, Once
<1>. QED  BY <1>2, <1>3, <1>4, <1>5

LEMMA MainPlace == ASSUME PlaceInv, Main PROVE PlaceInv'
<1>1. Types' /\ Types
  BY MainTypes DEF PlaceInv
<1>2. CASE Start \/ Sleep
  <2>1. UNCHANGED <<fixed, backlog, queue, item, answers, conn>> /\ pc' # "read"
    BY <1>2 DEF Start, Sleep, pool
  <2>2. ASSUME NEW d \in Clients PROVE OnePlace(d)'
    BY <1>1, <2>1, PlaceKept DEF Reads, PlaceInv, OnePlace
  <2>. QED  BY <1>1, <2>1, <2>2 DEF PlaceInv, Once
<1>3. CASE AcceptTcpClient
  <2>1. /\ backlog # <<>> /\ clientSocket' = Head(backlog) /\ backlog' = Tail(backlog)
        /\ pc = "accept" /\ pc' = "read" /\ UNCHANGED <<fixed, queue, item, answers, conn>>
    BY <1>3 DEF AcceptTcpClient, At, pool
  <2>2. /\ Len(backlog) \in Nat \ {0} /\ Len(backlog') = Len(backlog) - 1
        /\ \A n \in 1 .. Len(backlog') : backlog'[n] = backlog[n + 1]
        /\ clientSocket' = backlog[1]
    BY <1>1, <2>1, HeadTailProperties, EmptySeq DEF Types
  <2>3. \A m, n \in 1 .. Len(backlog') : backlog'[m] = backlog'[n] => m = n
    <3>1. ASSUME NEW m \in 1 .. Len(backlog'), NEW n \in 1 .. Len(backlog'), backlog'[m] = backlog'[n]
          PROVE  m = n
      <4>1. /\ m + 1 \in 1 .. Len(backlog) /\ n + 1 \in 1 .. Len(backlog)
            /\ backlog[m + 1] = backlog[n + 1]
        BY <2>2, <3>1
      <4>2. m + 1 = n + 1
        BY <4>1 DEF PlaceInv, Once
      <4>. QED  BY <4>2
    <3>. QED  BY <3>1
  <2>4. ASSUME NEW d \in Clients PROVE OnePlace(d)'
    <3>1. OnePlace(d)
      BY DEF PlaceInv
    <3>2. Waits(d)' => Waits(d) /\ d # clientSocket'
      <4>1. ASSUME NEW n \in 1 .. Len(backlog'), backlog'[n] = d
            PROVE  Waits(d) /\ d # clientSocket'
        <5>1. n + 1 \in 1 .. Len(backlog) /\ backlog[n + 1] = d /\ 1 \in 1 .. Len(backlog) /\ n + 1 # 1
          BY <2>2, <4>1
        <5>2. backlog[n + 1] # backlog[1]
          BY <5>1 DEF PlaceInv, Once
        <5>. QED  BY <2>2, <5>1, <5>2 DEF Waits
      <4>. QED  BY <4>1 DEF Waits
    <3>3. Reads(d)' => Waits(d)
      <4>1. 1 \in 1 .. Len(backlog)
        BY <2>2
      <4>. QED  BY <2>2, <4>1 DEF Reads, Waits
    <3>4. ~Reads(d) /\ (Reads(d)' => d = clientSocket')
      BY <2>1 DEF Reads
    <3>5. (Queued(d)' <=> Queued(d)) /\ (HeldBy(d)' <=> HeldBy(d))
      BY <2>1 DEF Queued, HeldBy
    <3>. QED  BY <2>1, <3>1, <3>2, <3>3, <3>4, <3>5 DEF OnePlace, Live, fixed
  <2>. QED  BY <1>1, <2>1, <2>3, <2>4 DEF PlaceInv, Once
<1>4. CASE Read
  <2>1. /\ pc = "read" /\ pc' = "stop" /\ UNCHANGED <<fixed, backlog, item, answers, conn>>
        /\ \/ queue' = queue
           \/ queue' = Append(queue, [c |-> clientSocket, text |-> arrived[clientSocket]])
              /\ arrived[clientSocket] # "nothing"
    BY <1>4 DEF Read, At, pool
  <2>2. CASE queue' = queue
    <3>1. ASSUME NEW d \in Clients PROVE OnePlace(d)'
      BY <1>1, <2>1, <2>2, PlaceKept DEF Reads, PlaceInv, OnePlace
    <3>. QED  BY <1>1, <2>1, <2>2, <3>1 DEF PlaceInv, Once
  <2>3. CASE /\ queue' = Append(queue, [c |-> clientSocket, text |-> arrived[clientSocket]])
             /\ arrived[clientSocket] # "nothing"
    <3>1. clientSocket \in Clients
      BY <1>1, <2>1 DEF Types
    <3>2. [c |-> clientSocket, text |-> arrived[clientSocket]] \in Items
      BY <1>1, <2>3, <3>1 DEF Types, Items
    <3>3. /\ Len(queue') = Len(queue) + 1 /\ Len(queue) \in Nat
          /\ \A n \in 1 .. Len(queue) : queue'[n] = queue[n]
          /\ queue'[Len(queue) + 1].c = clientSocket
      BY <1>1, <2>3, <3>2, AppendProperties, LenProperties DEF Types
    <3>4. Reads(clientSocket) /\ ~Queued(clientSocket)
      BY <2>1, <3>1 DEF PlaceInv, OnePlace, Reads
    <3>5. \A m, n \in 1 .. Len(queue') : queue'[m].c = queue'[n].c => m = n
      <4>1. ASSUME NEW m \in 1 .. Len(queue'), NEW n \in 1 .. Len(queue'), queue'[m].c = queue'[n].c
            PROVE  m = n
        <5>1. m \in 1 .. Len(queue) \/ m = Len(queue) + 1
          BY <3>3
        <5>2. n \in 1 .. Len(queue) \/ n = Len(queue) + 1
          BY <3>3
        <5>. QED  BY <3>3, <3>4, <4>1, <5>1, <5>2 DEF PlaceInv, Once, Queued
      <4>. QED  BY <4>1
    <3>6. ASSUME NEW d \in Clients PROVE OnePlace(d)'
      <4>1. OnePlace(d)
        BY DEF PlaceInv
      <4>2. Queued(d)' <=> (Queued(d) \/ Reads(d))
        BY <2>1, <3>3 DEF Queued, Reads
      <4>3. ~Reads(d)' /\ (Waits(d)' <=> Waits(d)) /\ (HeldBy(d)' <=> HeldBy(d))
        BY <2>1 DEF Reads, Waits, HeldBy
      <4>. QED  BY <2>1, <4>1, <4>2, <4>3 DEF OnePlace, Live, fixed
    <3>. QED  BY <1>1, <2>1, <3>5, <3>6 DEF PlaceInv, Once
  <2>. QED  BY <2>1, <2>2, <2>3
<1>5. CASE Stop
  <2>1. /\ conn' = Reset(ToSet(backlog)) /\ backlog' = <<>> /\ pc' = "sleep"
        /\ UNCHANGED <<fixed, queue, item, answers>>
    BY <1>5 DEF Stop, pool
  <2>2. Len(backlog') = 0
    BY <2>1
  <2>3. ASSUME NEW d \in Clients PROVE OnePlace(d)'
    <3>1. OnePlace(d)
      BY DEF PlaceInv
    <3>2. ~Waits(d)' /\ ~Reads(d)' /\ (Queued(d)' <=> Queued(d)) /\ (HeldBy(d)' <=> HeldBy(d))
      BY <2>1, <2>2 DEF Waits, Reads, Queued, HeldBy
    <3>3. conn'[d] = conn[d] \/ (conn'[d] = "reset" /\ Waits(d))
      BY <1>1, <2>1, LenProperties DEF Reset, ToSet, Waits, Types
    <3>. QED  BY <2>1, <3>1, <3>2, <3>3 DEF OnePlace, Live, fixed
  <2>. QED  BY <1>1, <2>1, <2>2, <2>3 DEF PlaceInv, Once
<1>. QED  BY <1>2, <1>3, <1>4, <1>5 DEF Main

LEMMA ThreadPlace == ASSUME PlaceInv, NEW t \in Threads, ThreadProc(t) PROVE PlaceInv'
<1>1. Types' /\ Types
  BY ThreadTypes DEF PlaceInv
<1> USE DEF Working, GoTo, Respond, Throw, boss, pool
<1>2. CASE Take(t)
  <2>1. /\ queue # <<>> /\ queue' = Tail(queue) /\ item' = [item EXCEPT ![t] = Head(queue)]
        /\ at[t] = "idle" /\ UNCHANGED <<fixed, backlog, pc, clientSocket, answers, conn>>
    BY <1>2 DEF Take
  <2>2. /\ Len(queue) \in Nat \ {0} /\ Len(queue') = Len(queue) - 1
        /\ \A n \in 1 .. Len(queue') : queue'[n] = queue[n + 1]
        /\ Head(queue) = queue[1] /\ 1 \in 1 .. Len(queue)
    BY <1>1, <2>1, HeadTailProperties, EmptySeq DEF Types
  <2>3. item[t] = None /\ \A u \in Threads : item'[u] = IF u = t THEN queue[1] ELSE item[u]
    BY <1>1, <2>1, <2>2, HeldItem DEF Types
  <2>4. queue[1].c \in Clients /\ queue[1].c # "nobody" /\ Queued(queue[1].c)
    <3>1. queue[1] \in Items
      BY <1>1, <2>2, ElementOfSeq DEF Types
    <3>. QED  BY <2>2, <3>1, FrameworkAssumption DEF FrameworkAssumption, Items, Queued
  <2>5. \A m, n \in 1 .. Len(queue') : queue'[m].c = queue'[n].c => m = n
    <3>1. ASSUME NEW m \in 1 .. Len(queue'), NEW n \in 1 .. Len(queue'), queue'[m].c = queue'[n].c
          PROVE  m = n
      <4>1. /\ m + 1 \in 1 .. Len(queue) /\ n + 1 \in 1 .. Len(queue)
            /\ queue[m + 1].c = queue[n + 1].c
        BY <2>2, <3>1
      <4>2. m + 1 = n + 1
        BY <4>1 DEF PlaceInv, Once
      <4>. QED  BY <4>2
    <3>. QED  BY <3>1
  <2>6. \A u, v \in Threads : item'[u].c = item'[v].c /\ item'[u].c # "nobody" => u = v
    <3>1. ~HeldBy(queue[1].c)
      BY <2>4 DEF PlaceInv, OnePlace
    <3>. QED  BY <2>3, <2>4, <3>1 DEF PlaceInv, Once, HeldBy
  <2>7. ASSUME NEW d \in Clients PROVE OnePlace(d)'
    <3>1. OnePlace(d)
      BY DEF PlaceInv
    <3>2. Queued(d)' => Queued(d) /\ d # queue[1].c
      <4>1. ASSUME NEW n \in 1 .. Len(queue'), queue'[n].c = d
            PROVE  Queued(d) /\ d # queue[1].c
        <5>1. n + 1 \in 1 .. Len(queue) /\ queue[n + 1].c = d /\ n + 1 # 1
          BY <2>2, <4>1
        <5>2. queue[n + 1].c # queue[1].c
          BY <2>2, <5>1 DEF PlaceInv, Once
        <5>. QED  BY <5>1, <5>2 DEF Queued
      <4>. QED  BY <4>1 DEF Queued
    <3>3. HeldBy(d)' => HeldBy(d) \/ d = queue[1].c
      BY <2>3 DEF HeldBy
    <3>4. (Waits(d)' <=> Waits(d)) /\ (Reads(d)' <=> Reads(d))
      BY <2>1 DEF Waits, Reads
    <3>. QED  BY <2>1, <2>4, <3>1, <3>2, <3>3, <3>4 DEF OnePlace, Live, fixed
  <2>. QED  BY <1>1, <2>1, <2>5, <2>6, <2>7 DEF PlaceInv, Once
<1>3. CASE \/ Parse(t) \/ Exists(t) \/ IsReadable(t) \/ ReadFully(t)
           \/ (Write(t) /\ UNCHANGED <<item, answers>>)
  <2>1. UNCHANGED <<fixed, backlog, queue, item, answers, pc, clientSocket, conn>>
    BY <1>3 DEF Parse, Exists, IsReadable, ReadFully, Write
  <2>2. ASSUME NEW d \in Clients PROVE OnePlace(d)'
    BY <1>1, <2>1, PlaceKept DEF Reads, PlaceInv, OnePlace
  <2>. QED  BY <1>1, <2>1, <2>2 DEF PlaceInv, Once
<1>4. CASE /\ Write(t) /\ item' = [item EXCEPT ![t] = None]
           /\ answers' = [answers EXCEPT ![item[t].c] = Append(@, responce[t])]
  <2>1. item[t].c \in Clients /\ responce[t] \in {"none", "404", "403", "file"}
    BY <1>1, <1>4, HeldItem DEF Write, Held, Types
  <2>2. HeldBy(item[t].c) /\ answers[item[t].c] = <<>>
    BY <2>1 DEF PlaceInv, OnePlace, HeldBy, Live
  <2>3. Len(Append(answers[item[t].c], responce[t])) = 1
    BY <1>1, <2>1, <2>2, AppendProperties, EmptySeq DEF Types
  <2>4. /\ \A d \in Clients : answers'[d] = IF d = item[t].c THEN Append(answers[d], responce[t])
                                                         ELSE answers[d]
        /\ \A u \in Threads : item'[u] = IF u = t THEN None ELSE item[u]
    BY <1>1, <1>4 DEF Types
  <2>5. UNCHANGED <<fixed, backlog, queue, pc, clientSocket, conn>>
    BY <1>4 DEF Write
  <2>6. \A u, v \in Threads : item'[u].c = item'[v].c /\ item'[u].c # "nobody" => u = v
    BY <2>4 DEF PlaceInv, Once, None
  <2>7. ASSUME NEW d \in Clients PROVE OnePlace(d)'
    <3>1. OnePlace(d)
      BY DEF PlaceInv
    <3>2. HeldBy(d)' => HeldBy(d) /\ d # item[t].c
      <4>1. ASSUME NEW u \in Threads, item'[u].c = d PROVE HeldBy(d) /\ d # item[t].c
        <5>1. d # "nobody"
          BY FrameworkAssumption DEF FrameworkAssumption
        <5>2. u # t /\ item[u].c = d
          BY <2>4, <4>1, <5>1 DEF None
        <5>. QED  BY <5>1, <5>2 DEF HeldBy, PlaceInv, Once
      <4>. QED  BY <4>1 DEF HeldBy
    <3>3. (Waits(d)' <=> Waits(d)) /\ (Reads(d)' <=> Reads(d)) /\ (Queued(d)' <=> Queued(d))
      BY <2>5 DEF Waits, Reads, Queued
    <3>4. CASE d = item[t].c
      <4>1. ~Live(d)' /\ Len(answers'[d]) = 1 /\ answers'[d] # <<>> /\ conn'[d] \in {"open", "gone"}
        <5>1. Append(answers[d], responce[t]) # <<>>
          <6> DEFINE S == {"none", "404", "403", "file"}
          <6>1. answers[d] \in Seq(S) /\ responce[t] \in S
            BY <1>1, <2>1 DEF Types
          <6>. HIDE DEF S
          <6>. QED  BY <6>1, AppendProperties
        <5>. QED  BY <2>2, <2>3, <2>4, <2>5, <3>1, <3>2, <3>3, <3>4, <5>1 DEF OnePlace, Live
      <4>. QED  BY <2>5, <3>1, <4>1 DEF OnePlace, Live, fixed
    <3>5. CASE d # item[t].c
      BY <2>4, <2>5, <3>1, <3>2, <3>3, <3>5 DEF OnePlace, Live, fixed
    <3>. QED  BY <3>4, <3>5
  <2>. QED  BY <1>1, <2>5, <2>6, <2>7 DEF PlaceInv, Once
<1>5. Write(t) => \/ UNCHANGED <<item, answers>>
                  \/ /\ item' = [item EXCEPT ![t] = None]
                     /\ answers' = [answers EXCEPT ![item[t].c] = Append(@, responce[t])]
  BY DEF Write
<1>. QED  BY <1>2, <1>3, <1>4, <1>5 DEF ThreadProc

LEMMA NextPlace == PlaceInv /\ [Next]_vars => PlaceInv'
<1> SUFFICES ASSUME PlaceInv, [Next]_vars PROVE PlaceInv'
  OBVIOUS
<1>1. CASE UNCHANGED vars
  <2>1. Types'
    BY NextTypes DEF PlaceInv
  <2>. QED  BY <1>1, <2>1 DEF vars, boss, fixed, pool, PlaceInv, Once, OnePlace, Live, Waits, Reads,
               Queued, HeldBy
<1>2. CASE Next
  BY <1>2, ClientPlace, MainPlace, ThreadPlace DEF Next
<1>. QED  BY <1>1, <1>2

LEMMA InitPlace == Init => PlaceInv
<1> SUFFICES ASSUME Init PROVE PlaceInv
  OBVIOUS
<1>1. Len(backlog) = 0 /\ Len(queue) = 0
  BY DEF Init
<1>2. \A t \in Threads : item[t].c = "nobody"
  BY DEF Init, None
<1>3. ASSUME NEW c \in Clients PROVE OnePlace(c)
  <2>1. ~Live(c)
    BY <1>1, <1>2, FrameworkAssumption DEF FrameworkAssumption, Init, Live, Waits, Reads, Queued, HeldBy
  <2>. QED  BY <2>1 DEF Init, OnePlace, Live
<1>. QED  BY <1>1, <1>2, <1>3, InitTypes DEF PlaceInv, Once

LEMMA AlwaysPlace == Spec => []PlaceInv
  BY InitPlace, NextPlace, PTL DEF Spec

\* Stopping the listener resets only connections of which nothing was read.
THEOREM ResetsAreUnread == Spec => []ResetMeansUnread
<1>1. ASSUME PlaceInv PROVE ResetMeansUnread
  <2>1. ASSUME NEW c \in Clients, conn[c] = "reset", Taken(c) PROVE FALSE
    <3>1. OnePlace(c)
      BY <1>1 DEF PlaceInv
    <3>2. answers[c] # <<>> \/ Live(c)
      BY <1>1, <2>1, LenProperties DEF Taken, Live, Queued, HeldBy, PlaceInv, Types
    <3>. QED  BY <2>1, <3>1, <3>2 DEF OnePlace
  <2>. QED  BY <2>1 DEF ResetMeansUnread
<1>. QED  BY <1>1, AlwaysPlace, PTL

-----------------------------------------------------------------------------
(* What an exception needs, and what is answered.                          *)

\* Only a client that cuts its requests has a piece of one on its way, queued or held.
Cut ==
  /\ \A c \in Clients : arrived[c] = "part" => manner[c] = "cuts"
  /\ \A n \in 1 .. Len(queue) : queue[n].text = "part" => manner[queue[n].c] = "cuts"
  /\ \A t \in Threads : item[t].text = "part" => manner[item[t].c] = "cuts"

\* While no file changes, a thread is where the state of its item's file sends it, and what
\* it will answer, or somebody has answered, is what that state calls for.
Apt ==
  ~filesChange =>
    /\ \A t \in Threads : /\ at[t] = "check" => FileOf(t) # "absent"
                          /\ at[t] = "load" => FileOf(t) = "readable"
                          /\ at[t] = "write" => responce[t] = Expected(FileOf(t))
    /\ \A c \in Clients : answers[c] # <<>> => answers[c][1] = Expected(file[c])

QuietInv == PlaceInv /\ Cut /\ Apt /\ QuietClientsKeepItUp

LEMMA ClientQuiet ==
  ASSUME QuietInv, NEW c \in Clients,
         Connect(c) \/ Request(c) \/ RestArrives(c) \/ Leave(c) \/ FileChanges(c) \/ Collect(c)
  PROVE  Cut' /\ Apt' /\ QuietClientsKeepItUp'
<1>1. Types
  BY DEF QuietInv, PlaceInv
<1>2. UNCHANGED <<manner, filesChange, queue, at, item, responce, answers, up>>
  BY DEF Connect, Request, RestArrives, Leave, FileChanges, Collect, fixed, pool
<1>3. QuietClientsKeepItUp'
  BY <1>2 DEF QuietInv, QuietClientsKeepItUp
<1>4. file' = file \/ filesChange
  BY DEF Connect, Request, RestArrives, Leave, FileChanges, Collect
<1>5. Apt'
  BY <1>2, <1>4 DEF QuietInv, Apt, FileOf
<1>6. ASSUME NEW d \in Clients, arrived'[d] = "part" PROVE manner[d] = "cuts"
  <2>1. CASE Request(c)
    <3>1. PICK text \in {"whole"} \cup (IF manner[c] = "cuts" /\ arrived[c] = "nothing"
                                       THEN {"part"} ELSE {}) :
            arrived' = [arrived EXCEPT ![c] = text]
      BY <2>1 DEF Request
    <3>. QED  BY <1>1, <1>6, <3>1 DEF Types, QuietInv, Cut
  <2>2. CASE RestArrives(c)
    BY <1>1, <1>6, <2>2 DEF RestArrives, Types, QuietInv, Cut
  <2>3. CASE arrived' = arrived
    BY <1>6, <2>3 DEF QuietInv, Cut
  <2>4. arrived' = arrived \/ Request(c) \/ RestArrives(c)
    BY DEF Connect, Leave, FileChanges, Collect, client
  <2>. QED  BY <2>1, <2>2, <2>3, <2>4
<1>7. Cut'
  BY <1>2, <1>6 DEF QuietInv, Cut
<1>. QED  BY <1>3, <1>5, <1>7

LEMMA MainQuiet == ASSUME QuietInv, Main PROVE Cut' /\ Apt' /\ QuietClientsKeepItUp'
<1>1. Types
  BY DEF QuietInv, PlaceInv
<1>2. UNCHANGED <<manner, filesChange, file, at, item, responce, answers, up>>
  BY DEF Main, Start, AcceptTcpClient, Read, Stop, Sleep, fixed, pool
<1>3. QuietClientsKeepItUp' /\ Apt'
  BY <1>2 DEF QuietInv, QuietClientsKeepItUp, Apt, FileOf
<1>4. Cut'
  <2>1. CASE Read
    <3>1. clientSocket \in Clients
      BY <1>1, <2>1 DEF Read, At, Types
    <3>2. \A d \in Clients : arrived'[d] = "part" => manner[d] = "cuts"
      BY <1>1, <2>1 DEF Read, Types, QuietInv, Cut
    <3>3. CASE queue' = queue
      BY <1>2, <3>2, <3>3 DEF QuietInv, Cut
    <3>4. CASE /\ arrived[clientSocket] # "nothing"
               /\ queue' = Append(queue, [c |-> clientSocket, text |-> arrived[clientSocket]])
      <4>1. [c |-> clientSocket, text |-> arrived[clientSocket]] \in Items
        BY <1>1, <3>1, <3>4 DEF Types, Items
      <4>2. /\ Len(queue') = Len(queue) + 1 /\ Len(queue) \in Nat
            /\ \A n \in 1 .. Len(queue) : queue'[n] = queue[n]
            /\ queue'[Len(queue) + 1] = [c |-> clientSocket, text |-> arrived[clientSocket]]
        BY <1>1, <3>4, <4>1, AppendProperties, LenProperties DEF Types
      <4>3. ASSUME NEW n \in 1 .. Len(queue'), queue'[n].text = "part"
            PROVE  manner[queue'[n].c] = "cuts"
        <5>1. CASE n = Len(queue) + 1
          BY <3>1, <4>2, <4>3, <5>1 DEF QuietInv, Cut
        <5>2. CASE n # Len(queue) + 1
          <6>1. n \in 1 .. Len(queue)
            BY <4>2, <5>2
          <6>. QED  BY <4>2, <4>3, <6>1 DEF QuietInv, Cut
        <5>. QED  BY <5>1, <5>2
      <4>. QED  BY <1>2, <3>2, <4>3 DEF QuietInv, Cut
    <3>. QED  BY <2>1, <3>3, <3>4 DEF Read
  <2>2. CASE ~Read
    <3>1. arrived' = arrived /\ queue' = queue
      BY <2>2 DEF Main, Start, AcceptTcpClient, Stop, Sleep, client
    <3>. QED  BY <1>2, <3>1 DEF QuietInv, Cut
  <2>. QED  BY <2>1, <2>2
<1>. QED  BY <1>3, <1>4

\* An exception takes a client that is not quiet, or a file that changes.
LEMMA ThrowNeedsCause ==
  ASSUME QuietInv, NEW t \in Threads, ThreadProc(t), up, ~up'
  PROVE  filesChange \/ \E c \in Clients : manner[c] \in {"cuts", "leaves"}
<1>1. Types
  BY DEF QuietInv, PlaceInv
<1> USE DEF Working, GoTo, Respond, Throw
<1>2. CASE Parse(t)
  <2>1. item[t] \in Items /\ item[t].c \in Clients /\ item[t].text # "whole"
    BY <1>1, <1>2, HeldItem DEF Parse, Held
  <2>2. item[t].text = "part"
    BY <2>1 DEF Items
  <2>. QED  BY <2>1, <2>2 DEF QuietInv, Cut
<1>3. CASE ReadFully(t)
  BY <1>3 DEF ReadFully, QuietInv, Apt
<1>4. CASE Write(t)
  <2>1. item[t].c \in Clients /\ conn[item[t].c] # "open"
    BY <1>1, <1>4, HeldItem DEF Write, Held
  <2>2. OnePlace(item[t].c) /\ HeldBy(item[t].c)
    BY <2>1 DEF QuietInv, PlaceInv, HeldBy
  <2>. QED  BY <2>1, <2>2 DEF OnePlace, Live
<1>5. ~Take(t) /\ ~Exists(t) /\ ~IsReadable(t)
  BY DEF Take, Exists, IsReadable
<1>. QED  BY <1>2, <1>3, <1>4, <1>5 DEF ThreadProc

LEMMA ThreadQuiet ==
  ASSUME QuietInv, NEW t \in Threads, ThreadProc(t)
  PROVE  Cut' /\ Apt' /\ QuietClientsKeepItUp'
<1>1. Types
  BY DEF QuietInv, PlaceInv
<1>2. UNCHANGED <<manner, filesChange, file, arrived>>
  BY DEF ThreadProc, Take, Parse, Exists, IsReadable, ReadFully, Write, fixed, client
<1>3. QuietClientsKeepItUp'
  <2>1. up' \/ filesChange \/ \E c \in Clients : manner[c] \in {"cuts", "leaves"}
    BY ThrowNeedsCause DEF QuietInv, QuietClientsKeepItUp
  <2>. QED  BY <1>2, <2>1 DEF QuietClientsKeepItUp
<1> USE DEF Working, GoTo, Respond, Throw, pool
<1>4. Cut'
  <2>1. CASE Take(t)
    <3>1. /\ queue # <<>> /\ queue' = Tail(queue) /\ item' = [item EXCEPT ![t] = Head(queue)]
      BY <2>1 DEF Take
    <3>2. /\ Len(queue) \in Nat \ {0} /\ Len(queue') = Len(queue) - 1
          /\ \A n \in 1 .. Len(queue') : queue'[n] = queue[n + 1]
          /\ Head(queue) = queue[1] /\ 1 \in 1 .. Len(queue)
      BY <1>1, <3>1, HeadTailProperties, EmptySeq DEF Types
    <3>3. \A u \in Threads : item'[u] = IF u = t THEN queue[1] ELSE item[u]
      BY <1>1, <3>1, <3>2 DEF Types
    <3>4. \A n \in 1 .. Len(queue') : n + 1 \in 1 .. Len(queue)
      BY <3>2
    <3>. QED  BY <1>2, <3>2, <3>3, <3>4 DEF QuietInv, Cut
  <2>2. CASE ~Take(t)
    <3>1. queue' = queue /\ \A u \in Threads : item'[u] = item[u] \/ item'[u] = None
      BY <1>1, <2>2 DEF ThreadProc, Parse, Exists, IsReadable, ReadFully, Write, Types
    <3>. QED  BY <1>2, <3>1 DEF QuietInv, Cut, None
  <2>. QED  BY <2>1, <2>2
<1>5. ASSUME ~filesChange PROVE Apt'
  <2>1. /\ at[t] = "check" => FileOf(t) # "absent"
        /\ at[t] = "load" => FileOf(t) = "readable"
        /\ at[t] = "write" => responce[t] = Expected(FileOf(t))
        /\ \A c \in Clients : answers[c] # <<>> => answers[c][1] = Expected(file[c])
    BY <1>5 DEF QuietInv, Apt
  <2>2. ASSUME NEW u \in Threads, u # t
        PROVE  at'[u] = at[u] /\ responce'[u] = responce[u] /\ item'[u] = item[u]
    BY <1>1, <2>2 DEF ThreadProc, Take, Parse, Exists, IsReadable, ReadFully, Write, Types
  <2>3. /\ at'[t] = "check" => FileOf(t)' # "absent"
        /\ at'[t] = "load" => FileOf(t)' = "readable"
        /\ at'[t] = "write" => responce'[t] = Expected(FileOf(t)')
    <3>1. at[t] \in Held => FileOf(t) \in FileStates
      BY <1>1, HeldItem DEF FileOf, Types
    <3>2. CASE Take(t)
      BY <1>1, <3>2 DEF Take, Types
    <3>3. CASE Parse(t)
      BY <1>1, <2>1, <3>3 DEF Parse, Types
    <3>4. CASE Exists(t)
      BY <1>1, <1>2, <3>4 DEF Exists, Types, FileOf, Expected
    <3>5. CASE IsReadable(t)
      <4>1. FileOf(t) \in {"locked", "readable"} /\ FileOf(t)' = FileOf(t)
        BY <1>2, <2>1, <3>1, <3>5 DEF IsReadable, FileOf, FileStates, Held
      <4>. QED  BY <1>1, <3>5, <4>1 DEF IsReadable, Types, Expected
    <3>6. CASE ReadFully(t)
      <4>1. FileOf(t) = "readable" /\ FileOf(t)' = FileOf(t)
        BY <1>2, <2>1, <3>6 DEF ReadFully, FileOf
      <4>. QED  BY <1>1, <3>6, <4>1 DEF ReadFully, Types, Expected
    <3>7. CASE Write(t)
      <4>1. CASE UNCHANGED <<at, item, responce>>
        BY <1>2, <2>1, <4>1 DEF FileOf
      <4>2. CASE at' = [at EXCEPT ![t] = "idle"]
        BY <1>1, <4>2 DEF Types
      <4>. QED  BY <3>7, <4>1, <4>2 DEF Write
    <3>. QED  BY <3>2, <3>3, <3>4, <3>5, <3>6, <3>7 DEF ThreadProc
  <2>4. ASSUME NEW c \in Clients, answers'[c] # <<>> PROVE answers'[c][1] = Expected(file[c])
    <3>1. CASE answers'[c] = answers[c]
      BY <2>1, <2>4, <3>1
    <3>2. CASE answers'[c] # answers[c]
      <4>1. Write(t) /\ c = item[t].c /\ answers'[c] = Append(answers[c], responce[t])
        BY <1>1, <3>2 DEF ThreadProc, Take, Parse, Exists, IsReadable, ReadFully, Write, Types
      <4>2. answers[c] = <<>>
        <5>1. OnePlace(c) /\ HeldBy(c)
          BY <4>1 DEF QuietInv, PlaceInv, HeldBy
        <5>. QED  BY <5>1 DEF OnePlace, Live
      <4>3. at[t] = "write"
        BY <4>1 DEF Write
      <4>. QED  BY <2>1, <4>1, <4>2, <4>3 DEF FileOf
    <3>. QED  BY <3>1, <3>2
  <2>5. ASSUME NEW u \in Threads
        PROVE  /\ at'[u] = "check" => FileOf(u)' # "absent"
               /\ at'[u] = "load" => FileOf(u)' = "readable"
               /\ at'[u] = "write" => responce'[u] = Expected(FileOf(u)')
    <3>1. CASE u # t
      BY <1>2, <1>5, <2>2, <3>1 DEF QuietInv, Apt, FileOf
    <3>. QED  BY <2>3, <3>1
  <2>. QED  BY <1>2, <2>4, <2>5 DEF Apt
<1>. QED  BY <1>2, <1>3, <1>4, <1>5 DEF Apt

LEMMA AlwaysQuiet == Spec => []QuietInv
<1>1. Init => QuietInv
  <2>1. Init => Len(queue) = 0
    BY DEF Init
  <2>2. Init => Cut /\ Apt /\ QuietClientsKeepItUp
    BY <2>1 DEF Init, Cut, Apt, QuietClientsKeepItUp, None
  <2>. QED  BY <2>2, InitPlace DEF QuietInv
<1>2. QuietInv /\ [Next]_vars => QuietInv'
  <2> SUFFICES ASSUME QuietInv, [Next]_vars PROVE QuietInv'
    OBVIOUS
  <2>1. PlaceInv'
    BY NextPlace DEF QuietInv
  <2>2. CASE UNCHANGED vars
    BY <2>1, <2>2 DEF vars, fixed, client, pool, QuietInv, Cut, Apt, FileOf, QuietClientsKeepItUp
  <2>3. CASE Next
    BY <2>1, <2>3, ClientQuiet, MainQuiet, ThreadQuiet DEF Next, QuietInv
  <2>. QED  BY <2>2, <2>3
<1>. QED  BY <1>1, <1>2, PTL DEF Spec

\* Quiet clients and files that stay as they are never end the process.
THEOREM QuietKeepsUp == Spec => []QuietClientsKeepItUp
<1>1. QuietInv => QuietClientsKeepItUp
  BY DEF QuietInv
<1>. QED  BY <1>1, AlwaysQuiet, PTL

\* A connection is answered at most once, with what its file's state calls for.
THEOREM AnsweredOnce == Spec => []OneAnswer
<1>1. ASSUME QuietInv PROVE OneAnswer
  <2>1. ASSUME NEW c \in Clients PROVE Len(answers[c]) <= 1
    <3>1. OnePlace(c)
      BY <1>1 DEF QuietInv, PlaceInv
    <3>2. Len(answers[c]) \in {0, 1}
      BY <3>1 DEF OnePlace
    <3>3. \A n \in {0, 1} : n <= 1
      OBVIOUS
    <3>. QED  BY <3>2, <3>3
  <2>. QED  BY <1>1, <2>1 DEF QuietInv, Apt, OneAnswer
<1>. QED  BY <1>1, AlwaysQuiet, PTL
=============================================================================
