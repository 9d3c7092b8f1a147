-------------------------- MODULE ClientServerProofs --------------------------
(***************************************************************************)
(* Theorems about ClientServer, for any number of threads, requests,       *)
(* workers and descriptors: first the client, whatever it is connected to, *)
(* then the server of 16030009-16030012 and what it owes the client.       *)
(***************************************************************************)
EXTENDS ClientServer, SequenceTheorems, WellFoundedInduction, TLAPS

\* The operating system's lowest free descriptor is free.
LEMMA LowestIsFree ==
  ASSUME FreeFds # {}
  PROVE  Lowest(FreeFds) \in Fds /\ open[Lowest(FreeFds)] = Free
<1> DEFINE R == {p \in Nat \X Nat : p[1] < p[2]}
<1>1. PICK d \in FreeFds : \A e \in FreeFds : <<e, d>> \notin R
  <2>1. FreeFds \subseteq Nat
    BY DEF FreeFds, Fds
  <2>2. IsWellFoundedOn(R, Nat)
    BY NatLessThanWellFounded DEF OpToRel
  <2>. HIDE DEF R
  <2>. QED  BY <2>1, <2>2, WFMin
<1>2. ASSUME NEW e \in FreeFds PROVE d <= e
  <2>1. d \in Nat /\ e \in Nat
    BY DEF FreeFds, Fds
  <2>2. ~ (e < d)
    BY <1>1, <2>1
  <2>. QED  BY <2>1, <2>2
<1>3. Lowest(FreeFds) \in FreeFds
  BY <1>2 DEF Lowest
<1>. QED  BY <1>3 DEF FreeFds

\* What socket() does to the table of descriptors.
LEMMA SocketOpens ==
  ASSUME Socket
  PROVE  \E d \in Fds : /\ open[d] = Free /\ sd' = d /\ open' = [open EXCEPT ![d] = Dead]
  BY LowestIsFree DEF Socket

-----------------------------------------------------------------------------
(* The client: its threads and their descriptors.                          *)

AtWork == {"write", "read", "shutdown", "close"}

ClientTypes ==
  /\ ClosesEachTime \in BOOLEAN /\ TotalThreads \in Threads /\ RequestsPerThread \in Nat
  /\ mainPc \in {"socket", "connect", "create", "join", "return"} /\ i \in 1 .. TotalThreads
  /\ sd \in Fds \cup {Free} /\ created \subseteq Threads /\ connected \in Seq(Threads)
  /\ pc \in [Threads -> {"none", "done"} \cup AtWork]
  /\ mySd \in [Threads -> Fds \cup {Free}] /\ sent \in [Threads -> Nat]
  /\ open \in [Fds -> {Free, Dead} \cup Threads]

\* main() creates the threads in turn, each with the descriptor of a socket.
Creation ==
  /\ mainPc \in {"connect", "create"} => sd \in Fds
  /\ mainPc \in {"socket", "connect", "create"} => \A t \in created : t < i
  /\ \A t \in Threads \ created : pc[t] = "none" /\ sent[t] = 0
  /\ \A t \in Threads : pc[t] \in AtWork => mySd[t] \in Fds

\* No thread goes on with a descriptor that it closed.
ClosesOnce == ~ClosesEachTime \/ \A t \in Threads : ~Again(t)

Rounds(t) ==
  /\ sent[t] <= RequestsPerThread
  /\ pc[t] = "write" => sent[t] < RequestsPerThread
  /\ pc[t] = "read" => sent[t] >= 1
  /\ pc[t] \in {"shutdown", "close"} =>
       IF ClosesEachTime THEN sent[t] >= 1 ELSE sent[t] = RequestsPerThread

Own(t) == pc[t] \in AtWork => open[mySd[t]] = t

MainOwns ==
  /\ mainPc = "connect" => open[sd] = Dead
  /\ mainPc = "create" => open[sd] = i

LastThing(t) == t \in shut => pc[t] \in {"close", "done"}

\* In New/Client, the connection of a thread past its first answer has ended, and nothing
\* is on its way any more.
Over(t) ==
  sent[t] >= 1 /\ (pc[t] = "write" \/ sent[t] >= 2) => t \in ended /\ t \notin answers

ClientInv ==
  /\ ClientTypes /\ Creation /\ \A t \in Threads : Rounds(t)
  /\ ClosesOnce => MainOwns /\ \A t \in Threads : Own(t) /\ LastThing(t)
  /\ ~ClosesEachTime => OwnAnswersInOrder /\ \A t \in Threads : Over(t)

\* The program starts with no thread.
LEMMA ClientStarts == Init => ClientInv
  BY ClientAssumption
  DEF ClientAssumption, Init, ClientInv, ClientTypes, Creation, ClosesOnce, Rounds, Own, MainOwns,
      LastThing, Over, OwnAnswersInOrder, AtWork, Threads, Fds, Free, Dead, Again

\* main() creates the threads in turn; a thread's steps leave that as it is.
LEMMA MainKeepsTypes ==
  ASSUME ClientTypes, Creation, Main
  PROVE  ClientTypes' /\ Creation'
<1> USE ClientAssumption DEF ClientAssumption, Main, program, At
<1>1. CASE Socket
  <2>1. PICK d \in Fds : open[d] = Free /\ sd' = d /\ open' = [open EXCEPT ![d] = Dead]
    BY <1>1, SocketOpens
  <2>2. /\ UNCHANGED <<i, created, connected, pc, mySd, sent>>
        /\ mainPc = "socket" /\ mainPc' = "connect"
    BY <1>1 DEF Socket, threads
  <2>3. open' \in [Fds -> {Free, Dead} \cup Threads]
    BY <2>1 DEF ClientTypes
  <2>. QED  BY <2>1, <2>2, <2>3 DEF ClientTypes, Creation
<1>2. CASE SocketFails \/ ConnectFails
  <2>1. UNCHANGED <<sd, created, connected, pc, mySd, sent, open>>
    BY <1>2 DEF SocketFails, ConnectFails, threads
  <2>2. (UNCHANGED <<i, mainPc>> \/ NextThread) /\ mainPc \in {"socket", "connect"}
    BY <1>2 DEF SocketFails, ConnectFails
  <2>3. i' \in 1 .. TotalThreads /\ mainPc' \in {"socket", "connect", "join"}
    BY <2>2 DEF NextThread, ClientTypes, Threads
  <2>4. mainPc' = "connect" => mainPc = "connect"
    BY <2>2 DEF NextThread
  <2>5. mainPc' \in {"socket", "connect"} => i <= i'
    BY <2>2 DEF NextThread, ClientTypes, Threads
  <2>6. ClientTypes'
    BY <2>1, <2>3 DEF ClientTypes
  <2>7. Creation'
    BY <2>1, <2>2, <2>3, <2>4, <2>5 DEF Creation, ClientTypes, Threads
  <2>. QED  BY <2>6, <2>7
<1>3. CASE Connect
  <2>1. i \in Threads
    BY DEF ClientTypes, Threads
  <2>2. connected' \in Seq(Threads) /\ open' \in [Fds -> {Free, Dead} \cup Threads]
    <3>1. connected' = Append(connected, i) /\ open' = [open EXCEPT ![sd] = i]
      BY <1>3 DEF Connect
    <3>2. connected' \in Seq(Threads)
      BY <2>1, <3>1, AppendProperties DEF ClientTypes
    <3>3. open' \in [Fds -> {Free, Dead} \cup Threads]
      BY <2>1, <3>1 DEF ClientTypes
    <3>. QED  BY <3>2, <3>3
  <2>3. UNCHANGED <<i, sd, created, pc, mySd, sent>> /\ mainPc = "connect" /\ mainPc' = "create"
    BY <1>3 DEF Connect, threads
  <2>. QED  BY <2>2, <2>3 DEF ClientTypes, Creation
<1>4. ASSUME NEW ok \in BOOLEAN, Create(ok) PROVE ClientTypes' /\ Creation'
  <2>1. i \in Threads
    BY DEF ClientTypes, Threads
  <2>2. /\ UNCHANGED <<sd, connected, sent, open>> /\ NextThread /\ mainPc = "create"
        /\ \/ /\ created' = created \cup {i} /\ mySd' = [mySd EXCEPT ![i] = sd]
              /\ pc' = [pc EXCEPT ![i] = Begins]
           \/ UNCHANGED <<created, pc, mySd>>
    BY <1>4 DEF Create
  <2>3. i' \in 1 .. TotalThreads /\ mainPc' \in {"socket", "join"}
    BY <2>2 DEF NextThread, ClientTypes, Threads
  <2>4. pc' \in [Threads -> {"none", "done"} \cup AtWork] /\ mySd' \in [Threads -> Fds \cup {Free}]
    <3>1. Begins \in AtWork \cup {"done"}
      BY DEF AtWork, Begins
    <3>. QED  BY <2>1, <2>2, <3>1 DEF ClientTypes
  <2>5. ClientTypes'
    BY ZenonT(40), <2>1, <2>2, <2>3, <2>4 DEF ClientTypes
  <2>6. mainPc' = "socket" => \A t \in created' : t < i'
    <3>1. mainPc' = "socket" => i' = i + 1
      BY <2>2 DEF NextThread
    <3>2. \A t \in created' : t < i \/ t = i
      BY <2>2 DEF Creation
    <3>. QED  BY <2>1, <2>5, <3>1, <3>2 DEF ClientTypes, Threads
  <2>7. \A t \in Threads \ created' : pc'[t] = "none" /\ sent[t] = 0
    BY <2>1, <2>2 DEF ClientTypes, Creation
  <2>8. \A t \in Threads : pc'[t] \in AtWork => mySd'[t] \in Fds
    BY <2>1, <2>2 DEF ClientTypes, Creation
  <2>9. Creation'
    BY <2>2, <2>3, <2>6, <2>7, <2>8 DEF Creation
  <2>. QED  BY <2>5, <2>9
<1>5. CASE Join \/ JoinUnknown
  <2>1. UNCHANGED <<sd, created, connected, pc, mySd, sent, open>> /\ NextJoin
    BY <1>5 DEF Join, JoinUnknown, threads
  <2>2. i' \in 1 .. TotalThreads /\ mainPc' \in {"join", "return"}
    BY <2>1 DEF NextJoin, ClientTypes, Threads
  <2>. QED  BY <2>1, <2>2 DEF ClientTypes, Creation
<1>. QED  BY <1>1, <1>2, <1>3, <1>4, <1>5

LEMMA ThreadKeepsTypes ==
  ASSUME ClientTypes, Creation, NEW t \in Threads, Thread(t)
  PROVE  /\ ClientTypes' /\ Creation'
         /\ UNCHANGED <<ClosesEachTime, TotalThreads, RequestsPerThread>>
         /\ UNCHANGED <<mainPc, i, sd, created, connected>>
<1>1. /\ UNCHANGED <<ClosesEachTime, TotalThreads, RequestsPerThread>>
      /\ UNCHANGED <<mainPc, i, sd, created, connected, mySd>>
  BY DEF Thread, program, main, threads, Write, ReadAnswer, ReadEnd, Shutdown, Close
<1>2. /\ pc[t] \in AtWork
      /\ pc' = pc \/ \E there \in AtWork \cup {"done"} : pc' = [pc EXCEPT ![t] = there]
  BY DEF Thread, Goto, threads, Write, ReadAnswer, ReadEnd, Shutdown, Close, NextRequest,
         AfterRead, AtWork
<1>3. sent' = sent \/ sent' = [sent EXCEPT ![t] = @ + 1]
  BY DEF Thread, threads, Write, ReadAnswer, ReadEnd, Shutdown, Close
<1>4. open' = open \/ open' = [open EXCEPT ![mySd[t]] = Free]
  BY DEF Thread, Write, ReadAnswer, ReadEnd, Shutdown, Close
<1>5. pc' \in [Threads -> {"none", "done"} \cup AtWork] /\ sent' \in [Threads -> Nat]
  <2>1. pc' \in [Threads -> {"none", "done"} \cup AtWork]
    BY <1>2 DEF ClientTypes
  <2>2. sent[t] \in Nat
    BY DEF ClientTypes
  <2>3. sent' \in [Threads -> Nat]
    BY <1>3, <2>2 DEF ClientTypes
  <2>. QED  BY <2>1, <2>3
<1>6. open' \in [Fds -> {Free, Dead} \cup Threads]
  BY <1>4 DEF ClientTypes
<1>7. t \in created
  BY <1>2 DEF Creation, AtWork
<1>8. ClientTypes'
  BY <1>1, <1>5, <1>6 DEF ClientTypes
<1>9. \A u \in Threads : u # t => pc'[u] = pc[u] /\ sent'[u] = sent[u]
  BY <1>2, <1>3 DEF ClientTypes
<1>10. \A u \in Threads : pc'[u] \in AtWork => pc[u] \in AtWork
  BY <1>2, <1>9
<1>11. Creation'
  <2>1. \A u \in Threads \ created' : pc'[u] = "none" /\ sent'[u] = 0
    BY <1>1, <1>7, <1>9 DEF Creation
  <2>2. \A u \in Threads : pc'[u] \in AtWork => mySd'[u] \in Fds
    BY <1>1, <1>10 DEF Creation
  <2>. QED  BY <1>1, <2>1, <2>2 DEF Creation
<1>. QED  BY <1>1, <1>8, <1>11

\* What a thread's position says of the requests it has sent, and that a second one is never
\* undone.
LEMMA MainKeepsRounds ==
  ASSUME ClientInv, Main
  PROVE  (\A t \in Threads : Rounds(t)') /\ (ClosesOnce' => ClosesOnce)
<1> USE DEF ClientInv
<1>1. UNCHANGED <<ClosesEachTime, RequestsPerThread, sent>>
  BY DEF Main, program, Socket, SocketFails, Connect, ConnectFails, Create, Join, JoinUnknown,
         threads
<1>2. CASE UNCHANGED pc
  BY <1>1, <1>2 DEF Rounds, ClosesOnce, Again
<1>3. ASSUME NEW ok \in BOOLEAN, Create(ok)
      PROVE  (\A t \in Threads : Rounds(t)') /\ (ClosesOnce' => ClosesOnce)
  <2>1. mainPc = "create" /\ (pc' = pc \/ pc' = [pc EXCEPT ![i] = Begins])
    BY <1>3 DEF Create, At
  <2>2. i \in Threads /\ sent[i] = 0 /\ pc[i] = "none"
    <3>1. i \in Threads /\ \A t \in created : t < i
      BY <2>1, ClientAssumption DEF Creation, ClientTypes, Threads, ClientAssumption
    <3>2. i \notin created
      BY <3>1 DEF Threads
    <3>. QED  BY <3>1, <3>2 DEF Creation
  <2>3. \A t \in Threads : t # i => pc'[t] = pc[t]
    BY <2>1 DEF ClientTypes
  <2>4. pc'[i] \in {"none", Begins}
    BY <2>1, <2>2 DEF ClientTypes
  <2>5. \A t \in Threads : t # i => Rounds(t)'
    BY <1>1, <2>3 DEF Rounds
  <2>6. \A t \in Threads : t = i => Rounds(t)'
    BY <1>1, <2>2, <2>4 DEF Rounds, Begins, ClientTypes
  <2>7. \A t \in Threads : Again(t) => Again(t)'
    BY <1>1, <2>2, <2>3 DEF Again
  <2>. QED  BY <1>1, <2>5, <2>6, <2>7 DEF ClosesOnce
<1>. QED
  BY <1>2, <1>3 DEF Main, Socket, SocketFails, Connect, ConnectFails, Join, JoinUnknown, threads

LEMMA ThreadKeepsRounds ==
  ASSUME ClientInv, NEW t \in Threads, Thread(t)
  PROVE  (\A u \in Threads : Rounds(u)') /\ (ClosesOnce' => ClosesOnce)
<1> USE DEF ClientInv
<1>1. UNCHANGED <<ClosesEachTime, RequestsPerThread>>
  BY DEF Thread, program
<1>2. \A u \in Threads : u # t => pc'[u] = pc[u] /\ sent'[u] = sent[u]
  BY DEF Thread, Goto, threads, Write, ReadAnswer, ReadEnd, Shutdown, Close, ClientTypes
<1>3. Rounds(t) /\ sent[t] \in Nat /\ RequestsPerThread \in Nat
  BY DEF ClientTypes
<1>4. Rounds(t)' /\ (Again(t) => Again(t)')
  <2>1. CASE Write(t)
    <3>1. pc[t] = "write" /\ pc'[t] = "read" /\ sent'[t] = sent[t] + 1
      BY <2>1 DEF Write, Goto, ClientTypes
    <3>. QED  BY <1>1, <1>3, <3>1 DEF Rounds, Again
  <2>2. CASE ReadAnswer(t)
    BY <2>2, <1>1, <1>3 DEF ReadAnswer, threads, Rounds, Again
  <2>3. CASE ReadEnd(t)
    <3>1. pc[t] = "read" /\ pc'[t] = AfterRead(t) /\ sent' = sent
      BY <2>3 DEF ReadEnd, Goto, ClientTypes
    <3>. QED  BY <1>1, <1>3, <3>1 DEF Rounds, AfterRead, Again
  <2>4. CASE Shutdown(t)
    <3>1. pc[t] = "shutdown" /\ pc'[t] = "close" /\ sent' = sent
      BY <2>4 DEF Shutdown, Goto, ClientTypes
    <3>. QED  BY <1>1, <1>3, <3>1 DEF Rounds, Again
  <2>5. CASE Close(t)
    <3>1. pc[t] = "close" /\ pc'[t] = NextRequest(t) /\ sent' = sent
      BY <2>5 DEF Close, Goto, ClientTypes
    <3>. QED  BY <1>1, <1>3, <3>1 DEF Rounds, NextRequest, Again
  <2>. QED  BY <2>1, <2>2, <2>3, <2>4, <2>5 DEF Thread
<1>5. \A u \in Threads : u # t => Rounds(u)' /\ (Again(u) => Again(u)')
  BY <1>1, <1>2 DEF Rounds, Again
<1>. QED  BY <1>1, <1>4, <1>5 DEF ClosesOnce

\* main() opens a socket where nothing is open, and gives it away with the thread it makes.
LEMMA MainKeepsOwn ==
  ASSUME ClientInv, ClosesOnce, Main
  PROVE  MainOwns' /\ \A t \in Threads : Own(t)' /\ LastThing(t)'
<1> USE DEF ClientInv
<1>1. UNCHANGED <<ClosesEachTime, TotalThreads, RequestsPerThread, shut, sent>>
  BY DEF Main, program, Socket, SocketFails, Connect, ConnectFails, Create, Join, JoinUnknown,
         threads
<1>2. \A t \in Threads : t > 0 /\ t # Free /\ t # Dead
  BY DEF Threads, Free, Dead
<1>3. CASE Socket
  <2>1. PICK d \in Fds : open[d] = Free /\ sd' = d /\ open' = [open EXCEPT ![d] = Dead]
    BY <1>3, SocketOpens
  <2>2. UNCHANGED <<pc, mySd>> /\ mainPc' = "connect"
    BY <1>3 DEF Socket, threads
  <2>3. MainOwns'
    BY <2>1, <2>2 DEF MainOwns, ClientTypes
  <2>4. \A t \in Threads : Own(t)'
    BY <1>2, <2>1, <2>2 DEF Own, ClientTypes
  <2>. QED  BY <1>1, <2>2, <2>3, <2>4 DEF LastThing
<1>4. CASE SocketFails \/ ConnectFails
  <2>1. /\ UNCHANGED <<pc, mySd, open>>
        /\ mainPc' \in {"socket", "join"} \/ (mainPc = "socket" /\ UNCHANGED mainPc)
    BY <1>4 DEF SocketFails, ConnectFails, NextThread, threads, At
  <2>. QED  BY <1>1, <2>1 DEF MainOwns, Own, LastThing
<1>5. CASE Connect
  <2>1. /\ UNCHANGED <<pc, mySd, i, sd>> /\ mainPc' = "create" /\ open' = [open EXCEPT ![sd] = i]
        /\ open[sd] = Dead /\ sd \in Fds
    BY <1>5 DEF Connect, threads, At, MainOwns, Creation
  <2>2. MainOwns'
    BY <2>1 DEF MainOwns, ClientTypes
  <2>3. \A t \in Threads : Own(t)'
    BY <1>2, <2>1 DEF Own, ClientTypes, Creation
  <2>. QED  BY <1>1, <2>1, <2>2, <2>3 DEF LastThing
<1>6. ASSUME NEW ok \in BOOLEAN, Create(ok)
      PROVE  MainOwns' /\ \A t \in Threads : Own(t)' /\ LastThing(t)'
  <2>1. /\ UNCHANGED <<sd, open>> /\ mainPc = "create" /\ mainPc' \in {"socket", "join"}
        /\ \/ /\ mySd' = [mySd EXCEPT ![i] = sd]
              /\ pc' = [pc EXCEPT ![i] = Begins]
           \/ UNCHANGED <<pc, mySd>>
    BY <1>6 DEF Create, NextThread, At
  <2>2. i \in Threads /\ i \notin created
    <3>1. i \in 1 .. TotalThreads /\ TotalThreads \in 1 .. MaxThreads
      BY DEF ClientTypes, Threads
    <3>2. \A t \in created : t < i
      BY <2>1 DEF Creation
    <3>. QED  BY <3>1, <3>2, ClientAssumption DEF Threads, ClientAssumption
  <2>3. sent[i] = 0 /\ pc[i] = "none" /\ i \notin shut
    <3>1. sent[i] = 0 /\ pc[i] = "none"
      BY <2>2 DEF Creation
    <3>. QED  BY <2>2, <3>1 DEF LastThing
  <2>4. \A t \in Threads : t # i => pc'[t] = pc[t] /\ mySd'[t] = mySd[t]
    BY <2>1 DEF ClientTypes
  <2>5. pc[i] = "none" /\ (pc'[i] \in AtWork => mySd'[i] = sd)
    BY <2>1, <2>2, <2>3 DEF ClientTypes, AtWork
  <2>6. MainOwns'
    BY <2>1 DEF MainOwns
  <2>7. \A t \in Threads : t # i => Own(t)' /\ LastThing(t)'
    BY <1>1, <2>1, <2>4 DEF Own, LastThing
  <2>8. \A t \in Threads : t = i => LastThing(t)'
    BY <1>1, <2>3 DEF LastThing
  <2>9. \A t \in Threads : t = i => Own(t)'
    BY <2>1, <2>3, <2>5 DEF Own, MainOwns, AtWork
  <2>. QED  BY <2>6, <2>7, <2>8, <2>9
<1>7. CASE Join \/ JoinUnknown
  <2>1. UNCHANGED <<pc, mySd, open>> /\ mainPc' \in {"join", "return"}
    BY <1>7 DEF Join, JoinUnknown, NextJoin, threads
  <2>. QED  BY <1>1, <2>1 DEF MainOwns, Own, LastThing
<1>. QED  BY <1>3, <1>4, <1>5, <1>6, <1>7 DEF Main

\* A thread closes the descriptor that is its own, and nobody else's.
LEMMA ThreadKeepsOwn ==
  ASSUME ClientInv, ClosesOnce, ClosesOnce', NEW t \in Threads, Thread(t)
  PROVE  MainOwns' /\ \A u \in Threads : Own(u)' /\ LastThing(u)'
<1> USE DEF ClientInv
<1>1. /\ UNCHANGED <<ClosesEachTime, TotalThreads, RequestsPerThread, mainPc, i, sd, created>>
      /\ t \in created /\ pc[t] \in AtWork /\ UNCHANGED mySd
  BY DEF Thread, program, main, threads, Write, ReadAnswer, ReadEnd, Shutdown, Close, Goto,
         AtWork, Creation
<1>2. \A u \in Threads : u > 0 /\ u # Free /\ u # Dead
  BY DEF Threads, Free, Dead
<1>3. /\ mySd[t] \in Fds /\ open[mySd[t]] = t /\ Peer(t) = t /\ Rounds(t) /\ LastThing(t)
      /\ sent[t] \in Nat /\ RequestsPerThread \in Nat
  BY <1>1 DEF Own, Creation, Peer, ClientTypes
<1>4. \A u \in Threads : u # t => pc'[u] = pc[u] /\ sent'[u] = sent[u]
  BY DEF Thread, Goto, threads, Write, ReadAnswer, ReadEnd, Shutdown, Close, ClientTypes
<1>5. shut' = shut \/ (shut' = shut \cup {t} /\ pc'[t] = "close")
  BY <1>3 DEF Thread, Goto, Write, ReadAnswer, ReadEnd, Shutdown, Close, ClientTypes
<1>6. \A u \in Threads : u # t => LastThing(u)'
  BY <1>1, <1>4, <1>5 DEF LastThing
<1>9. Close(t) => pc'[t] = "done"
  <2>1. Close(t) => pc[t] = "close" /\ pc'[t] = NextRequest(t) /\ sent' = sent
    BY DEF Close, Goto, ClientTypes
  <2>2. ~ClosesEachTime \/ ~Again(t)'
    BY <1>1 DEF ClosesOnce
  <2>3. Close(t) => (sent[t] < RequestsPerThread => sent[t] >= 1 /\ ClosesEachTime)
    BY <1>3, <2>1 DEF Rounds
  <2>4. Close(t) => ~ (sent[t] < RequestsPerThread)
    <3> SUFFICES ASSUME Close(t), sent[t] < RequestsPerThread PROVE FALSE
      OBVIOUS
    <3>1. pc'[t] = "write" /\ sent'[t] = sent[t] /\ sent[t] >= 1 /\ ClosesEachTime
      BY <2>1, <2>3 DEF NextRequest
    <3>. QED  BY <1>3, <2>2, <3>1 DEF Again
  <2>. QED  BY <2>1, <2>4 DEF NextRequest
<1>7. LastThing(t)'
  <2>1. CASE Write(t)
    <3>1. pc[t] = "write" /\ pc'[t] = "read" /\ sent'[t] = sent[t] + 1 /\ shut' = shut
      BY <2>1 DEF Write, Goto, ClientTypes
    <3>. QED  BY <1>1, <1>3, <3>1 DEF LastThing
  <2>2. CASE ReadAnswer(t)
    BY <2>2, <1>1, <1>3 DEF ReadAnswer, threads, LastThing
  <2>3. CASE ReadEnd(t)
    <3>1. pc[t] = "read" /\ pc'[t] = AfterRead(t) /\ sent' = sent /\ shut' = shut
      BY <2>3 DEF ReadEnd, Goto, ClientTypes
    <3>2. t \notin shut
      BY <1>3, <3>1 DEF LastThing
    <3>. QED  BY <3>1, <3>2 DEF LastThing
  <2>4. CASE Shutdown(t)
    <3>1. pc[t] = "shutdown" /\ pc'[t] = "close" /\ sent' = sent
      BY <2>4 DEF Shutdown, Goto, ClientTypes
    <3>. QED  BY <1>1, <1>3, <3>1 DEF LastThing
  <2>5. CASE Close(t)
    BY <1>9, <2>5 DEF LastThing
  <2>. QED  BY <2>1, <2>2, <2>3, <2>4, <2>5 DEF Thread
<1>8. MainOwns' /\ \A u \in Threads : Own(u)'
  <2>1. CASE open' = open
    <3>1. pc'[t] \in AtWork => pc[t] \in AtWork
      BY <1>1
    <3>. QED  BY <1>1, <1>3, <1>4, <2>1 DEF Own, MainOwns
  <2>2. CASE Close(t)
    <3>1. open' = [open EXCEPT ![mySd[t]] = Free]
      BY <2>2 DEF Close
    <3>2. pc'[t] = "done"
      BY <1>9, <2>2
    <3>3. \A u \in Threads : u # t => Own(u)'
      BY <1>1, <1>3, <1>4, <3>1 DEF Own, Creation, ClientTypes
    <3>4. Own(t)'
      BY <3>2 DEF Own, AtWork
    <3>5. MainOwns'
      BY <1>1, <1>2, <1>3, <3>1 DEF MainOwns, Creation, ClientTypes
    <3>. QED  BY <3>3, <3>4, <3>5
  <2>. QED  BY <2>1, <2>2 DEF Thread, Write, ReadAnswer, ReadEnd, Shutdown
<1>. QED  BY <1>6, <1>7, <1>8

\* In New/Client a thread reads its own connection only, and writes its next request when
\* the answer to the last has been read and the connection has ended.
LEMMA MainKeepsOrder ==
  ASSUME ClientInv, ~ClosesEachTime, Main
  PROVE  OwnAnswersInOrder' /\ \A t \in Threads : Over(t)'
<1> USE DEF ClientInv
<1>1. UNCHANGED <<ClosesEachTime, sent, ended, answers, received>>
  BY DEF Main, program, server, Socket, SocketFails, Connect, ConnectFails, Create, Join,
         JoinUnknown, threads
<1>2. UNCHANGED pc \/ \E ok \in BOOLEAN : Create(ok)
  BY DEF Main, Socket, SocketFails, Connect, ConnectFails, Join, JoinUnknown, threads
<1>3. \A t \in Threads : pc'[t] = "write" => pc[t] = "write" \/ sent[t] = 0
  <2>1. ASSUME NEW ok \in BOOLEAN, Create(ok)
        PROVE  \A t \in Threads : pc'[t] = "write" => pc[t] = "write" \/ sent[t] = 0
    <3>1. \A t \in created : t < i
      BY <2>1 DEF Create, Creation, At
    <3>2. i \notin created
      BY <3>1 DEF ClientTypes
    <3>3. \A t \in Threads : t # i => pc'[t] = pc[t]
      BY <2>1 DEF Create, ClientTypes
    <3>. QED  BY <3>2, <3>3 DEF Creation
  <2>. QED  BY <1>2, <2>1
<1>. QED  BY <1>1, <1>3 DEF Over, OwnAnswersInOrder, ClientTypes

LEMMA ThreadKeepsOrder ==
  ASSUME ClientInv, ~ClosesEachTime, NEW t \in Threads, Thread(t)
  PROVE  OwnAnswersInOrder' /\ \A u \in Threads : Over(u)'
<1> USE DEF ClientInv
<1>1. /\ UNCHANGED <<ClosesEachTime, ended>> /\ answers' \subseteq answers
      /\ \A u \in Threads : u # t => pc'[u] = pc[u] /\ sent'[u] = sent[u]
      /\ pc[t] \in AtWork
  BY DEF Thread, program, server, Goto, threads, Write, ReadAnswer, ReadEnd, Shutdown, Close,
         ClientTypes, AtWork
<1>2. /\ Peer(t) = t /\ Rounds(t) /\ LastThing(t) /\ Over(t) /\ sent[t] \in Nat
      /\ RequestsPerThread \in Nat
  BY <1>1 DEF Own, Peer, ClientTypes, ClosesOnce
<1>3. \A u \in Threads : u # t => Over(u)'
  BY <1>1 DEF Over
<1>4. Over(t)' /\ OwnAnswersInOrder'
  <2>1. CASE Write(t)
    <3>1. /\ pc[t] = "write" /\ pc'[t] = "read" /\ sent'[t] = sent[t] + 1
          /\ UNCHANGED <<received, answers>>
      BY <2>1 DEF Write, Goto, ClientTypes
    <3>. QED  BY <1>1, <1>2, <3>1 DEF Over, OwnAnswersInOrder
  <2>2. CASE ReadAnswer(t)
    <3>1. /\ pc[t] = "read" /\ t \in answers /\ UNCHANGED <<pc, sent>>
          /\ received' = received \cup {<<t, t, sent[t]>>}
      BY <2>2, <1>2 DEF ReadAnswer, threads
    <3>2. sent[t] = 1
      BY <1>2, <3>1 DEF Over, Rounds
    <3>. QED  BY <1>1, <1>2, <3>1, <3>2 DEF Over, OwnAnswersInOrder
  <2>3. CASE ReadEnd(t)
    <3>1. pc[t] = "read" /\ UNCHANGED <<sent, answers, received>>
      BY <2>3 DEF ReadEnd, Goto, ClientTypes, server
    <3>2. t \in ended /\ t \notin answers
      BY <2>3, <1>2, <3>1 DEF ReadEnd, LastThing
    <3>. QED  BY <1>1, <3>1, <3>2 DEF Over, OwnAnswersInOrder
  <2>4. CASE Shutdown(t) \/ Close(t)
    <3>1. UNCHANGED <<sent, answers, received>> /\ pc'[t] # "write"
      BY <2>4, <1>2 DEF Shutdown, Close, Goto, ClientTypes, server, Rounds, NextRequest
    <3>. QED  BY <1>1, <1>2, <3>1 DEF Over, OwnAnswersInOrder
  <2>. QED  BY <2>1, <2>2, <2>3, <2>4 DEF Thread
<1>. QED  BY <1>3, <1>4

\* The invariant of the client after a step of its own.
LEMMA ClientMoves ==
  ASSUME ClientInv, Main \/ \E t \in Threads : Thread(t)
  PROVE  ClientInv'
<1>1. UNCHANGED <<ClosesEachTime, TotalThreads, RequestsPerThread>>
  BY DEF Main, Thread, program
<1>2. ClientTypes' /\ Creation'
  BY MainKeepsTypes, ThreadKeepsTypes DEF ClientInv
<1>5. (\A t \in Threads : Rounds(t)') /\ (ClosesOnce' => ClosesOnce)
  BY MainKeepsRounds, ThreadKeepsRounds
<1>3. ClosesOnce' => MainOwns' /\ \A t \in Threads : Own(t)' /\ LastThing(t)'
  BY <1>5, MainKeepsOwn, ThreadKeepsOwn
<1>4. ~ClosesEachTime => OwnAnswersInOrder' /\ \A t \in Threads : Over(t)'
  BY MainKeepsOrder, ThreadKeepsOrder
<1>. QED  BY <1>1, <1>2, <1>3, <1>4, <1>5 DEF ClientInv

\* What a server does is seen in the connections only; it never answers after it closed.
LEMMA ClientStays ==
  ASSUME ClientInv, UNCHANGED <<program, main, threads, open, shut, received>>,
         ~ClosesEachTime => ended \subseteq ended' /\ answers' \cap ended \subseteq answers
  PROVE  ClientInv'
<1>1. /\ UNCHANGED <<ClosesEachTime, TotalThreads, RequestsPerThread, mainPc, i, sd, created>>
      /\ UNCHANGED <<connected, pc, mySd, sent>>
  BY DEF program, main, threads
<1>2. ~ClosesEachTime => OwnAnswersInOrder' /\ \A t \in Threads : Over(t)'
  BY <1>1 DEF ClientInv, Over, OwnAnswersInOrder
<1>3. ClientTypes' /\ Creation' /\ (ClosesOnce' <=> ClosesOnce) /\ (MainOwns' <=> MainOwns)
  BY <1>1 DEF ClientInv, ClientTypes, Creation, ClosesOnce, Again, MainOwns
<1>4. \A t \in Threads : (Rounds(t)' <=> Rounds(t)) /\ (Own(t)' <=> Own(t))
                         /\ (LastThing(t)' <=> LastThing(t))
  BY <1>1 DEF Rounds, Own, LastThing
<1>. QED  BY <1>1, <1>2, <1>3, <1>4 DEF ClientInv

ClientPairInv == ClientInv /\ (~alone => ClosesEachTime)

LEMMA ClientPairKept == ClientPairInv /\ [NextPair]_pair => ClientPairInv'
<1> SUFFICES ASSUME ClientPairInv, [NextPair]_pair PROVE ClientPairInv'
  OBVIOUS
<1> USE DEF ClientPairInv
<1>1. CASE UNCHANGED pair
  BY <1>1, ClientStays DEF pair, vars, program, server
<1>2. CASE ClientMain \/ \E t \in Threads : MakeRequest(t)
  BY <1>2, ClientMoves DEF ClientMain, MakeRequest, ClientStep, Main, Thread, program
<1>3. ASSUME NEW c \in Threads, External(c) \/ ExternalCloses(c) PROVE ClientPairInv'
  BY <1>3, ClientStays
  DEF External, ExternalCloses, ClientStep, Server, Closes, ServerAnswers, ServerCloses, program
<1>4. CASE ServerStep(ServerMain) \/ \E w \in Pool!Workers : ServerStep(HandleRequest(w))
  BY <1>4, ClientStays DEF ServerStep, Seen, program
<1>5. CASE \E w \in Pool!Workers : ServerStep(Pool!SpuriousWake(w))
  BY <1>5, ClientStays DEF ServerStep, Seen, program
<1>. QED  BY <1>1, <1>2, <1>3, <1>4, <1>5 DEF NextPair

LEMMA AlwaysClient == SpecPair => []ClientPairInv
<1>1. InitPair => ClientPairInv
  BY ClientStarts DEF InitPair, ClientPairInv
<1>. QED  BY <1>1, ClientPairKept, PTL DEF SpecPair

\* In New/Client always, and in c.c until the first thread goes on to a second request, a
\* thread at work writes, reads, shuts down and closes on the connection main() made for it,
\* whatever descriptors are reused meanwhile (c.c:142-162, 193-212, New/Client/Client/c.c:168-186).
THEOREM WorksOnItsOwn == SpecPair => []OwnDescriptor
<1>1. ClientPairInv => OwnDescriptor
  <2> SUFFICES ASSUME ClientPairInv, ~ClosesEachTime \/ \A u \in created : ~Again(u)
               PROVE  \A t \in created : pc[t] \in {"write", "read", "shutdown", "close"} =>
                        Peer(t) = t
    BY DEF OwnDescriptor
  <2>1. ClosesOnce
    <3>1. \A t \in Threads \ created : ~Again(t)
      BY DEF ClientPairInv, ClientInv, Creation, Again
    <3>. QED  BY <3>1 DEF ClosesOnce
  <2>. QED  BY <2>1 DEF ClientPairInv, ClientInv, ClientTypes, Own, AtWork, Peer
<1>. QED  BY <1>1, AlwaysClient, PTL

\* A New/Client thread reads the answer to its own first request, and no other
\* (New/Client/Client/c.c:168-186).
THEOREM ReadsItsOwn == SpecPair => []OwnAnswersInOrder
<1>1. ClientPairInv => OwnAnswersInOrder
  BY DEF ClientPairInv, ClientInv, OwnAnswersInOrder
<1>. QED  BY <1>1, AlwaysClient, PTL

-----------------------------------------------------------------------------
(* The connections, the threads that asked on them, and their end.         *)

\* The connections were made for the threads in turn, one each.
Reached ==
  IF mainPc \in {"socket", "connect"} THEN i - 1 ELSE IF mainPc = "create" THEN i ELSE TotalThreads

Made ==
  /\ Len(connected) <= Reached
  /\ \A k \in 1 .. Len(connected) : connected[k] <= Reached
  /\ \A j, k \in 1 .. Len(connected) : connected[j] = connected[k] => j = k

\* main() has joined the threads before i, and all of them when it returns.
Joined ==
  /\ \A t \in created : t <= TotalThreads
  /\ mainPc \in {"join", "return"} =>
       \A t \in created : t < i \/ mainPc = "return" => pc[t] = "done"

\* Who asked is still reading, or its connection has ended.
StillReads == \A t \in asked : t \in ended \/ (t \in created /\ pc[t] = "read")

-----------------------------------------------------------------------------
(* The server: what a worker has done to the connection it serves.         *)

PP == INSTANCE RoundRobinPoolProofs WITH
  MAX_THREAD_COUNT <- ServerWorkers, MaxConn <- MaxThreads, MaxFd <- ServerFds,
  Stalled <- {}, wraps <- FALSE, mainPc <- serverPc, sd <- workerSd, open <- serverOpen,
  shut <- serverShut, alive <- serverAlive

\* The pool's invariant, as long as no worker strayed.
Owns == PP!TypeInv /\ PP!Own /\ \A p \in handled : p[1] = p[2]

Serves(w) ==
  /\ workerPc[w] \notin {"shutdown", "close", "ended"} => \A p \in handled : p[2] # w + 1
  /\ workerPc[w] \notin {"close", "ended"} => w + 1 \notin serverShut
  /\ workerPc[w] = "reply" => connected[w + 1] \in asked
  /\ workerPc[w] = "shutdown" => connected[w + 1] \in asked \/ Gone(connected[w + 1])

\* What the client sees of the connections is what the workers did to them.
Shown ==
  /\ accepted <= Len(connected) /\ \A p \in handled : p[2] <= accepted
  /\ answered = {connected[p[2]] : p \in handled}
  /\ serverAlive => ended = {connected[k] : k \in serverShut}

PairInv ==
  /\ ClientPairInv /\ Made /\ Joined
  /\ ~alone /\ ~strayed =>
       /\ Owns /\ Shown /\ \A w \in PP!Workers : Serves(w)
       /\ serverAlive /\ RequestsPerThread <= 1 => StillReads

\* Where each thread sends one request, none goes on to a second.
LEMMA OneRequest == ASSUME ClientInv, RequestsPerThread <= 1 PROVE ClosesOnce
<1>1. ASSUME NEW t \in Threads PROVE ~Again(t)
  <2>1. Rounds(t) /\ sent[t] \in Nat /\ RequestsPerThread \in Nat
    BY DEF ClientInv, ClientTypes
  <2>. QED  BY <2>1 DEF Rounds, Again
<1>. QED  BY <1>1 DEF ClosesOnce

\* How main() lengthens the list of connections.
LEMMA MainConnects ==
  ASSUME Main
  PROVE  connected' = connected \/ (/\ mainPc = "connect" /\ mainPc' = "create"
                                    /\ connected' = Append(connected, i) /\ i' = i
                                    /\ open' = [open EXCEPT ![sd] = i])
  BY DEF Main, At, Socket, SocketFails, Connect, ConnectFails, Create, Join, JoinUnknown

LEMMA Appended ==
  ASSUME ClientTypes, Main
  PROVE  /\ Len(connected) \in Nat /\ Len(connected') \in Len(connected) .. Len(connected) + 1
         /\ \A k \in 1 .. Len(connected) : connected'[k] = connected[k]
<1>1. i \in Threads /\ connected \in Seq(Threads)
  BY ClientAssumption DEF ClientAssumption, ClientTypes, Threads
<1>2. CASE connected' = connected
  BY <1>1, <1>2, LenProperties
<1>3. CASE connected' = Append(connected, i)
  BY <1>1, <1>3, AppendProperties, LenProperties
<1>. QED  BY <1>2, <1>3, MainConnects

\* The connections are made, and the threads joined, in turn.
LEMMA MainMakes ==
  ASSUME ClientTypes, Creation, Made, Joined, Main
  PROVE  Made' /\ Joined'
<1> USE ClientAssumption DEF ClientAssumption
<1>1. /\ TotalThreads \in Nat /\ i \in 1 .. TotalThreads /\ TotalThreads' = TotalThreads
      /\ connected \in Seq(Threads)
  BY DEF Main, program, ClientTypes, Threads
<1>2. ASSUME connected' = connected, Reached <= Reached' PROVE Made'
  <2>1. \A k \in 1 .. Len(connected) : connected[k] \in Int
    BY <1>1, ElementOfSeq DEF Threads
  <2>2. Len(connected) \in Nat /\ Reached \in Int /\ Reached' \in Int
    <3>1. i' \in Int
      BY <1>1 DEF Main, Socket, SocketFails, Connect, ConnectFails, Create, Join, JoinUnknown,
                  NextThread, NextJoin
    <3>. QED  BY <1>1, <3>1, LenProperties DEF Reached
  <2>. QED  BY <1>2, <2>1, <2>2 DEF Made
<1>3. ASSUME NEW t \in created PROVE t \in Nat \ {0}
  BY DEF ClientTypes, Threads
<1>4. CASE Socket
  <2>1. /\ mainPc = "socket" /\ mainPc' = "connect" /\ UNCHANGED <<i, pc, created, connected>>
    BY <1>4 DEF Socket, At, threads
  <2>2. Reached <= Reached'
    BY <1>1, <2>1 DEF Reached
  <2>. QED  BY <1>1, <1>2, <2>1, <2>2 DEF Joined
<1>5. CASE SocketFails \/ ConnectFails
  <2>1. /\ mainPc \in {"socket", "connect"} /\ UNCHANGED <<pc, created, connected>>
        /\ NextThread \/ UNCHANGED <<i, mainPc>>
    BY <1>5 DEF SocketFails, ConnectFails, At, threads
  <2>2. Reached <= Reached'
    BY <1>1, <2>1 DEF Reached, NextThread
  <2>3. mainPc' \in {"join", "return"} => i' = 1 /\ mainPc' = "join"
    BY <2>1 DEF NextThread
  <2>. QED  BY <1>1, <1>2, <1>3, <2>1, <2>2, <2>3 DEF Joined
<1>6. CASE Connect
  <2>1. /\ mainPc = "connect" /\ mainPc' = "create" /\ i' = i /\ UNCHANGED <<pc, created>>
        /\ connected' = Append(connected, i)
    BY <1>6 DEF Connect, At, threads
  <2>2. /\ Len(connected) \in Nat /\ Len(connected') = Len(connected) + 1
        /\ connected'[Len(connected) + 1] = i
        /\ \A k \in 1 .. Len(connected) : connected'[k] = connected[k] /\ connected[k] \in Int
    <3>1. i \in Threads
      BY DEF ClientTypes, Threads
    <3>. QED  BY <1>1, <2>1, <3>1, AppendProperties, LenProperties, ElementOfSeq DEF Threads
  <2>3. Reached = i - 1 /\ Reached' = i
    BY <2>1 DEF Reached
  <2>4. \A k \in 1 .. Len(connected) : connected'[k] <= i - 1
    BY <2>2, <2>3 DEF Made
  <2>5. Made'
    <3>1. Len(connected') <= Reached'
      BY <1>1, <2>2, <2>3 DEF Made
    <3>2. ASSUME NEW k \in 1 .. Len(connected') PROVE connected'[k] <= Reached'
      BY <1>1, <2>2, <2>3, <2>4
    <3>3. ASSUME NEW j \in 1 .. Len(connected'), NEW k \in 1 .. Len(connected'),
                 connected'[j] = connected'[k]
          PROVE  j = k
      BY <1>1, <2>2, <2>4, <3>3 DEF Made
    <3>. QED  BY <3>1, <3>2, <3>3 DEF Made
  <2>. QED  BY <1>1, <2>1, <2>5 DEF Joined
<1>7. ASSUME NEW ok \in BOOLEAN, Create(ok) PROVE Made' /\ Joined'
  <2>1. /\ mainPc = "create" /\ NextThread /\ connected' = connected
        /\ created' \subseteq created \cup {i}
    BY <1>7 DEF Create, At
  <2>2. Reached <= Reached'
    BY <1>1, <2>1 DEF Reached, NextThread
  <2>3. mainPc' \in {"join", "return"} => i' = 1 /\ mainPc' = "join"
    BY <2>1 DEF NextThread
  <2>4. \A t \in created' : t \in Nat \ {0} /\ t <= TotalThreads
    BY <1>1, <2>1 DEF Joined, ClientTypes, Threads
  <2>5. Joined'
    BY <1>1, <2>3, <2>4 DEF Joined
  <2>. QED  BY <1>2, <2>1, <2>2, <2>5
<1>8. CASE Join \/ JoinUnknown
  <2>1. /\ mainPc = "join" /\ NextJoin /\ UNCHANGED <<pc, created, connected>>
        /\ i \in created => pc[i] = "done"
    BY <1>8 DEF Join, JoinUnknown, At, threads
  <2>2. Reached <= Reached'
    BY <1>1, <2>1 DEF Reached, NextJoin
  <2>3. \A t \in created : t < i' \/ mainPc' = "return" => t < i \/ t = i
    BY <1>1, <1>3, <2>1 DEF NextJoin, Joined
  <2>. QED  BY <1>1, <1>2, <2>1, <2>2, <2>3 DEF Joined
<1>. QED  BY <1>4, <1>5, <1>6, <1>7, <1>8 DEF Main

LEMMA ThreadMakes ==
  ASSUME ClientTypes, Creation, Made, Joined, NEW t \in Threads, Thread(t)
  PROVE  Made' /\ Joined'
<1>1. /\ UNCHANGED <<ClosesEachTime, TotalThreads, RequestsPerThread>>
      /\ UNCHANGED <<mainPc, i, sd, created, connected>>
  BY ThreadKeepsTypes
<1>2. pc[t] # "done" /\ \A u \in Threads : u # t => pc'[u] = pc[u]
  BY DEF Thread, Goto, threads, Write, ReadAnswer, ReadEnd, Shutdown, Close, ClientTypes
<1>3. Made'
  BY <1>1 DEF Made, Reached
<1>4. Joined'
  BY <1>1, <1>2 DEF Joined, ClientTypes
<1>. QED  BY <1>3, <1>4

\* The answer a thread waits for ends its read only when the connection has ended.
LEMMA StillReadsKept ==
  ASSUME ClientInv, ClosesOnce, StillReads, Main \/ \E t \in Threads : Thread(t)
  PROVE  StillReads'
<1> USE DEF ClientInv
<1>1. CASE Main
  <2>1. UNCHANGED <<asked, ended>> /\ created \subseteq created'
    BY <1>1 DEF Main, server, Socket, SocketFails, Connect, ConnectFails, Create, Join, JoinUnknown
  <2>2. \A u \in created : pc'[u] = pc[u]
    <3>1. ASSUME NEW ok \in BOOLEAN, Create(ok) PROVE \A u \in created : pc'[u] = pc[u]
      <4>1. \A u \in created : u \in Threads /\ u # i
        BY <3>1 DEF Create, At, Creation, ClientTypes, Threads
      <4>. QED  BY <3>1, <4>1 DEF Create, ClientTypes
    <3>. QED
      BY <1>1, <3>1 DEF Main, Socket, SocketFails, Connect, ConnectFails, Join, JoinUnknown, threads
  <2>. QED  BY <2>1, <2>2 DEF StillReads
<1>2. ASSUME NEW t \in Threads, Thread(t) PROVE StillReads'
  <2>1. /\ UNCHANGED <<created, ended>> /\ t \in created /\ Peer(t) = t /\ LastThing(t)
        /\ \A u \in Threads : u # t => pc'[u] = pc[u]
    <3>1. pc[t] \in AtWork /\ UNCHANGED <<created, ended>>
      BY <1>2 DEF Thread, main, server, Write, ReadAnswer, ReadEnd, Shutdown, Close, Goto, AtWork
    <3>2. Own(t) /\ LastThing(t)
      OBVIOUS
    <3>3. \A u \in Threads : u # t => pc'[u] = pc[u]
      BY <1>2 DEF Thread, Goto, threads, Write, ReadAnswer, ReadEnd, Shutdown, Close, ClientTypes
    <3>. QED  BY <3>1, <3>2, <3>3 DEF Creation, Own, Peer, AtWork
  <2>2. asked' \subseteq asked \cup {t}
    BY <1>2, <2>1 DEF Thread, server, Write, ReadAnswer, ReadEnd, Shutdown, Close
  <2>3. t \in asked' => t \in ended \/ pc'[t] = "read"
    <3>1. CASE Write(t)
      BY <3>1 DEF Write, Goto, ClientTypes
    <3>2. CASE ReadAnswer(t)
      BY <3>2 DEF ReadAnswer, threads
    <3>3. CASE ReadEnd(t)
      BY <2>1, <3>3 DEF ReadEnd, Goto, LastThing
    <3>4. CASE Shutdown(t) \/ Close(t)
      BY <3>4 DEF Shutdown, Close, Goto, StillReads, server
    <3>. QED  BY <1>2, <3>1, <3>2, <3>3, <3>4 DEF Thread
  <2>4. ASSUME NEW u \in asked', u # t PROVE u \in ended' \/ (u \in created' /\ pc'[u] = "read")
    BY <2>1, <2>2, <2>4 DEF StillReads, ClientTypes
  <2>. QED  BY <2>1, <2>3, <2>4 DEF StillReads
<1>. QED  BY <1>1, <1>2

\* A connection the client has let go of stays so.
LEMMA GoneStays ==
  ASSUME ClientTypes, Creation, Made, NEW c, Gone(c), Main \/ \E t \in Threads : Thread(t)
  PROVE  Gone(c)'
<1>1. connected \in Seq(Threads) /\ c \in Range(connected)
  BY DEF ClientTypes, Gone
<1>2. PICK k \in 1 .. Len(connected) : connected[k] = c
  BY <1>1, LenProperties DEF Range
<1>3. c \in Threads
  BY <1>1, <1>2, ElementOfSeq
<1>4. alive
  BY DEF Main, Thread, At, Socket, SocketFails, Connect, ConnectFails, Create, Join, JoinUnknown,
         Goto, Write, ReadAnswer, ReadEnd, Shutdown, Close
<1>5. CASE Main
  <2>1. mainPc # "return" /\ shut' = shut
    BY <1>5 DEF Main, At, Socket, SocketFails, Connect, ConnectFails, Create, Join, JoinUnknown
  <2>2. connected'[k] = c /\ k \in 1 .. Len(connected') /\ connected' \in Seq(Threads)
    <3>1. connected' \in Seq(Threads)
      BY <1>5, MainKeepsTypes DEF ClientTypes
    <3>2. connected'[k] = c /\ k \in 1 .. Len(connected')
      BY <1>2, <1>5, Appended
    <3>. QED  BY <3>1, <3>2
  <2>3. c \in Range(connected')
    BY <2>2, LenProperties DEF Range
  <2>4. ASSUME \A d \in Fds : open[d] # c PROVE \A d \in Fds : open'[d] # c
    <3>1. CASE Socket
      BY <2>4, <1>3, <3>1 DEF Socket, ClientTypes, Dead, Threads
    <3>2. CASE Connect
      <4>1. c # i
        <5>1. mainPc = "connect" /\ i \in Int /\ c \in Int
          BY <1>3, <3>2 DEF Connect, At, ClientTypes, Threads
        <5>2. connected[k] <= i - 1
          BY <5>1 DEF Made, Reached
        <5>. QED  BY <1>2, <5>1, <5>2
      <4>. QED  BY <2>4, <3>2, <4>1 DEF Connect, ClientTypes
    <3>. QED
      BY <2>4, <1>5, <3>1, <3>2 DEF Main, SocketFails, ConnectFails, Create, Join, JoinUnknown
  <2>. QED  BY <1>4, <2>1, <2>3, <2>4 DEF Gone
<1>6. ASSUME NEW t \in Threads, Thread(t) PROVE Gone(c)'
  <2>1. UNCHANGED <<connected, mainPc>> /\ shut \subseteq shut'
    BY <1>6 DEF Thread, main, Write, ReadAnswer, ReadEnd, Shutdown, Close
  <2>2. open' = open \/ open' = [open EXCEPT ![mySd[t]] = Free]
    BY <1>6 DEF Thread, Write, ReadAnswer, ReadEnd, Shutdown, Close
  <2>3. c # Free
    BY <1>3 DEF Threads, Free
  <2>4. (\A d \in Fds : open[d] # c) => \A d \in Fds : open'[d] # c
    BY <2>2, <2>3 DEF ClientTypes
  <2>. QED  BY <1>4, <2>1, <2>4 DEF Gone
<1>. QED  BY <1>5, <1>6

\* The server is RoundRobinPool; its constants are what that module assumes them to be.
LEMMA PoolAssumed == PP!RoundRobinAssumption
  BY PairAssumption, ClientAssumption
  DEF PairAssumption, ClientAssumption, PP!RoundRobinAssumption

LEMMA ServerMainIsPools == ServerMain => PP!Main
<1> USE DEF Pool!FreeFds, PP!FreeFds, Pool!Lowest, PP!Lowest, Pool!Fds, PP!Fds, Pool!Free, PP!Free,
            Pool!Workers, PP!Workers, Pool!workers, PP!workers, Pool!net, PP!net, Pool!main, PP!main
<1>1. Pool!Accept => PP!Accept
  BY DEF Pool!Accept, PP!Accept
<1>2. Pool!AcceptFails => PP!AcceptFails
  BY DEF Pool!AcceptFails, PP!AcceptFails
<1>3. Pool!Assign => PP!Assign
  BY DEF Pool!Assign, PP!Assign
<1>4. Pool!Signal => PP!Signal
  BY DEF Pool!Signal, PP!Signal
<1>. QED  BY <1>1, <1>2, <1>3, <1>4 DEF ServerMain, PP!Main, wakeUps

LEMMA HandleRequestIsWorkers ==
  ASSUME NEW w, HandleRequest(w)
  PROVE  \/ PP!CondWait(w) \/ PP!TakeRequest(w)
         \/ Connection(w) \in asked /\ (PP!ReadPart(w) \/ PP!ReadRequest(w))
         \/ EndOfInput(w) \/ PP!ReadNothing(w)
         \/ PP!ReplyFile(w) \/ PP!ReplyError(w) \/ PP!NoReply(w) \/ BrokenPipe(w)
         \/ PP!Shutdown(w) \/ PP!Close(w)
<1> USE DEF Pool!FreeFds, PP!FreeFds, Pool!Lowest, PP!Lowest, Pool!Fds, PP!Fds, Pool!Free, PP!Free,
            Pool!Conns, PP!Conns, Pool!File, PP!File, Pool!net, PP!net, Pool!main, PP!main,
            Pool!Goto, PP!Goto, Pool!Peer, PP!Peer, Pool!Answer, PP!Answer, Pool!AnswerTo,
            PP!AnswerTo, Pool!Uninit, PP!Uninit
<1>1. Pool!CondWait(w) \/ Pool!TakeRequest(w) \/ Pool!NoReply(w)
      => PP!CondWait(w) \/ PP!TakeRequest(w) \/ PP!NoReply(w)
  BY DEF Pool!CondWait, PP!CondWait, Pool!TakeRequest, PP!TakeRequest, Pool!NoReply, PP!NoReply
<1>2. (Pool!ReadPart(w) => PP!ReadPart(w)) /\ (Pool!ReadRequest(w) => PP!ReadRequest(w))
  BY DEF Pool!ReadPart, PP!ReadPart, Pool!ReadRequest, PP!ReadRequest, Pool!Begun, PP!Begun
<1>3. Pool!ReadNothing(w) => PP!ReadNothing(w)
  BY DEF Pool!ReadNothing, PP!ReadNothing
<1>4. Pool!ReplyFile(w) => PP!ReplyFile(w)
  BY DEF Pool!ReplyFile, PP!ReplyFile
<1>5. Pool!ReplyError(w) => PP!ReplyError(w)
  BY DEF Pool!ReplyError, PP!ReplyError
<1>6. Pool!Shutdown(w) \/ Pool!Close(w) => PP!Shutdown(w) \/ PP!Close(w)
  BY DEF Pool!Shutdown, PP!Shutdown, Pool!Close, PP!Close
<1>. QED  BY <1>1, <1>2, <1>3, <1>4, <1>5, <1>6 DEF HandleRequest

\* The pool's invariant holds for the server, whose two steps of its own leave it as it is.
LEMMA ServerMainOwns == ASSUME Owns, ServerMain PROVE Owns'
<1>1. PP!Main /\ PP!TypeInv /\ PP!Own /\ \A p \in handled : p[1] = p[2]
  BY ServerMainIsPools DEF Owns
<1>2. PP!TypeInv'
  BY <1>1, PoolAssumed, PP!MainType
<1>3. PP!Own' /\ handled' = handled
  BY <1>1, PoolAssumed, PP!MainOwn
<1>. QED  BY <1>1, <1>2, <1>3 DEF Owns

LEMMA SpuriousOwns ==
  ASSUME Owns, NEW w \in PP!Workers, Pool!SpuriousWake(w), ~strayed' PROVE Owns'
<1>1. PP!SpuriousWake(w) /\ PP!TypeInv /\ PP!Own
  BY DEF Owns, Pool!SpuriousWake, PP!SpuriousWake, Pool!Goto, PP!Goto, Pool!main, PP!main, Pool!net,
         PP!net, Pool!Uninit, PP!Uninit
<1>2. PP!TypeInv'
  BY <1>1, PoolAssumed, PP!SpuriousType
<1>3. PP!Own' /\ handled' = handled
  BY <1>1, PoolAssumed, PP!SpuriousOwn
<1>. QED  BY <1>2, <1>3 DEF Owns

LEMMA HandleRequestOwns ==
  ASSUME Owns, NEW w \in PP!Workers, HandleRequest(w) PROVE Owns'
<1>1. PP!TypeInv /\ PP!Own /\ \A p \in handled : p[1] = p[2]
  BY DEF Owns
<1>2. CASE PP!Worker(w)
  <2>1. PP!TypeInv'
    BY <1>1, <1>2, PoolAssumed, PP!WorkerType
  <2>2. PP!Own' /\ \A p \in handled' : p \in handled \/ p[1] = p[2]
    BY <1>1, <1>2, PoolAssumed, PP!WorkerOwn
  <2>. QED  BY <1>1, <2>1, <2>2 DEF Owns
<1>3. CASE EndOfInput(w) \/ BrokenPipe(w)
  <2>1. /\ workerPc[w] \in {"read", "reply"} /\ workerPc' = [workerPc EXCEPT ![w] = "shutdown"]
        /\ UNCHANGED <<serverMain, socketId, workerSd, request, net, handled>>
        /\ serverAlive' \in {serverAlive, FALSE} /\ UNCHANGED <<spurious, strayed>>
    BY <1>3 DEF EndOfInput, BrokenPipe, Pool!Goto, HandleRequest, wakeUps
  <2>2. PP!TypeInv'
    BY <1>1, <2>1 DEF PP!TypeInv, PP!TypeOK, PP!Count, serverMain, net
  <2>3. \A v \in PP!Workers : workerPc'[v] = IF v = w THEN "shutdown" ELSE workerPc[v]
    BY <1>1, <2>1 DEF PP!TypeInv, PP!TypeOK
  <2>4. PP!Holds(w)'
    BY <1>1, <2>1, <2>3 DEF PP!Own, PP!Holds, PP!Given, serverMain, net
  <2>5. PP!Own'
    BY <1>1, <2>1, <2>3, <2>4, PoolAssumed, PP!OthersHold DEF PP!main, serverMain, net
  <2>. QED  BY <1>1, <2>1, <2>2, <2>5 DEF Owns
<1>. QED  BY <1>2, <1>3, HandleRequestIsWorkers DEF PP!Worker, HandleRequest, wakeUps

\* What the workers' place in the pool says of the connections they serve.
LEMMA WorkerServes ==
  ASSUME Owns, Shown, NEW w \in PP!Workers, workerPc[w] \notin {"start", "waiting"}
  PROVE  /\ w + 1 \in PP!Conns /\ w + 1 <= accepted /\ w + 1 \in 1 .. Len(connected)
         /\ workerPc[w] \in {"read", "header", "reply", "shutdown", "close"} =>
              PP!Peer(w) = w + 1 /\ Connection(w) = connected[w + 1]
         /\ workerPc[w] = "reply" => request[w] = w + 1
<1>1. PP!TypeInv /\ PP!Own /\ PP!Holds(w)
  BY DEF Owns, PP!Own
<1>2. /\ w < accepted /\ accepted \in 0 .. MaxThreads /\ w \in Nat /\ Len(connected) \in Int
      /\ accepted <= Len(connected)
  BY <1>1 DEF PP!TypeInv, PP!TypeOK, PP!Count, PP!Holds, PP!Given, PP!Workers, Shown
<1>3. w + 1 \in PP!Conns /\ w + 1 <= accepted /\ w + 1 \in 1 .. Len(connected)
  BY <1>2, ClientAssumption DEF ClientAssumption, PP!Conns
<1>4. ASSUME workerPc[w] \in {"read", "header", "reply", "shutdown", "close"}
      PROVE  PP!Peer(w) = w + 1 /\ Connection(w) = connected[w + 1]
  <2>1. PP!Peer(w) = w + 1
    BY <1>1, <1>4, PoolAssumed, PP!OwnPeer
  <2>. QED  BY <1>3, <2>1 DEF Connection, PP!Peer, Pool!Peer, PP!Fds, Pool!Fds, PP!Free, Pool!Free
<1>. QED  BY <1>1, <1>3, <1>4 DEF PP!Holds

\* One step of a worker, seen from its connection: it goes on, answers, or shuts down.
GoesOn(w) ==
  /\ UNCHANGED <<handled, serverShut>>
  /\ workerPc[w] # "shutdown"
  /\ \/ workerPc'[w] \notin {"reply", "shutdown"}
     \/ workerPc[w] \in {"read", "header"} /\ workerPc'[w] = "reply" /\ connected[w + 1] \in asked
     \/ workerPc[w] = "read" /\ workerPc'[w] = "shutdown" /\ Gone(connected[w + 1])
     \/ workerPc[w] = "reply" /\ workerPc'[w] = "shutdown"
  /\ workerPc[w] \in {"shutdown", "close", "ended"} =>
       workerPc'[w] \in {"shutdown", "close", "ended"}
  /\ workerPc'[w] \in {"close", "ended"} => workerPc[w] = "close"
  /\ serverAlive' \/ (workerPc[w] = "reply" /\ Gone(connected[w + 1]))

Answers(w) ==
  /\ workerPc[w] = "reply" /\ workerPc'[w] = "shutdown"
  /\ handled' = handled \cup {<<w + 1, w + 1>>} /\ UNCHANGED serverShut /\ serverAlive'

ShutsDown(w) ==
  /\ workerPc[w] = "shutdown" /\ workerPc'[w] = "close"
  /\ serverShut' = serverShut \cup {w + 1} /\ UNCHANGED handled /\ serverAlive'

\* Every step of a worker is one of these, and there is none when the process has ended.
LEMMA WorkerSteps ==
  ASSUME Owns, Shown, NEW w \in PP!Workers, Serves(w), HandleRequest(w)
  PROVE  /\ serverAlive /\ accepted' = accepted
         /\ \A v \in PP!Workers : v # w => workerPc'[v] = workerPc[v]
         /\ GoesOn(w) \/ Answers(w) \/ ShutsDown(w)
<1> USE DEF PP!Goto, PP!main, PP!net
<1>1. workerPc \in [PP!Workers -> {"start", "waiting", "woken", "read", "header", "reply",
                                   "shutdown", "close", "ended"}]
  BY DEF Owns, PP!TypeInv, PP!TypeOK
<1>2. /\ serverAlive /\ accepted' = accepted
      /\ \A v \in PP!Workers : v # w => workerPc'[v] = workerPc[v]
  <2>1. PP!Worker(w) \/ EndOfInput(w) \/ BrokenPipe(w)
    BY HandleRequestIsWorkers DEF PP!Worker, HandleRequest, wakeUps
  <2>. QED
    BY <1>1, <2>1
    DEF PP!Worker, PP!CondWait, PP!TakeRequest, PP!ReadPart, PP!ReadRequest, PP!ReadNothing, PP!ReplyFile,
        PP!ReplyError, PP!NoReply, PP!Shutdown, PP!Close, EndOfInput, BrokenPipe, Pool!Goto, net
<1>3. CASE PP!CondWait(w) \/ PP!TakeRequest(w)
  BY <1>1, <1>3, <1>2 DEF PP!CondWait, PP!TakeRequest, GoesOn
<1>12. CASE PP!ReadPart(w)
  BY <1>1, <1>2, <1>12 DEF PP!ReadPart, GoesOn
<1>4. CASE Connection(w) \in asked /\ PP!ReadRequest(w)
  <2>1. /\ workerPc[w] \in {"read", "header"} /\ workerPc' = [workerPc EXCEPT ![w] = "reply"]
        /\ UNCHANGED <<handled, serverShut, serverAlive>>
    BY <1>4 DEF PP!ReadRequest
  <2>2. connected[w + 1] \in asked
    BY <1>4, <2>1, WorkerServes
  <2>. QED  BY <1>1, <1>2, <2>1, <2>2 DEF GoesOn
<1>5. CASE EndOfInput(w)
  <2>1. /\ workerPc[w] = "read" /\ workerPc' = [workerPc EXCEPT ![w] = "shutdown"]
        /\ UNCHANGED <<handled, serverShut, serverAlive>> /\ Gone(Connection(w))
    BY <1>5 DEF EndOfInput, Pool!Goto, net
  <2>2. Gone(connected[w + 1])
    BY <2>1, WorkerServes
  <2>. QED  BY <1>1, <1>2, <2>1, <2>2 DEF GoesOn
<1>6. ~ PP!ReadNothing(w)
  BY WorkerServes DEF PP!ReadNothing, Serves
<1>7. CASE PP!ReplyFile(w) \/ PP!ReplyError(w)
  <2>1. PP!Answer(w) /\ workerPc[w] = "reply" /\ workerPc' = [workerPc EXCEPT ![w] = "shutdown"]
        /\ UNCHANGED serverShut
    BY <1>7 DEF PP!ReplyFile, PP!ReplyError
  <2>2. PP!Peer(w) = w + 1 /\ request[w] = w + 1 /\ w + 1 \in PP!Conns /\ w + 1 \notin serverShut
    BY <2>1, WorkerServes DEF Serves
  <2>3. handled' = handled \cup {<<w + 1, w + 1>>} /\ serverAlive'
    BY <2>1, <2>2 DEF PP!Answer, PP!AnswerTo
  <2>. QED  BY <1>1, <1>2, <2>1, <2>3 DEF Answers
<1>8. CASE PP!NoReply(w)
  BY <1>1, <1>2, <1>8 DEF PP!NoReply, GoesOn
<1>9. CASE BrokenPipe(w)
  <2>1. /\ workerPc[w] = "reply" /\ workerPc' = [workerPc EXCEPT ![w] = "shutdown"]
        /\ UNCHANGED <<handled, serverShut>> /\ Gone(Connection(w))
    BY <1>9 DEF BrokenPipe, Pool!Goto, net
  <2>2. Gone(connected[w + 1])
    BY <2>1, WorkerServes
  <2>3. workerPc'[w] = "shutdown"
    BY <1>1, <2>1
  <2>. QED  BY <1>2, <2>1, <2>2, <2>3 DEF GoesOn
<1>10. CASE PP!Shutdown(w)
  <2>1. PP!Peer(w) = w + 1 /\ w + 1 \in PP!Conns
    BY <1>10, WorkerServes DEF PP!Shutdown
  <2>. QED  BY <1>1, <1>2, <1>10, <2>1 DEF PP!Shutdown, ShutsDown
<1>11. CASE PP!Close(w)
  BY <1>1, <1>2, <1>11 DEF PP!Close, GoesOn
<1>. QED
  BY <1>2, <1>3, <1>4, <1>5, <1>6, <1>7, <1>8, <1>9, <1>10, <1>11, <1>12, HandleRequestIsWorkers

\* main() of the server touches no connection's state; what can end the process there.
LEMMA ServerMainSteps ==
  ASSUME Owns, Shown, ServerMain, ClientTypes
  PROVE  /\ serverAlive /\ UNCHANGED <<handled, serverShut>>
         /\ accepted' \in {accepted, accepted + 1} /\ accepted' <= Len(connected)
         /\ \A w \in PP!Workers : workerPc'[w] # workerPc[w] =>
              workerPc[w] = "waiting" /\ workerPc'[w] = "woken"
         /\ serverAlive' \/ serverPc = "accept" \/ threadCount \notin PP!Workers
<1> USE DEF PP!workers, PP!net
<1>1. accepted \in Nat /\ Len(connected) \in Nat /\ accepted <= Len(connected)
  BY LenProperties DEF Owns, PP!TypeInv, PP!TypeOK, ClientTypes, Shown
<1>2. accepted < Len(connected) => accepted + 1 <= Len(connected)
  BY <1>1
<1>3. CASE accepted < Len(connected) /\ (Pool!Accept \/ Pool!AcceptFails)
  <2>1. /\ serverAlive /\ UNCHANGED <<handled, serverShut, workerPc>> /\ serverPc = "accept"
        /\ accepted' \in {accepted, accepted + 1}
    BY <1>3 DEF Pool!Accept, Pool!AcceptFails, Pool!workers, Pool!net
  <2>. QED  BY <1>1, <1>2, <1>3, <2>1
<1>4. CASE Pool!Assign
  BY <1>1, <1>4 DEF Pool!Assign, Pool!workers, Pool!net, Pool!Workers, PP!Workers
<1>5. CASE Pool!Signal
  <2>1. /\ serverAlive /\ UNCHANGED <<handled, serverShut, accepted>>
        /\ serverAlive' \/ threadCount \notin PP!Workers
    BY <1>5 DEF Pool!Signal, Pool!net, Pool!Workers, PP!Workers
  <2>2. \A w \in PP!Workers : workerPc'[w] = IF w = threadCount /\ workerPc[w] = "waiting"
                                             THEN "woken" ELSE workerPc[w]
    BY <1>5 DEF Pool!Signal, Pool!Workers, PP!Workers
  <2>. QED  BY <1>1, <2>1, <2>2
<1>. QED  BY <1>3, <1>4, <1>5 DEF ServerMain

\* The server's step and what the client sees of it agree.
LEMMA ShownToClient ==
  ASSUME Shown, Seen, serverAlive, handled \subseteq handled', accepted <= Len(connected),
         accepted' <= Len(connected), \A p \in handled' : p[2] <= accepted'
  PROVE  Shown'
<1>1. connected' = connected
  BY DEF Seen, main
<1>2. answered' = {connected[p[2]] : p \in handled'}
  BY DEF Seen, Shown
<1>3. serverAlive' => ended' = {connected[k] : k \in serverShut'}
  BY DEF Seen
<1>. QED  BY <1>1, <1>2, <1>3 DEF Shown

LEMMA ServerMainShows ==
  ASSUME ClientTypes, Owns, Shown, \A w \in PP!Workers : Serves(w), ServerMain, Seen
  PROVE  Shown' /\ \A w \in PP!Workers : Serves(w)'
<1>1. accepted \in Nat /\ Len(connected) \in Nat /\ \A p \in handled : p[2] \in Nat
  BY LenProperties DEF Owns, PP!TypeInv, PP!TypeOK, ClientTypes, PP!Conns
<1>2. \A p \in handled' : p[2] <= accepted'
  BY <1>1, ServerMainSteps DEF Shown
<1>3. Shown'
  BY <1>2, ServerMainSteps, ShownToClient DEF Shown
<1>4. UNCHANGED <<connected, asked, shut, mainPc, alive, open>>
  BY DEF Seen, main
<1>5. ASSUME NEW w \in PP!Workers PROVE Serves(w)'
  BY <1>4, <1>5, ServerMainSteps DEF Serves, Gone
<1>. QED  BY <1>3, <1>5

LEMMA WorkerShows ==
  ASSUME ClientTypes, Owns, Owns', Shown, \A v \in PP!Workers : Serves(v),
         NEW w \in PP!Workers, HandleRequest(w), Seen
  PROVE  Shown' /\ \A v \in PP!Workers : Serves(v)'
<1>1. /\ accepted \in Nat /\ Len(connected) \in Nat /\ accepted <= Len(connected)
      /\ \A p \in handled : p[2] <= accepted
  BY LenProperties DEF Owns, PP!TypeInv, PP!TypeOK, ClientTypes, Shown
<1>2. /\ serverAlive /\ accepted' = accepted
      /\ \A v \in PP!Workers : v # w => workerPc'[v] = workerPc[v]
      /\ GoesOn(w) \/ Answers(w) \/ ShutsDown(w)
  BY WorkerSteps
<1>3. UNCHANGED <<connected, asked, shut, mainPc, alive, open>>
  BY DEF Seen, main
<1>4. handled \subseteq handled' /\ \A p \in handled' : p[2] <= accepted
  <2>1. Answers(w) => w + 1 <= accepted
    BY WorkerServes DEF Answers
  <2>. QED  BY <1>1, <1>2, <2>1 DEF GoesOn, Answers, ShutsDown
<1>5. Shown'
  BY <1>1, <1>2, <1>4, ShownToClient
<1>6. ASSUME NEW v \in PP!Workers, v # w PROVE Serves(v)'
  <2>1. Serves(v) /\ v + 1 # w + 1
    BY <1>6 DEF PP!Workers
  <2>2. \A p \in handled' : p \in handled \/ p[2] # v + 1
    BY <1>2, <2>1 DEF GoesOn, Answers, ShutsDown
  <2>3. v + 1 \in serverShut' => v + 1 \in serverShut
    BY <1>2, <2>1 DEF GoesOn, Answers, ShutsDown
  <2>4. workerPc'[v] = workerPc[v]
    BY <1>2, <1>6
  <2>. QED  BY <1>3, <2>1, <2>2, <2>3, <2>4 DEF Serves, Gone
<1>7. Serves(w)'
  <2>1. CASE GoesOn(w)
    BY <1>3, <2>1 DEF GoesOn, Serves, Gone
  <2>2. CASE Answers(w)
    BY <1>3, <2>2 DEF Answers, Serves, Gone
  <2>3. CASE ShutsDown(w)
    BY <1>3, <2>3 DEF ShutsDown, Serves
  <2>. QED  BY <1>2, <2>1, <2>2, <2>3
<1>. QED  BY <1>5, <1>6, <1>7

\* The client's steps leave what the server did as it was.
LEMMA ClientShows ==
  ASSUME ClientTypes, Creation, Made, Owns, Shown, \A w \in PP!Workers : Serves(w),
         Main \/ \E t \in Threads : Thread(t), UNCHANGED pool
  PROVE  Shown' /\ \A w \in PP!Workers : Serves(w)'
<1>1. /\ Len(connected) \in Nat /\ Len(connected') \in Nat /\ Len(connected) <= Len(connected')
      /\ \A k \in 1 .. Len(connected) : connected'[k] = connected[k]
  <2>1. CASE Main
    BY <2>1, Appended
  <2>2. CASE \E t \in Threads : Thread(t)
    BY <2>2, ThreadKeepsTypes, LenProperties DEF ClientTypes
  <2>. QED  BY <2>1, <2>2
<1>2. UNCHANGED <<answered, ended>> /\ asked \subseteq asked'
  BY DEF Main, Thread, server, Socket, SocketFails, Connect, ConnectFails, Create, Join,
         JoinUnknown, Write, ReadAnswer, ReadEnd, Shutdown, Close
<1>3. UNCHANGED <<accepted, handled, serverShut, serverAlive, workerPc>>
  BY DEF pool, net
<1>4. accepted \in Nat /\ handled \subseteq PP!Conns \X PP!Conns /\ serverShut \subseteq 1 .. accepted
  BY DEF Owns, PP!TypeInv, PP!TypeOK
<1>5. Shown'
  <2>1. \A k \in PP!Conns : k <= accepted => connected'[k] = connected[k]
    BY <1>1, <1>4 DEF Shown, PP!Conns
  <2>2. \A p \in handled : connected'[p[2]] = connected[p[2]]
    BY <1>4, <2>1 DEF Shown
  <2>3. \A k \in serverShut : connected'[k] = connected[k]
    BY <1>1, <1>4 DEF Shown
  <2>4. accepted' <= Len(connected') /\ \A p \in handled' : p[2] <= accepted'
    BY <1>1, <1>3, <1>4 DEF Shown
  <2>5. answered' = {connected'[p[2]] : p \in handled'}
    BY <1>2, <1>3, <2>2 DEF Shown
  <2>6. serverAlive' => ended' = {connected'[k] : k \in serverShut'}
    BY <1>2, <1>3, <2>3 DEF Shown
  <2>. QED  BY <2>4, <2>5, <2>6 DEF Shown
<1>6. ASSUME NEW w \in PP!Workers PROVE Serves(w)'
  <2>1. workerPc[w] \in {"reply", "shutdown"} => connected'[w + 1] = connected[w + 1]
    BY <1>1, WorkerServes
  <2>2. PICK c : c = connected[w + 1]
    OBVIOUS
  <2>3. Gone(c) => Gone(c)'
    BY GoneStays
  <2>4. workerPc[w] = "shutdown" => c \in asked' \/ Gone(c)'
    BY <1>2, <1>6, <2>2, <2>3 DEF Serves
  <2>5. workerPc'[w] = "shutdown" => connected'[w + 1] \in asked' \/ Gone(connected[w + 1])'
    BY <1>3, <2>1, <2>2, <2>4 DEF Gone
  <2>. QED  BY <1>2, <1>3, <2>1, <2>5 DEF Serves
<1>. QED  BY <1>5, <1>6

LEMMA PoolStays ==
  ASSUME Owns, UNCHANGED pool
  PROVE  Owns'
<1> USE DEF pool, serverMain, net, wakeUps
<1>1. PP!TypeInv'
  BY DEF Owns, PP!TypeInv, PP!TypeOK, PP!Count
<1>2. PP!Own' /\ \A p \in handled' : p[1] = p[2]
  BY DEF Owns, PP!Own, PP!OneFd, PP!MainHolds, PP!Holds, PP!Given
<1>. QED  BY <1>1, <1>2 DEF Owns

\* The invariant of the pair after a step of either process.
LEMMA PairKept == PairInv /\ [NextPair]_pair => PairInv'
<1> SUFFICES ASSUME PairInv, [NextPair]_pair PROVE PairInv'
  OBVIOUS
<1>1. ClientPairInv' /\ ClientTypes /\ Creation
  BY ClientPairKept DEF PairInv, ClientPairInv, ClientInv
<1>2. CASE ClientMain \/ \E t \in Threads : MakeRequest(t)
  <2>1. Main \/ \E t \in Threads : Thread(t)
    BY <1>2 DEF ClientMain, MakeRequest, ClientStep
  <2>2. UNCHANGED <<alone, pool>> /\ UNCHANGED program
    BY <1>2, <2>1 DEF ClientMain, MakeRequest, ClientStep, Main, Thread
  <2>3. Made' /\ Joined'
    BY <1>1, <2>1, MainMakes, ThreadMakes DEF PairInv
  <2>6. strayed' = strayed
    BY <2>2 DEF pool, wakeUps
  <2>4. ~alone /\ ~strayed => Owns' /\ Shown' /\ \A w \in PP!Workers : Serves(w)'
    BY <1>1, <2>1, <2>2, ClientShows, PoolStays DEF PairInv
  <2>5. ~alone /\ ~strayed /\ serverAlive' /\ RequestsPerThread' <= 1 => StillReads'
    BY <2>1, <2>2, OneRequest, StillReadsKept DEF PairInv, ClientPairInv, program, pool
  <2>. QED  BY <1>1, <2>2, <2>3, <2>4, <2>5, <2>6 DEF PairInv
<1>3. CASE UNCHANGED pair \/ \E c \in Threads : External(c) \/ ExternalCloses(c)
  <2>1. UNCHANGED <<alone, pool, program, main, threads>> /\ (alone \/ UNCHANGED <<pool, vars>>)
    BY <1>3 DEF pair, vars, External, ExternalCloses, ClientStep, Server, Closes, ServerAnswers,
                ServerCloses
  <2>2. Made' /\ Joined'
    BY <2>1 DEF PairInv, Made, Joined, Reached, program, main, threads
  <2>6. strayed' = strayed
    BY <2>1 DEF pool, wakeUps
  <2>3. ~alone /\ ~strayed => Owns'
    BY <2>1, PoolStays DEF PairInv
  <2>4. ~alone /\ ~strayed => Shown' /\ \A w \in PP!Workers : Serves(w)'
    BY <2>1 DEF PairInv, Shown, Serves, Gone, vars, main, server, pool, net
  <2>5. ~alone /\ ~strayed /\ serverAlive' /\ RequestsPerThread' <= 1 => StillReads'
    BY <2>1 DEF PairInv, StillReads, vars, program, main, threads, server, pool
  <2>. QED  BY <1>1, <2>1, <2>2, <2>3, <2>4, <2>5, <2>6 DEF PairInv
<1>4. ASSUME ~alone, ~strayed, Seen, UNCHANGED alone,
             ServerMain \/ \E w \in PP!Workers : HandleRequest(w)
      PROVE  PairInv'
  <2>1. UNCHANGED <<program, main, threads, asked>>
    BY <1>4 DEF Seen
  <2>2. Made' /\ Joined'
    BY <2>1 DEF PairInv, Made, Joined, Reached, program, main, threads
  <2>3. Owns'
    BY <1>4, ServerMainOwns, HandleRequestOwns DEF PairInv
  <2>4. Shown' /\ \A w \in PP!Workers : Serves(w)'
    BY <1>1, <1>4, <2>3, ServerMainShows, WorkerShows DEF PairInv
  <2>5. serverAlive /\ serverShut \subseteq serverShut'
    BY <1>1, <1>4, ServerMainSteps, WorkerSteps DEF PairInv, GoesOn, Answers, ShutsDown
  <2>6. serverAlive' => ended \subseteq ended'
    BY <1>4, <2>1, <2>4, <2>5 DEF PairInv, Shown, main
  <2>7. serverAlive' /\ RequestsPerThread' <= 1 => StillReads'
    BY <1>4, <2>1, <2>5, <2>6 DEF PairInv, StillReads, program, main, threads
  <2>. QED  BY <1>1, <1>4, <2>2, <2>3, <2>4, <2>7 DEF PairInv
<1>5. ASSUME NEW w \in PP!Workers, ~alone, ~strayed, Seen, UNCHANGED alone, Pool!SpuriousWake(w)
      PROVE  PairInv'
  <2>1. UNCHANGED <<program, main, threads, asked, open, shut, alive>>
    BY <1>5 DEF Seen
  <2>2. Made' /\ Joined'
    BY <2>1 DEF PairInv, Made, Joined, Reached, program, main, threads
  <2> SUFFICES ASSUME ~strayed' PROVE PairInv'
    BY <1>1, <1>5, <2>2 DEF PairInv
  <2>3. Owns /\ Shown /\ Owns'
    BY <1>5, SpuriousOwns DEF PairInv
  <2>4. /\ serverAlive /\ UNCHANGED <<handled, serverShut, serverAlive, accepted>>
        /\ workerPc[w] = "waiting" /\ workerPc' = [workerPc EXCEPT ![w] = "woken"]
    BY <1>5 DEF Pool!SpuriousWake, Pool!Goto, Pool!net
  <2>5. Shown' /\ ended' = ended
    <3>1. Shown'
      BY <1>5, <2>3, <2>4, ShownToClient DEF Shown
    <3>. QED  BY <2>1, <2>3, <2>4, <3>1 DEF Shown, main
  <2>6. ASSUME NEW v \in PP!Workers PROVE Serves(v)'
    <3>1. workerPc'[v] = workerPc[v] \/ (workerPc[v] = "waiting" /\ workerPc'[v] = "woken")
      BY <2>3, <2>4 DEF Owns, PP!TypeInv, PP!TypeOK
    <3>2. Serves(v)
      BY <1>5 DEF PairInv
    <3>. QED  BY <2>1, <2>4, <3>1, <3>2 DEF Serves, Gone, main
  <2>7. serverAlive' /\ RequestsPerThread' <= 1 => StillReads'
    BY <1>5, <2>1, <2>4, <2>5 DEF PairInv, StillReads, program, main, threads
  <2>. QED  BY <1>1, <1>5, <2>2, <2>3, <2>5, <2>6, <2>7 DEF PairInv
<1>. QED
  BY <1>2, <1>3, <1>4, <1>5 DEF NextPair, ServerStep, Pool!Workers, PP!Workers

-----------------------------------------------------------------------------
(* Theorems about the pair.                                                *)

\* The invariant of the pair, from the start on.
LEMMA PairStarts == InitPair => PairInv
<1> SUFFICES ASSUME InitPair PROVE PairInv
  OBVIOUS
<1>1. ClientPairInv
  BY ClientStarts DEF InitPair, ClientPairInv
<1>2. Made /\ Joined
  BY DEF InitPair, Init, Made, Joined, Reached
<1>3. PP!Init
  BY DEF InitPair, Pool!Init, PP!Init, Pool!Workers, PP!Workers, Pool!Uninit, PP!Uninit, Pool!Fds,
         PP!Fds, Pool!Free, PP!Free
<1>4. Owns
  <2>1. PP!TypeInv
    BY <1>3, PoolAssumed, PP!InitType
  <2>2. PP!Own /\ handled = {}
    BY <1>3, PoolAssumed
    DEF PP!RoundRobinAssumption, PP!Init, PP!Own, PP!OneFd, PP!MainHolds, PP!Holds, PP!Given,
        PP!Workers, PP!Conns, PP!Free
  <2>. QED  BY <2>1, <2>2 DEF Owns
<1>5. Shown /\ (\A w \in PP!Workers : Serves(w)) /\ StillReads
  BY <1>3 DEF InitPair, Init, PP!Init, Shown, Serves, StillReads, PP!Workers
<1>. QED  BY <1>1, <1>2, <1>4, <1>5 DEF PairInv

LEMMA AlwaysPair == SpecPair => []PairInv
  BY PairStarts, PairKept, PTL DEF SpecPair

\* The connection of worker w is that of one client, and no other connection is.
LEMMA OneConnection ==
  ASSUME ClientTypes, Made, NEW k \in 1 .. Len(connected)
  PROVE  /\ connected[k] \in Threads
         /\ \A j \in 1 .. Len(connected) : connected[j] = connected[k] => j = k
  BY ElementOfSeq DEF ClientTypes, Made

\* Who is served and has not been shut down, the client finds open.
LEMMA NotEnded ==
  ASSUME ClientTypes, Made, Owns, Shown, serverAlive, NEW w \in PP!Workers,
         workerPc[w] \notin {"start", "waiting"}, w + 1 \notin serverShut
  PROVE  /\ w + 1 \in 1 .. Len(connected) /\ connected[w + 1] \in Threads
         /\ connected[w + 1] \notin ended
<1>1. w + 1 \in 1 .. Len(connected)
  BY WorkerServes
<1>2. serverShut \subseteq 1 .. Len(connected)
  BY LenProperties DEF Owns, PP!TypeInv, PP!TypeOK, Shown, ClientTypes
<1>. QED  BY <1>1, <1>2, OneConnection DEF Shown

\* A step of the server, as long as it runs, is one the client's external server may take.
LEMMA ContractKept ==
  ASSUME PairInv, ~alone, ~strayed, Seen, serverAlive',
         ServerMain \/ \E w \in PP!Workers : HandleRequest(w)
  PROVE  Next \/ UNCHANGED vars
<1>1. ClientTypes /\ Made /\ Owns /\ Shown /\ \A w \in PP!Workers : Serves(w)
  BY DEF PairInv, ClientPairInv, ClientInv
<1>2. UNCHANGED <<program, main, threads, open, asked, reset, shut, received, alive>>
  BY DEF Seen
<1>3. CASE UNCHANGED <<handled, serverShut, serverAlive>>
  <2>1. answered' = answered /\ answers' = answers /\ ended' = ended
    BY <1>1, <1>3 DEF Seen, Shown
  <2>. QED  BY <1>2, <2>1 DEF vars, server
<1>4. CASE ServerMain
  BY <1>1, <1>3, <1>4, ServerMainSteps
<1>5. ASSUME NEW w \in PP!Workers, HandleRequest(w) PROVE Next \/ UNCHANGED vars
  <2>1. serverAlive /\ (GoesOn(w) \/ Answers(w) \/ ShutsDown(w)) /\ Serves(w)
    BY <1>1, <1>5, WorkerSteps
  <2>2. CASE GoesOn(w)
    BY <1>3, <2>1, <2>2 DEF GoesOn
  <2> DEFINE c == connected[w + 1]
  <2>3. ASSUME Answers(w) \/ ShutsDown(w)
        PROVE  /\ w + 1 \in 1 .. Len(connected) /\ c \in Threads
               /\ \A j \in 1 .. Len(connected) : connected[j] = c => j = w + 1
    <3>1. w + 1 \in 1 .. Len(connected)
      BY <1>1, <2>3, WorkerServes DEF Answers, ShutsDown
    <3>. QED  BY <1>1, <3>1, OneConnection
  <2>4. Answers(w) \/ ShutsDown(w) => c \notin ended
    BY <1>1, <2>1, NotEnded DEF Serves, Answers, ShutsDown
  <2>5. CASE Answers(w)
    <3>1. c \in asked /\ \A p \in handled : p[2] # w + 1
      BY <2>1, <2>5 DEF Serves, Answers
    <3>2. \A p \in handled : p[2] \in 1 .. Len(connected)
      <4>1. \A p \in handled : p[2] \in Nat \ {0} /\ p[2] <= accepted
        BY <1>1 DEF Owns, PP!TypeInv, PP!TypeOK, PP!Conns, Shown
      <4>2. Len(connected) \in Nat /\ accepted \in Nat /\ accepted <= Len(connected)
        BY <1>1, LenProperties DEF Owns, PP!TypeInv, PP!TypeOK, Shown, ClientTypes
      <4>. QED  BY <4>1, <4>2
    <3>3. c \notin answered
      <4>1. \A p \in handled : connected[p[2]] # c
        BY <2>3, <2>5, <3>1, <3>2
      <4>. QED  BY <1>1, <4>1 DEF Shown
    <3>4. handled' \ handled = {<<w + 1, w + 1>>}
      BY <2>5, <3>1 DEF Answers
    <3>5. answers' = answers \cup {c} /\ answered' = answered \cup {c}
      <4>1. {connected[p[2]] : p \in {<<w + 1, w + 1>>}} = {c}
        <5>1. <<w + 1, w + 1>>[2] = w + 1
          OBVIOUS
        <5> HIDE DEF c
        <5>2. \A p \in {<<w + 1, w + 1>>} : connected[p[2]] = c
          BY <5>1 DEF c
        <5>. QED  BY <5>2, Zenon
      <4>. QED  BY <3>4, <4>1 DEF Seen
    <3>6. ended' = ended
      BY <1>1, <2>1, <2>5 DEF Seen, Shown, Answers
    <3>7. ServerAnswers(c)
      BY <1>2, <2>4, <2>5, <3>1, <3>3, <3>5, <3>6 DEF ServerAnswers
    <3>. QED  BY <1>2, <2>3, <2>5, <3>7 DEF Next, Server
  <2>6. CASE ShutsDown(w)
    <3>1. c \in asked \/ Gone(c)
      BY <2>1, <2>6 DEF Serves, ShutsDown
    <3>2. answered' = answered /\ answers' = answers
      BY <2>6 DEF Seen, ShutsDown
    <3>3. ended' = ended \cup {c}
      BY <1>1, <2>1, <2>6 DEF Seen, Shown, ShutsDown
    <3>4. ServerCloses(c)
      BY <1>2, <2>4, <2>6, <3>1, <3>2, <3>3 DEF ServerCloses
    <3>. QED  BY <1>2, <2>3, <2>6, <3>4 DEF Next, Closes
  <2>. QED  BY <2>1, <2>2, <2>5, <2>6
<1>. QED  BY <1>4, <1>5

\* While its process runs and no worker strays, the server does to a connection what the
\* client was checked against and nothing else: at most one answer, after a request, and a
\* close, after a request or the client's own (16030009-16030012/s.c:239-318).
THEOREM KeepsContract == SpecPair => ServerKeepsContract
<1>1. PairInv /\ [NextPair]_pair => [~alone /\ serverAlive' /\ ~strayed' => Next]_vars
  <2> SUFFICES ASSUME PairInv, [NextPair]_pair, ~alone, serverAlive', ~strayed'
               PROVE  Next \/ UNCHANGED vars
    OBVIOUS
  <2>1. CASE UNCHANGED pair
    BY <2>1 DEF pair
  <2>2. CASE ClientMain \/ \E t \in Threads : MakeRequest(t) \/ External(t) \/ ExternalCloses(t)
    BY <2>2 DEF ClientMain, MakeRequest, External, ExternalCloses, ClientStep, Next
  <2>3. CASE ServerStep(ServerMain) \/ \E w \in Pool!Workers : ServerStep(HandleRequest(w))
    BY <2>3, ContractKept DEF ServerStep, Pool!Workers, PP!Workers
  <2>4. ASSUME NEW w \in Pool!Workers, ServerStep(Pool!SpuriousWake(w))
        PROVE  UNCHANGED vars
    <3>1. /\ Shown /\ Seen /\ serverAlive
          /\ UNCHANGED <<handled, serverShut, serverAlive>>
      BY <2>4 DEF ServerStep, PairInv, Pool!SpuriousWake, Pool!Goto, Pool!net
    <3>2. UNCHANGED <<program, main, threads, open, asked, reset, shut, received, alive>>
      BY <3>1 DEF Seen
    <3>3. answered' = answered /\ answers' = answers /\ ended' = ended
      BY <3>1 DEF Seen, Shown
    <3>. QED  BY <3>2, <3>3 DEF vars, server
  <2>. QED  BY <2>1, <2>2, <2>3, <2>4 DEF NextPair
<1>. QED  BY <1>1, AlwaysPair, PTL DEF SpecPair, ServerKeepsContract

\* As long as a client whose threads send one request each runs, and no worker strays, a worker
\* that replies does so to a thread that reads, and the step that ends the server is main()'s,
\* at an accept that found no descriptor (16030009-16030012/s.c:147-173, 180-227, c.c:193-212).
THEOREM NobodyEndsServer == SpecPair => OnlyAcceptEndsServer
<1>1. PairInv /\ [NextPair]_pair =>
      [~alone /\ RequestsPerThread <= 1 /\ TotalThreads <= ServerWorkers /\ alive /\ ~strayed
        => (serverAlive /\ ~serverAlive' => AcceptHasFailed)]_pair
  <2> SUFFICES ASSUME PairInv, [NextPair]_pair, ~alone, RequestsPerThread <= 1,
                      TotalThreads <= ServerWorkers, alive, ~strayed, serverAlive, ~serverAlive'
               PROVE  AcceptHasFailed
    OBVIOUS
  <2>1. ClientInv /\ ClosesOnce /\ Owns /\ Shown /\ \A w \in PP!Workers : Serves(w)
    BY OneRequest DEF PairInv, ClientPairInv
  <2>2. ServerMain \/ \E w \in PP!Workers : HandleRequest(w)
    BY DEF NextPair, ClientMain, MakeRequest, External, ExternalCloses, ClientStep, ServerStep,
           Pool!Workers, PP!Workers, pair, pool, Pool!SpuriousWake
  <2>3. CASE ServerMain
    <3>1. threadCount \in PP!Workers \/ serverPc = "accept"
      <4>1. /\ threadCount \in Nat /\ accepted \in Nat /\ accepted <= Len(connected)
            /\ serverPc # "accept" => accepted = threadCount + 1
        BY <2>1 DEF Owns, PP!TypeInv, PP!TypeOK, PP!Count, Shown
      <4>2. /\ Len(connected) \in Nat /\ Len(connected) <= Reached /\ Reached <= TotalThreads
            /\ Reached \in Int /\ TotalThreads \in Int
        BY <2>1, LenProperties DEF PairInv, Made, Reached, ClientInv, ClientTypes, Threads
      <4>. QED  BY <4>1, <4>2, PairAssumption DEF PP!Workers, PairAssumption
    <3>2. ~Pool!Accept
      BY DEF Pool!Accept
    <3>3. ~Pool!Assign /\ ~Pool!Signal
      BY <3>1 DEF Pool!Assign, Pool!Signal, Pool!Workers, PP!Workers
    <3>4. accepted < Len(connected) /\ Pool!AcceptFails
      BY <2>3, <3>2, <3>3 DEF ServerMain
    <3>. QED
      BY <3>4 DEF AcceptHasFailed, Pool!AcceptFails, Pool!main, Pool!workers, Pool!net, serverMain
  <2>4. ASSUME NEW w \in PP!Workers, HandleRequest(w) PROVE FALSE
    <3>1. workerPc[w] = "reply" /\ Gone(connected[w + 1]) /\ Serves(w)
      BY <2>1, <2>4, WorkerSteps DEF GoesOn, Answers, ShutsDown
    <3>2. PICK t : t = connected[w + 1]
      OBVIOUS
    <3>3. t \in Threads /\ t \in asked /\ t \notin ended
      BY <2>1, <3>1, <3>2, NotEnded DEF Serves, PairInv, ClientInv
    <3>4. t \in created /\ pc[t] = "read"
      BY <3>3 DEF PairInv, StillReads
    <3>5. t \notin shut /\ mySd[t] \in Fds /\ open[mySd[t]] = t
      BY <2>1, <3>3, <3>4 DEF ClientInv, LastThing, Own, Creation, AtWork
    <3>6. mainPc # "return"
      BY <3>4 DEF PairInv, Joined
    <3>. QED  BY <3>1, <3>2, <3>5, <3>6 DEF Gone
  <2>. QED  BY <2>2, <2>3, <2>4
<1>. QED  BY <1>1, AlwaysPair, PTL DEF SpecPair, OnlyAcceptEndsServer
=============================================================================
