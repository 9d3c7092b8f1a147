----------------------- MODULE SharedMemoryGetProofs -----------------------
(***************************************************************************)
(* Theorems about SharedMemoryGet, for any number of requests, any keys    *)
(* ftok may return and any number of segments.                             *)
(***************************************************************************)
EXTENDS SharedMemoryGet, TLAPS

PcSet == {"new", "file", "create", "reopen", "done", "killed"} \cup Busy
Serving == {"attach", "copy", "copying", "signal"}

\* The types, and which handlers have named a segment.  Segments are numbered as they are
\* made, so that no variable names one that was not made yet.
Types ==
  /\ pc \in [Requests -> PcSet] /\ seg \in [Requests -> 0 .. made]
  /\ unsignalled \in [Requests -> BOOLEAN]
  /\ reply \in [Requests -> {"none", "file", "empty", "partial", "whole"}]
  /\ srv \in [Requests -> {"none", "open", "done"} \cup Serving]
  /\ srvSeg \in [Requests -> 0 .. made]
  /\ made \in 0 .. MaxSegments /\ ftok \in Keyings
  /\ segOf \in [Keys -> 0 .. made]
  /\ locked \in [Segments -> BOOLEAN] /\ waiters \in [Segments -> SUBSET Requests]
  /\ data \in [Segments -> {"empty", "partial", "whole"}]
  /\ proxyUp \in BOOLEAN /\ serverUp \in BOOLEAN
  /\ \A r \in Requests :
       /\ pc[r] \in {"new", "file", "create", "reopen"} => seg[r] = None
       /\ pc[r] \in Busy => seg[r] # None
       /\ srv[r] \in Serving => srvSeg[r] # None

LEMMA KeyIsKey == ASSUME Types, NEW r \in Requests PROVE KeyOf(r) \in Keys
  BY SharedMemoryAssumption DEF SharedMemoryAssumption, Types, KeyOf, Keys

LEMMA SegmentNamed ==
  ASSUME Types, NEW r \in Requests
  PROVE  /\ pc[r] \in Busy => seg[r] \in Segments
         /\ srv[r] \in Serving => srvSeg[r] \in Segments
<1>1. /\ made \in Nat /\ MaxSegments \in Nat /\ made <= MaxSegments
      /\ seg[r] \in 0 .. made /\ srvSeg[r] \in 0 .. made
  BY SharedMemoryAssumption DEF SharedMemoryAssumption, Types
<1>. QED  BY <1>1 DEF Types, Segments, None

LEMMA InitTypes == Init => Types
  BY SharedMemoryAssumption
  DEF SharedMemoryAssumption, Init, Types, PcSet, Busy, Serving, None, Fresh, Segments

LEMMA ProxyTypes == ASSUME Types, NEW r \in Requests, Proxy(r) PROVE Types'
<1>1. made \in Nat /\ MaxSegments \in Nat /\ KeyOf(r) \in Keys
  BY SharedMemoryAssumption, KeyIsKey DEF SharedMemoryAssumption, Types
<1> USE DEF Proxy, Begin, GoOn, Types, PcSet, Busy, Serving, None, Goto, Exit, serverVars, memory
<1>2. CASE Ignore(r) \/ ServeFile(r) \/ ServeFileBreaks(r) \/ NoFile(r)
  <2>1. CASE Ignore(r) \/ NoFile(r)
    BY <2>1 DEF Ignore, NoFile
  <2>2. CASE ServeFile(r)
    BY <2>2 DEF ServeFile
  <2>3. CASE ServeFileBreaks(r)
    BY <2>3 DEF ServeFileBreaks
  <2>. QED  BY <1>2, <2>1, <2>2, <2>3
<1>3. CASE CreateSegment(r)
  <2>1. made' = made + 1 /\ made' \in 0 .. MaxSegments /\ 0 .. made \subseteq 0 .. made' /\ made' \in 0 .. made'
    BY <1>1, <1>3 DEF CreateSegment
  <2>2. seg' = [seg EXCEPT ![r] = made'] /\ segOf' = [segOf EXCEPT ![KeyOf(r)] = made']
    BY <1>3, <2>1 DEF CreateSegment
  <2>3. seg' \in [Requests -> 0 .. made'] /\ segOf' \in [Keys -> 0 .. made']
    BY <2>1, <2>2
  <2>4. srvSeg' \in [Requests -> 0 .. made']
    BY <1>3, <2>1 DEF CreateSegment
  <2>. QED  BY <1>1, <1>3, <2>1, <2>2, <2>3, <2>4 DEF CreateSegment
<1>4. CASE SegmentExists(r)
  BY <1>4 DEF SegmentExists
<1>5. CASE ReopenSegment(r)
  <2>1. seg' = [seg EXCEPT ![r] = segOf[KeyOf(r)]] /\ seg' \in [Requests -> 0 .. made] /\ seg'[r] # None
    BY <1>1, <1>5 DEF ReopenSegment
  <2>. QED  BY <1>5, <2>1 DEF ReopenSegment
<1>6. CASE ReopenFails(r)
  BY <1>6 DEF ReopenFails
<1>7. CASE Attach(r) \/ AttachFails(r)
  BY ZenonT(40), <1>7 DEF Attach, AttachFails
<1>8. CASE InitSync(r)
  <2>1. waiters' \in [Segments -> SUBSET Requests]
    <3>1. PICK w \in {waiters[seg[r]], {}} : waiters' = [waiters EXCEPT ![seg[r]] = w]
      BY <1>8 DEF InitSync
    <3>2. seg[r] \in Segments
      BY <1>1, <1>8 DEF InitSync, Segments
    <3>. QED  BY <3>1, <3>2
  <2>. QED  BY <1>8, <2>1 DEF InitSync
<1>9. CASE Lock(r)
  BY <1>9 DEF Lock
<1>10. CASE HostUnknown(r) \/ SendKeyBreaks(r) \/ ReplyBreaks(r)
  BY <1>10 DEF HostUnknown, SendKeyBreaks, ReplyBreaks
<1>11. CASE ConnectFails(r)
  BY <1>11 DEF ConnectFails
<1>12. CASE Connect(r)
  BY <1>12 DEF Connect
<1>13. CASE SendKey(r)
  BY <1>13 DEF SendKey
<1>14. CASE Wait(r)
  <2>1. waiters' \in [Segments -> SUBSET Requests] /\ locked' \in [Segments -> BOOLEAN]
    BY <1>1, <1>14 DEF Wait, Segments
  <2>. QED  BY <1>14, <2>1 DEF Wait
<1>15. CASE WaitEnds(r)
  <2>1. waiters' \in [Segments -> SUBSET Requests]
    BY <1>1, <1>15 DEF WaitEnds, Segments
  <2>. QED  BY <1>15, <2>1 DEF WaitEnds
<1>16. CASE WaitReturns(r) \/ Unlock(r)
  <2>1. locked' \in [Segments -> BOOLEAN]
    BY <1>16 DEF WaitReturns, Unlock
  <2>2. CASE WaitReturns(r)
    BY <2>1, <2>2 DEF WaitReturns
  <2>3. CASE Unlock(r)
    BY <2>1, <2>3 DEF Unlock
  <2>. QED  BY <1>16, <2>2, <2>3
<1>17. CASE Reply(r)
  <2>1. data[seg[r]] \in {"empty", "partial", "whole"}
    BY <1>1, <1>17 DEF Reply, Segments
  <2>. QED  BY <1>17, <2>1 DEF Reply
<1>18. CASE Remove(r)
  <2>1. segOf' \in [Keys -> 0 .. made]
    BY <1>1, <1>18 DEF Remove
  <2>. QED  BY <1>18, <2>1 DEF Remove
<1>. QED  BY <1>2, <1>3, <1>4, <1>7, <1>8, <1>9, <1>10, <1>13, <1>14, <1>16, <1>17, <1>18, <1>5,
             <1>6, <1>11, <1>12, <1>15

LEMMA ServerTypes == ASSUME Types, NEW r \in Requests, Server(r) PROVE Types'
<1>1. made \in Nat /\ KeyOf(r) \in Keys
  BY KeyIsKey DEF Types
<1> USE DEF Server, Types, PcSet, Busy, Serving, None, ServerGoto, proxyVars, memory
<1>2. CASE WriteToClosed(r) \/ LookUpFails(r)
  <2>1. serverUp' \in BOOLEAN
    BY <1>2 DEF WriteToClosed, LookUpFails
  <2>. QED  BY <1>2, <2>1 DEF WriteToClosed, LookUpFails
<1>3. CASE LookUp(r)
  BY <1>1, <1>3 DEF LookUp
<1>4. CASE ServerAttach(r)
  BY <1>4 DEF ServerAttach
<1>5. CASE ServerAttachFails(r)
  BY <1>5 DEF ServerAttachFails
<1>6. CASE CopyBegins(r) \/ CopyEnds(r)
  <2>1. data' \in [Segments -> {"empty", "partial", "whole"}]
    BY <1>6 DEF CopyBegins, CopyEnds
  <2>. QED  BY <1>6, <2>1 DEF CopyBegins, CopyEnds
<1>7. CASE SignalProxy(r)
  <2>1. waiters' \in [Segments -> SUBSET Requests]
    BY <1>7 DEF SignalProxy
  <2>2. pc' = pc \/ \E q \in Requests : pc[q] = "waiting" /\ pc' = [pc EXCEPT ![q] = "awake"]
    BY <1>1, <1>7 DEF SignalProxy, Segments
  <2>. QED  BY <1>7, <2>1, <2>2 DEF SignalProxy
<1>. QED  BY <1>2, <1>3, <1>4, <1>6, <1>7, <1>5

LEMMA NextTypes == Types /\ [Next]_vars => Types'
<1> SUFFICES ASSUME Types, [Next]_vars PROVE Types'
  OBVIOUS
<1>1. CASE UNCHANGED vars
  BY <1>1 DEF vars, proxyVars, serverVars, memory, Types
<1>2. CASE Restart
  BY <1>2 DEF Restart, serverVars, memory, Types, PcSet, Busy
<1>3. CASE \E r \in Requests : Proxy(r) \/ Server(r)
  BY <1>3, ProxyTypes, ServerTypes
<1>. QED  BY <1>1, <1>2, <1>3 DEF Next

LEMMA AlwaysTyped == Spec => []Types
  BY InitTypes, NextTypes, PTL DEF Spec

\* A handler's step is its own: it moves no other handler, writes no answer, and does to the
\* server at most what sending the key does.
LEMMA ProxyAlone ==
  ASSUME Types, NEW r \in Requests, Proxy(r)
  PROVE  /\ data' = data /\ srvSeg' = srvSeg /\ (srv' = srv \/ srv' = [srv EXCEPT ![r] = "open"])
         /\ \A q \in Requests \ {r} : /\ pc'[q] = pc[q] /\ seg'[q] = seg[q]
                                      /\ (unsignalled'[q] <=> unsignalled[q]) /\ reply'[q] = reply[q]
<1> USE DEF Proxy, Begin, GoOn, Goto, Exit, serverVars, memory, Types
<1>1. CASE Ignore(r) \/ ServeFile(r) \/ ServeFileBreaks(r) \/ NoFile(r)
  BY <1>1 DEF Ignore, ServeFile, ServeFileBreaks, NoFile
<1>2. CASE CreateSegment(r) \/ SegmentExists(r) \/ ReopenSegment(r) \/ ReopenFails(r)
  BY <1>2 DEF CreateSegment, SegmentExists, ReopenSegment, ReopenFails
<1>3. CASE Attach(r) \/ AttachFails(r) \/ InitSync(r) \/ Lock(r)
  BY <1>3 DEF Attach, AttachFails, InitSync, Lock
<1>4. CASE HostUnknown(r) \/ ConnectFails(r) \/ Connect(r) \/ SendKey(r)
           \/ SendKeyBreaks(r) \/ ReplyBreaks(r)
  BY <1>4 DEF HostUnknown, ConnectFails, Connect, SendKey, SendKeyBreaks, ReplyBreaks
<1>5. CASE Wait(r) \/ WaitEnds(r) \/ WaitReturns(r)
  BY <1>5 DEF Wait, WaitEnds, WaitReturns
<1>6. CASE Reply(r) \/ Unlock(r) \/ Remove(r)
  BY <1>6 DEF Reply, Unlock, Remove
<1>. QED  BY <1>1, <1>2, <1>3, <1>4, <1>5, <1>6

\* A server's step is its own but for the one handler it wakes up.
LEMMA ServerAlone ==
  ASSUME Types, NEW r \in Requests, Server(r)
  PROVE  /\ UNCHANGED <<seg, unsignalled, reply, proxyUp, made, segOf, ftok, locked>>
         /\ \A q \in Requests \ {r} : srv'[q] = srv[q] /\ srvSeg'[q] = srvSeg[q]
         /\ \A s \in Segments : data[s] = "whole" => data'[s] = "whole"
         /\ \A s \in Segments : waiters'[s] \subseteq waiters[s]
         /\ \/ pc' = pc
            \/ \E q \in Requests : /\ SignalProxy(r) /\ q \in waiters[srvSeg[r]]
                                   /\ pc[q] = "waiting" /\ pc' = [pc EXCEPT ![q] = "awake"]
<1> USE DEF Server, ServerGoto, proxyVars, memory, Types
<1>1. CASE WriteToClosed(r) \/ LookUp(r) \/ LookUpFails(r)
  BY <1>1 DEF WriteToClosed, LookUp, LookUpFails
<1>2. CASE ServerAttach(r) \/ ServerAttachFails(r)
  BY <1>2 DEF ServerAttach, ServerAttachFails
<1>3. CASE CopyBegins(r) \/ CopyEnds(r)
  BY <1>3 DEF CopyBegins, CopyEnds
<1>4. CASE SignalProxy(r)
  <2>1. srvSeg[r] \in Segments
    BY <1>4, SegmentNamed DEF SignalProxy, Serving
  <2>2. \/ pc' = pc
        \/ \E q \in waiters[srvSeg[r]] : pc[q] = "waiting" /\ pc' = [pc EXCEPT ![q] = "awake"]
    BY <1>4 DEF SignalProxy
  <2>3. \A s \in Segments : waiters'[s] \subseteq waiters[s]
    BY <1>4 DEF SignalProxy
  <2>. QED  BY <1>4, <2>1, <2>2, <2>3 DEF SignalProxy
<1>. QED  BY <1>1, <1>2, <1>3, <1>4

-----------------------------------------------------------------------------
(* What a handler that was signalled sends.                                *)

\* Whoever waits in a segment waits in its own; a server that is about to signal has written
\* the whole answer, and a handler that woke up without a timeout finds it there.
Signalled ==
  /\ \A s \in Segments : \A q \in waiters[s] : seg[q] = s /\ pc[q] \notin {"new", "create", "reopen"}
  /\ \A r \in Requests : srv[r] = "signal" => data[srvSeg[r]] = "whole"
  /\ \A r \in Requests : pc[r] \in {"awake", "reply"} /\ ~unsignalled[r] => data[seg[r]] = "whole"

SyncInv == Types /\ Signalled /\ WholeIfSignalled

\* All that a step may do to handler or server r, so that these facts last.
Calm(r) ==
  /\ seg'[r] = seg[r] \/ pc[r] \in {"create", "reopen"}
  /\ pc'[r] \in {"new", "create", "reopen"} => pc[r] \in {"new", "create", "reopen"}
  /\ unsignalled[r] => unsignalled'[r]
  /\ pc'[r] \in {"awake", "reply"} /\ ~unsignalled'[r] =>
       pc[r] \in {"awake", "reply"} \/ (pc[r] = "waiting" /\ data[seg[r]] = "whole")
  /\ srv'[r] = "signal" =>
       (srv[r] = "signal" /\ srvSeg'[r] = srvSeg[r]) \/ data'[srvSeg'[r]] = "whole"
  /\ reply'[r] \in {"empty", "partial"} => reply'[r] = reply[r] \/ unsignalled[r]

\* A step that is calm for everybody keeps the invariant, if it lets wait only those who have
\* the segment and takes nothing from an answer that is whole.
LEMMA SyncKept ==
  ASSUME SyncInv, Types',
         \A r \in Requests : Calm(r),
         \A s \in Segments : data[s] = "whole" => data'[s] = "whole",
         \A s \in Segments : \A q \in waiters'[s] :
           q \in waiters[s] \/ (seg[q] = s /\ pc[q] \notin {"new", "create", "reopen"})
  PROVE  SyncInv'
<1>1. \A s \in Segments : \A q \in waiters'[s] : seg'[q] = s /\ pc'[q] \notin {"new", "create", "reopen"}
  <2>1. ASSUME NEW s \in Segments, NEW q \in waiters'[s]
        PROVE  seg'[q] = s /\ pc'[q] \notin {"new", "create", "reopen"}
    <3>1. q \in Requests
      BY <2>1 DEF Types
    <3>2. seg[q] = s /\ pc[q] \notin {"new", "create", "reopen"}
      BY <2>1 DEF SyncInv, Signalled
    <3>3. Calm(q)
      BY <3>1
    <3>. QED  BY <3>2, <3>3 DEF Calm
  <2>. QED  BY <2>1
<1>2. ASSUME NEW r \in Requests, srv'[r] = "signal" PROVE data'[srvSeg'[r]] = "whole"
  <2>1. CASE srv[r] = "signal" /\ srvSeg'[r] = srvSeg[r]
    <3>1. srvSeg[r] \in Segments
      BY <2>1, SegmentNamed DEF SyncInv, Serving
    <3>2. data[srvSeg[r]] = "whole"
      BY <2>1 DEF SyncInv, Signalled
    <3>. QED  BY <2>1, <3>1, <3>2
  <2>2. Calm(r)
    OBVIOUS
  <2>. QED  BY <1>2, <2>1, <2>2 DEF Calm
<1>3. ASSUME NEW r \in Requests, pc'[r] \in {"awake", "reply"}, ~unsignalled'[r]
      PROVE  data'[seg'[r]] = "whole"
  <2>1. Calm(r)
    OBVIOUS
  <2>2. pc[r] \in {"waiting", "awake", "reply"} /\ data[seg[r]] = "whole" /\ seg'[r] = seg[r]
    BY <1>3, <2>1 DEF Calm, SyncInv, Signalled
  <2>3. seg[r] \in Segments
    BY <2>2, SegmentNamed DEF SyncInv, Busy
  <2>. QED  BY <2>2, <2>3
<1>4. WholeIfSignalled'
  <2>1. ASSUME NEW r \in Requests, reply'[r] \in {"empty", "partial"} PROVE unsignalled'[r]
    <3>1. Calm(r)
      OBVIOUS
    <3>. QED  BY <2>1, <3>1 DEF Calm, SyncInv, WholeIfSignalled
  <2>. QED  BY <2>1 DEF WholeIfSignalled
<1>. QED  BY <1>1, <1>2, <1>3, <1>4 DEF SyncInv, Signalled

LEMMA ProxySync == ASSUME SyncInv, NEW r \in Requests, Proxy(r) PROVE SyncInv'
<1>1. Types'
  BY ProxyTypes DEF SyncInv
<1>2. Types /\ (pc[r] \in Busy => seg[r] \in Segments)
  BY SegmentNamed DEF SyncInv
<1>3. ASSUME NEW q \in Requests \ {r} PROVE Calm(q)
  <2>1. /\ pc'[q] = pc[q] /\ seg'[q] = seg[q] /\ (unsignalled'[q] <=> unsignalled[q])
        /\ reply'[q] = reply[q] /\ srvSeg'[q] = srvSeg[q] /\ srv'[q] = srv[q]
    BY <1>2, ProxyAlone DEF Types
  <2>. QED  BY <2>1 DEF Calm
<1>4. /\ data' = data /\ srvSeg' = srvSeg
      /\ srv'[r] = "signal" => srv[r] = "signal"
  BY <1>2, ProxyAlone DEF Types
<1> USE DEF Goto, Exit, Proxy, Begin, GoOn, memory
<1>5. /\ seg'[r] = seg[r] \/ pc[r] \in {"create", "reopen"}
      /\ pc'[r] \in {"new", "create", "reopen"} => pc[r] \in {"new", "create", "reopen"}
      /\ unsignalled[r] => unsignalled'[r]
      /\ pc'[r] \in {"awake", "reply"} => unsignalled'[r] \/ pc[r] \in {"awake", "reply"}
  <2>1. CASE Ignore(r) \/ ServeFile(r) \/ ServeFileBreaks(r) \/ NoFile(r) \/ CreateSegment(r) \/ SegmentExists(r)
             \/ ReopenSegment(r) \/ ReopenFails(r)
    BY <1>2, <2>1 DEF Ignore, ServeFile, ServeFileBreaks, NoFile, CreateSegment, SegmentExists, ReopenSegment,
       ReopenFails, Types
  <2>2. CASE Attach(r) \/ AttachFails(r) \/ InitSync(r) \/ Lock(r) \/ HostUnknown(r)
             \/ ConnectFails(r) \/ Connect(r) \/ SendKey(r) \/ SendKeyBreaks(r) \/ ReplyBreaks(r)
    BY <1>2, <2>2 DEF Attach, AttachFails, InitSync, Lock, HostUnknown, ConnectFails, Connect,
       SendKey, SendKeyBreaks, ReplyBreaks, Types
  <2>3. CASE Wait(r) \/ WaitEnds(r) \/ WaitReturns(r) \/ Reply(r) \/ Unlock(r) \/ Remove(r)
    BY <1>2, <2>3 DEF Wait, WaitEnds, WaitReturns, Reply, Unlock, Remove, Types
  <2>. QED  BY <2>1, <2>2, <2>3
<1>6. reply'[r] \in {"empty", "partial"} => reply'[r] = reply[r] \/ unsignalled[r]
  <2>1. CASE Reply(r)
    BY <1>2, <2>1 DEF Reply, SyncInv, Signalled, Types
  <2>2. CASE ServeFile(r)
    BY <1>2, <2>2 DEF ServeFile, Types
  <2>3. CASE reply' = reply
    BY <2>3
  <2>4. reply' = reply \/ Reply(r) \/ ServeFile(r)
    BY DEF Ignore, ServeFileBreaks, SendKeyBreaks, ReplyBreaks, NoFile, CreateSegment, SegmentExists, ReopenSegment, ReopenFails, Attach,
       AttachFails, InitSync, Lock, HostUnknown, ConnectFails, Connect, SendKey, Wait, WaitEnds,
       WaitReturns, Unlock, Remove
  <2>. QED  BY <2>1, <2>2, <2>3, <2>4
<1>7. Calm(r)
  BY <1>4, <1>5, <1>6 DEF Calm
<1>8. ASSUME NEW s \in Segments, NEW q \in waiters'[s]
      PROVE  q \in waiters[s] \/ (seg[q] = s /\ pc[q] \notin {"new", "create", "reopen"})
  <2>1. CASE Wait(r)
    BY <1>2, <1>8, <2>1 DEF Wait, Types, Busy
  <2>2. CASE InitSync(r) \/ WaitEnds(r)
    BY <1>2, <1>8, <2>2 DEF InitSync, WaitEnds, Types
  <2>3. CASE waiters' = waiters
    BY <1>8, <2>3
  <2>4. waiters' = waiters \/ Wait(r) \/ InitSync(r) \/ WaitEnds(r)
    BY DEF Ignore, ServeFile, ServeFileBreaks, SendKeyBreaks, ReplyBreaks, NoFile, CreateSegment, SegmentExists, ReopenSegment, ReopenFails,
       Attach, AttachFails, Lock, HostUnknown, ConnectFails, Connect, SendKey,
       WaitReturns, Reply, Unlock, Remove
  <2>. QED  BY <2>1, <2>2, <2>3, <2>4
<1>. QED  BY <1>1, <1>3, <1>4, <1>7, <1>8, SyncKept

LEMMA ServerSync == ASSUME SyncInv, NEW r \in Requests, Server(r) PROVE SyncInv'
<1>1. Types' /\ Types
  BY ServerTypes DEF SyncInv
<1>2. /\ UNCHANGED <<seg, unsignalled, reply>>
      /\ \A q \in Requests \ {r} : srv'[q] = srv[q] /\ srvSeg'[q] = srvSeg[q]
      /\ \A s \in Segments : data[s] = "whole" => data'[s] = "whole"
      /\ \A s \in Segments : waiters'[s] \subseteq waiters[s]
  BY <1>1, ServerAlone
<1>3. srv'[r] = "signal" => data'[srvSeg'[r]] = "whole"
  <2>1. CASE CopyEnds(r)
    <3>1. srvSeg[r] \in Segments
      BY <1>1, <2>1, SegmentNamed DEF CopyEnds, ServerGoto, Serving
    <3>. QED  BY <1>1, <2>1, <3>1 DEF CopyEnds, Types
  <2>2. CASE ~CopyEnds(r)
    BY <1>1, <2>2 DEF Server, ServerGoto, WriteToClosed, LookUp, LookUpFails, ServerAttach,
       ServerAttachFails, CopyBegins, SignalProxy, Types
  <2>. QED  BY <2>1, <2>2
<1>4. ASSUME NEW q \in Requests
      PROVE  pc'[q] = pc[q] \/ (pc'[q] = "awake" /\ pc[q] = "waiting" /\ data[seg[q]] = "whole")
  <2>1. CASE pc' = pc
    BY <2>1
  <2>2. CASE pc' # pc
    <3>1. PICK p \in Requests : /\ SignalProxy(r) /\ p \in waiters[srvSeg[r]]
                               /\ pc[p] = "waiting" /\ pc' = [pc EXCEPT ![p] = "awake"]
      BY <1>1, <2>2, ServerAlone
    <3>2. srvSeg[r] \in Segments /\ srv[r] = "signal"
      BY <1>1, <3>1, SegmentNamed DEF SignalProxy, ServerGoto, Serving
    <3>3. seg[p] = srvSeg[r] /\ data[seg[p]] = "whole"
      BY <3>1, <3>2 DEF SyncInv, Signalled
    <3>. QED  BY <1>1, <3>1, <3>3 DEF Types
  <2>. QED  BY <2>1, <2>2
<1>5. ASSUME NEW q \in Requests PROVE Calm(q)
  BY <1>2, <1>3, <1>4, <1>5 DEF Calm
<1>. QED  BY <1>1, <1>2, <1>5, SyncKept

\* A handler that was signalled sends the whole answer (RequestHandlers.h:140-148).
THEOREM SignalledIsWhole == Spec => []WholeIfSignalled
<1>1. Init => SyncInv
  <2>1. Init => Signalled /\ WholeIfSignalled
    BY DEF Init, Signalled, WholeIfSignalled
  <2>. QED  BY <2>1, InitTypes DEF SyncInv
<1>2. SyncInv /\ [Next]_vars => SyncInv'
  <2> SUFFICES ASSUME SyncInv, [Next]_vars PROVE SyncInv'
    OBVIOUS
  <2>1. Types' /\ Types
    BY NextTypes DEF SyncInv
  <2>2. CASE UNCHANGED vars
    BY <2>1, <2>2 DEF vars, proxyVars, serverVars, memory, SyncInv, Signalled, WholeIfSignalled
  <2>3. CASE Restart
    <3>1. \A r \in Requests : pc'[r] = pc[r] \/ pc'[r] = "killed"
      BY <2>3 DEF Restart
    <3>2. UNCHANGED <<seg, unsignalled, reply, srv, srvSeg, waiters, data>>
      BY <2>3 DEF Restart, serverVars, memory
    <3>3. \A r \in Requests : Calm(r)
      BY <3>1, <3>2 DEF Calm
    <3>. QED  BY <2>1, <3>2, <3>3, SyncKept
  <2>4. CASE \E r \in Requests : Proxy(r) \/ Server(r)
    BY <2>4, ProxySync, ServerSync
  <2>. QED  BY <2>2, <2>3, <2>4 DEF Next
<1>3. SyncInv => WholeIfSignalled
  BY DEF SyncInv
<1>. QED  BY <1>1, <1>2, <1>3, PTL DEF Spec

-----------------------------------------------------------------------------
(* Which key names which segment.                                          *)

Early == {"new", "create", "reopen", "attach", "init", "lock", "connect"}

\* A segment is named by one key, that of whichever handler uses it; and nothing was sent
\* before the server was asked.
Named ==
  /\ \A k, l \in Keys : segOf[k] = segOf[l] /\ segOf[k] # None => k = l
  /\ \A k \in Keys, r \in Requests : segOf[k] = seg[r] /\ segOf[k] # None => k = KeyOf(r)
  /\ \A q, r \in Requests : seg[q] = seg[r] /\ seg[r] # None => KeyOf(q) = KeyOf(r)
  /\ \A r \in Requests : pc[r] \in Early => reply[r] = "none"

NameInv == Types /\ Named /\ LeakNeedsFailure

\* What a step may do to handler r and still leave it the witness of its segment.
Tidy(r) ==
  /\ pc'[r] \in Early => pc[r] \in Early /\ reply'[r] = reply[r]
  /\ pc'[r] = "done" /\ seg[r] # None =>
       reply'[r] = "none" \/ (pc[r] = "done" /\ reply'[r] = reply[r])

\* A step that makes and removes no segment keeps these facts.
LEMMA NameKept ==
  ASSUME NameInv, Types', UNCHANGED <<seg, segOf, ftok>>, \A r \in Requests : Tidy(r)
  PROVE  NameInv'
<1>1. Named'
  <2>1. \A r \in Requests : pc'[r] \in Early => reply'[r] = "none"
    <3>1. ASSUME NEW r \in Requests, pc'[r] \in Early PROVE reply'[r] = "none"
      <4>1. Tidy(r)
        OBVIOUS
      <4>. QED  BY <3>1, <4>1 DEF Tidy, NameInv, Named
    <3>. QED  BY <3>1
  <2>. QED  BY <2>1 DEF NameInv, Named, KeyOf
<1>2. LeakNeedsFailure'
  <2>1. ASSUME NEW k \in Keys, segOf'[k] # None
        PROVE  \E r \in Requests : seg'[r] = segOf'[k] /\ (pc'[r] = "done" => reply'[r] = "none")
    <3>1. PICK r \in Requests : seg[r] = segOf[k] /\ (pc[r] = "done" => reply[r] = "none")
      BY <2>1 DEF NameInv, LeakNeedsFailure
    <3>2. Tidy(r)
      OBVIOUS
    <3>. QED  BY <2>1, <3>1, <3>2 DEF Tidy
  <2>. QED  BY <2>1 DEF LeakNeedsFailure
<1>. QED  BY <1>1, <1>2 DEF NameInv

LEMMA ProxyName == ASSUME NameInv, NEW r \in Requests, Proxy(r) PROVE NameInv'
<1>1. Types' /\ Types /\ KeyOf(r) \in Keys /\ made \in Nat
  BY ProxyTypes, KeyIsKey DEF NameInv, Types
<1>2. ASSUME NEW q \in Requests \ {r} PROVE Tidy(q)
  BY <1>1, ProxyAlone DEF Tidy
<1>3. pc[r] \in Early => reply[r] = "none"
  BY DEF NameInv, Named
<1> USE DEF Goto, Exit, Proxy, Begin, GoOn
<1>4. CASE CreateSegment(r)
  <2>1. /\ pc[r] = "create" /\ pc' = [pc EXCEPT ![r] = "attach"] /\ reply' = reply /\ ftok' = ftok
        /\ seg' = [seg EXCEPT ![r] = made + 1] /\ segOf' = [segOf EXCEPT ![KeyOf(r)] = made + 1]
    BY <1>4 DEF CreateSegment
  <2>2. /\ \A q \in Requests : seg'[q] = IF q = r THEN made + 1 ELSE seg[q]
        /\ \A q \in Requests : seg[q] \in 0 .. made
    BY <1>1, <2>1 DEF Types
  <2>3. /\ \A k \in Keys : segOf'[k] = IF k = KeyOf(r) THEN made + 1 ELSE segOf[k]
        /\ \A k \in Keys : segOf[k] \in 0 .. made
    BY <1>1, <2>1 DEF Types
  <2>4. \A n \in 0 .. made : n # made + 1
    BY <1>1
  <2>5. \A q \in Requests : (KeyOf(q)' = KeyOf(q)) /\ pc'[q] = IF q = r THEN "attach" ELSE pc[q]
    BY <1>1, <2>1 DEF KeyOf, Types
  <2>6. Named'
    BY <2>1, <2>2, <2>3, <2>4, <2>5, <1>3 DEF NameInv, Named, Early
  <2>7. LeakNeedsFailure'
    <3>1. ASSUME NEW k \in Keys, segOf'[k] # None
          PROVE  \E q \in Requests : seg'[q] = segOf'[k] /\ (pc'[q] = "done" => reply'[q] = "none")
      <4>1. CASE k = KeyOf(r)
        BY <2>2, <2>3, <2>5, <4>1
      <4>2. CASE k # KeyOf(r)
        <5>1. PICK q \in Requests : seg[q] = segOf[k] /\ (pc[q] = "done" => reply[q] = "none")
          BY <2>3, <3>1, <4>2 DEF NameInv, LeakNeedsFailure
        <5>2. q # r
          BY <1>1, <2>1, <2>3, <3>1, <4>2, <5>1 DEF Types
        <5>. QED  BY <2>1, <2>2, <2>3, <2>5, <4>2, <5>1, <5>2
      <4>. QED  BY <4>1, <4>2
    <3>. QED  BY <3>1 DEF LeakNeedsFailure
  <2>. QED  BY <1>1, <2>6, <2>7 DEF NameInv
<1>5. CASE ReopenSegment(r)
  <2>1. /\ pc[r] = "reopen" /\ pc' = [pc EXCEPT ![r] = "attach"] /\ UNCHANGED <<reply, ftok, segOf>>
        /\ seg' = [seg EXCEPT ![r] = segOf[KeyOf(r)]]
    BY <1>5 DEF ReopenSegment
  <2>2. /\ \A q \in Requests : seg'[q] = IF q = r THEN segOf[KeyOf(r)] ELSE seg[q]
        /\ \A q \in Requests : pc'[q] = IF q = r THEN "attach" ELSE pc[q]
        /\ \A q \in Requests : KeyOf(q)' = KeyOf(q)
    BY <1>1, <2>1 DEF KeyOf, Types
  <2>3. Named'
    BY <1>1, <1>3, <2>1, <2>2 DEF NameInv, Named, Early
  <2>4. LeakNeedsFailure'
    <3>1. ASSUME NEW k \in Keys, segOf'[k] # None
          PROVE  \E q \in Requests : seg'[q] = segOf'[k] /\ (pc'[q] = "done" => reply'[q] = "none")
      <4>1. PICK q \in Requests : seg[q] = segOf[k] /\ (pc[q] = "done" => reply[q] = "none")
        BY <2>1, <3>1 DEF NameInv, LeakNeedsFailure
      <4>2. q # r
        BY <1>1, <2>1, <3>1, <4>1 DEF Types
      <4>. QED  BY <2>1, <2>2, <4>1, <4>2
    <3>. QED  BY <3>1 DEF LeakNeedsFailure
  <2>. QED  BY <1>1, <2>3, <2>4 DEF NameInv
<1>6. CASE Remove(r)
  <2>1. /\ pc' = [pc EXCEPT ![r] = "done"] /\ UNCHANGED <<seg, reply, ftok>>
        /\ \A k \in Keys : segOf'[k] = IF segOf[k] = seg[r] THEN None ELSE segOf[k]
    BY <1>6 DEF Remove
  <2>2. \A q \in Requests : (KeyOf(q)' = KeyOf(q)) /\ pc'[q] = IF q = r THEN "done" ELSE pc[q]
    BY <1>1, <2>1 DEF KeyOf, Types
  <2>3. Named'
    BY <2>1, <2>2 DEF NameInv, Named, Early
  <2>4. LeakNeedsFailure'
    <3>1. ASSUME NEW k \in Keys, segOf'[k] # None
          PROVE  \E q \in Requests : seg'[q] = segOf'[k] /\ (pc'[q] = "done" => reply'[q] = "none")
      <4>1. PICK q \in Requests : seg[q] = segOf[k] /\ (pc[q] = "done" => reply[q] = "none")
        BY <2>1, <3>1 DEF NameInv, LeakNeedsFailure
      <4>. QED  BY <2>1, <2>2, <3>1, <4>1
    <3>. QED  BY <3>1 DEF LeakNeedsFailure
  <2>. QED  BY <1>1, <2>3, <2>4 DEF NameInv
<1>7. CASE Ignore(r) \/ ServeFile(r) \/ ServeFileBreaks(r) \/ NoFile(r) \/ SegmentExists(r) \/ ReopenFails(r)
  <2>1. Tidy(r)
    BY <1>1, <1>3, <1>7 DEF Ignore, ServeFile, ServeFileBreaks, NoFile, SegmentExists, ReopenFails, Tidy, Types, Early
  <2>2. UNCHANGED <<seg, segOf, ftok>>
    BY <1>7 DEF Ignore, ServeFile, ServeFileBreaks, NoFile, SegmentExists, ReopenFails
  <2>. QED  BY <1>1, <1>2, <2>1, <2>2, NameKept
<1>8. CASE Attach(r) \/ AttachFails(r) \/ InitSync(r) \/ Lock(r) \/ HostUnknown(r)
           \/ ConnectFails(r) \/ Connect(r) \/ SendKey(r) \/ SendKeyBreaks(r) \/ ReplyBreaks(r)
  <2>1. Tidy(r)
    BY <1>1, <1>3, <1>8 DEF Attach, AttachFails, InitSync, Lock, HostUnknown, ConnectFails, Connect,
       SendKey, SendKeyBreaks, ReplyBreaks, Tidy, Types, Early
  <2>2. UNCHANGED <<seg, segOf, ftok>>
    BY <1>8 DEF Attach, AttachFails, InitSync, Lock, HostUnknown, ConnectFails, Connect, SendKey,
       SendKeyBreaks, ReplyBreaks
  <2>. QED  BY <1>1, <1>2, <2>1, <2>2, NameKept
<1>9. CASE Wait(r) \/ WaitEnds(r) \/ WaitReturns(r) \/ Reply(r) \/ Unlock(r)
  <2>1. Tidy(r)
    BY <1>1, <1>9 DEF Wait, WaitEnds, WaitReturns, Reply, Unlock, Tidy, Types, Early
  <2>2. UNCHANGED <<seg, segOf, ftok>>
    BY <1>9 DEF Wait, WaitEnds, WaitReturns, Reply, Unlock
  <2>. QED  BY <1>1, <1>2, <2>1, <2>2, NameKept
<1>. QED  BY <1>4, <1>5, <1>6, <1>7, <1>8, <1>9

LEMMA NextName == NameInv /\ [Next]_vars => NameInv'
<1> SUFFICES ASSUME NameInv, [Next]_vars PROVE NameInv'
  OBVIOUS
<1>1. Types' /\ Types
  BY NextTypes DEF NameInv
<1>2. CASE UNCHANGED vars
  BY <1>1, <1>2 DEF vars, proxyVars, memory, NameInv, Named, LeakNeedsFailure, KeyOf
<1>3. CASE Restart
  <2>1. \A r \in Requests : Tidy(r)
    BY <1>3 DEF Restart, Tidy, Early
  <2>. QED  BY <1>1, <1>3, <2>1, NameKept DEF Restart
<1>4. ASSUME NEW r \in Requests, Server(r) PROVE NameInv'
  <2>1. UNCHANGED <<seg, reply, segOf, ftok>>
    BY <1>1, <1>4, ServerAlone
  <2>2. \A q \in Requests : pc'[q] = pc[q] \/ pc'[q] = "awake"
    BY <1>1, <1>4, ServerAlone DEF Types
  <2>3. \A q \in Requests : Tidy(q)
    BY <2>1, <2>2 DEF Tidy, Early
  <2>. QED  BY <1>1, <2>1, <2>3, NameKept
<1>. QED  BY <1>2, <1>3, <1>4, ProxyName DEF Next

LEMMA AlwaysNamed == Spec => []NameInv
<1>1. Init => NameInv
  <2>1. Init => Named /\ LeakNeedsFailure
    BY DEF Init, Named, LeakNeedsFailure
  <2>. QED  BY <2>1, InitTypes DEF NameInv
<1>. QED  BY <1>1, NextName, PTL DEF Spec

\* Only failed connects and ended processes leave segments behind
\* (RequestHandlers.h:104, 114-123, 151-159).
THEOREM LeaksNeedFailures == Spec => []LeakNeedsFailure
<1>1. NameInv => LeakNeedsFailure
  BY DEF NameInv
<1>. QED  BY <1>1, AlwaysNamed, PTL

-----------------------------------------------------------------------------
(* With a key for each descriptor, handlers do not meet in a segment.      *)

Active(r) == pc[r] \notin {"new", "done", "killed"}

\* Handlers at work have different descriptors, or the model has noted that they share one;
\* so where descriptors have different keys and a handler's is its own, nobody removes the
\* segment that it found or made.
Apart ==
  /\ \A q, r \in Requests :
       Active(q) /\ Active(r) /\ Fd[q] = Fd[r] => q = r \/ Fd[r] \in shared
  /\ SegmentStays

ApartInv == NameInv /\ Apart

LEMMA OwnKey ==
  ASSUME Types, KeysDiffer, NEW q \in Requests, NEW r \in Requests, KeyOf(q) = KeyOf(r)
  PROVE  Fd[q] = Fd[r]
  BY SharedMemoryAssumption DEF SharedMemoryAssumption, Types, KeysDiffer, KeyOf

\* A step that makes and removes no segment and brings nobody to work keeps handlers apart.
LEMMA ApartKept ==
  ASSUME ApartInv, UNCHANGED <<seg, segOf, ftok>>, shared \subseteq shared',
         \A r \in Requests : /\ Active(r)' => Active(r)
                             /\ pc'[r] = "reopen" => pc[r] = "reopen" \/ segOf[KeyOf(r)] # None
                             /\ pc'[r] \in Busy => pc[r] \in Busy
  PROVE  Apart'
<1>1. (KeysDiffer' <=> KeysDiffer) /\ \A r \in Requests : KeyOf(r)' = KeyOf(r)
  BY DEF KeysDiffer, KeyOf
<1>. QED  BY <1>1 DEF ApartInv, Apart, SegmentStays

LEMMA ProxyApart == ASSUME ApartInv, NEW r \in Requests, Proxy(r) PROVE Apart'
<1>1. Types /\ KeyOf(r) \in Keys
  BY KeyIsKey DEF ApartInv, NameInv
<1>2. /\ \A q \in Requests \ {r} : pc'[q] = pc[q] /\ seg'[q] = seg[q]
      /\ (KeysDiffer' <=> KeysDiffer) /\ \A q \in Requests : KeyOf(q)' = KeyOf(q)
  BY <1>1, ProxyAlone DEF Proxy, Begin, GoOn, KeysDiffer, KeyOf
<1>3. Active(r) => \A q \in Requests : Active(q) /\ Fd[q] = Fd[r] => q = r \/ Fd[q] \in shared
  BY DEF ApartInv, Apart
<1> USE DEF Goto, Exit, Proxy
<1>4. CASE Begin(r)
  <2>1. /\ pc[r] = "new" /\ pc'[r] \in {"done", "file", "create"} /\ UNCHANGED <<seg, segOf>>
    BY <1>1, <1>4 DEF Begin, Ignore, ServeFile, ServeFileBreaks, NoFile, Types
  <2>2. shared' = (IF FdIsFree(r) THEN shared ELSE shared \cup {Fd[r]})
    BY <1>4 DEF Begin, NoteSharing
  <2>3. ASSUME NEW q \in Requests \ {r}, Active(q), Fd[q] = Fd[r] PROVE Fd[r] \in shared'
    BY <2>2, <2>3 DEF FdIsFree, Active
  <2>4. \A p, q \in Requests :
          Active(p)' /\ Active(q)' /\ Fd[p] = Fd[q] => p = q \/ Fd[q] \in shared'
    BY <1>2, <2>2, <2>3 DEF ApartInv, Apart, Active
  <2>5. SegmentStays'
    BY <1>2, <2>1, <2>2 DEF ApartInv, Apart, SegmentStays, Busy
  <2>. QED  BY <2>4, <2>5 DEF Apart
<1>0. pc[r] # "new" => shared' = shared
  BY DEF Begin, GoOn, Ignore, ServeFile, ServeFileBreaks, NoFile
<1> USE DEF Begin, GoOn
<1>5. CASE CreateSegment(r)
  <2>1. /\ pc[r] = "create" /\ pc'[r] = "attach" /\ seg'[r] = made + 1
        /\ \A k \in Keys : segOf'[k] = IF k = KeyOf(r) THEN made + 1 ELSE segOf[k]
    BY <1>1, <1>5 DEF CreateSegment, Types
  <2>2. ASSUME KeysDiffer, NEW q \in Requests \ {r}, Active(q), Fd[q] \notin shared
        PROVE  KeyOf(q) \in Keys /\ segOf'[KeyOf(q)] = segOf[KeyOf(q)]
    <3>1. KeyOf(q) # KeyOf(r)
      BY <1>1, <1>3, <2>1, <2>2, OwnKey DEF Active
    <3>. QED  BY <1>1, <2>1, <3>1, KeyIsKey
  <2>3. \A q \in Requests : pc[q] \in Busy \/ pc[q] = "reopen" => Active(q)
    BY DEF Active, Busy
  <2>4. \A q \in Requests : Active(q)' => Active(q)
    BY <1>2, <2>1 DEF Active
  <2>5. shared' = shared
    BY <1>0, <2>1
  <2>. QED  BY <1>1, <1>2, <2>1, <2>2, <2>3, <2>4, <2>5 DEF ApartInv, Apart, SegmentStays
<1>6. CASE ReopenSegment(r)
  <2>1. /\ pc[r] = "reopen" /\ pc'[r] = "attach" /\ seg'[r] = segOf[KeyOf(r)] /\ segOf' = segOf
        /\ shared' = shared
    BY <1>0, <1>1, <1>6 DEF ReopenSegment, Types
  <2>2. \A q \in Requests : Active(q)' => Active(q)
    BY <1>2, <2>1 DEF Active
  <2>. QED  BY <1>2, <2>1, <2>2 DEF ApartInv, Apart, SegmentStays, Active
<1>7. CASE Remove(r)
  <2>1. /\ pc[r] = "remove" /\ pc'[r] = "done" /\ seg' = seg
        /\ \A k \in Keys : segOf'[k] = IF segOf[k] = seg[r] THEN None ELSE segOf[k]
    BY <1>1, <1>7 DEF Remove, Types
  <2>2. ASSUME KeysDiffer, NEW q \in Requests \ {r}, Active(q), Fd[q] \notin shared
        PROVE  segOf'[KeyOf(q)] = segOf[KeyOf(q)]
    <3>1. KeyOf(q) # KeyOf(r) /\ KeyOf(q) \in Keys
      BY <1>1, <1>3, <2>1, <2>2, OwnKey, KeyIsKey DEF Active
    <3>2. segOf[KeyOf(q)] = seg[r] => segOf[KeyOf(q)] = None
      BY <3>1 DEF ApartInv, NameInv, Named
    <3>. QED  BY <2>1, <3>1, <3>2
  <2>3. \A q \in Requests : pc[q] \in Busy \/ pc[q] = "reopen" => Active(q)
    BY DEF Active, Busy
  <2>4. \A q \in Requests : Active(q)' => Active(q) /\ q # r
    BY <1>2, <2>1 DEF Active
  <2>5. pc'[r] \notin Busy
    BY <2>1 DEF Busy
  <2>6. shared' = shared
    BY <1>0, <2>1
  <2>. QED  BY <1>2, <2>1, <2>2, <2>3, <2>4, <2>5, <2>6 DEF ApartInv, Apart, SegmentStays
<1>8. CASE SegmentExists(r) \/ ReopenFails(r) \/ Attach(r) \/ AttachFails(r)
  <2>1. /\ Active(r)
        /\ pc'[r] = "reopen" => pc[r] = "reopen" \/ segOf[KeyOf(r)] # None
        /\ pc'[r] \in Busy => pc[r] \in Busy
        /\ UNCHANGED <<seg, segOf, ftok, shared>>
    BY <1>0, <1>1, <1>8 DEF SegmentExists, ReopenFails, Attach, AttachFails, Types, Active, Busy
  <2>. QED  BY <1>2, <2>1, ApartKept DEF Active
<1>9. CASE \/ InitSync(r) \/ Lock(r) \/ HostUnknown(r) \/ ConnectFails(r) \/ Connect(r) \/ SendKey(r)
           \/ SendKeyBreaks(r) \/ ReplyBreaks(r)
           \/ Wait(r) \/ WaitEnds(r) \/ WaitReturns(r) \/ Reply(r) \/ Unlock(r)
  <2>1. /\ pc[r] \in Busy /\ pc'[r] \in Busy \cup {"done"}
        /\ UNCHANGED <<seg, segOf, ftok, shared>>
    BY <1>0, <1>1, <1>9 DEF InitSync, Lock, HostUnknown, ConnectFails, Connect, SendKey, SendKeyBreaks,
       ReplyBreaks, Wait, WaitEnds, WaitReturns, Reply, Unlock, Types, Busy
  <2>2. Active(r) /\ (pc'[r] \notin {"new", "killed", "create", "reopen"})
    BY <2>1 DEF Active, Busy
  <2>3. pc'[r] \in Busy => pc[r] \in Busy
    BY <2>1
  <2>. QED  BY <1>2, <2>1, <2>2, <2>3, ApartKept DEF Active
<1>. QED  BY <1>4, <1>5, <1>6, <1>7, <1>8, <1>9

LEMMA AlwaysApart == Spec => []ApartInv
<1>1. Init => Apart
  BY DEF Init, Apart, SegmentStays, Active, Busy
<1>2. ApartInv /\ NameInv' /\ [Next]_vars => Apart'
  <2> SUFFICES ASSUME ApartInv, [Next]_vars PROVE Apart'
    OBVIOUS
  <2>1. Types
    BY DEF ApartInv, NameInv
  <2>2. CASE UNCHANGED vars
    BY <2>2 DEF vars, proxyVars, serverVars, memory, ApartInv, Apart, SegmentStays, Active, KeyOf, KeysDiffer
  <2>3. CASE Restart
    <3>1. \A q \in Requests : pc'[q] = pc[q] \/ pc'[q] = "killed"
      BY <2>3 DEF Restart
    <3>. QED  BY <2>3, <3>1, ApartKept DEF Restart, Active, Busy
  <2>4. ASSUME NEW r \in Requests, Server(r) PROVE Apart'
    <3>1. UNCHANGED <<seg, segOf, ftok, shared>>
      BY <2>1, <2>4, ServerAlone DEF Server
    <3>2. \A q \in Requests : pc'[q] = pc[q] \/ (pc[q] = "waiting" /\ pc'[q] = "awake")
      BY <2>1, <2>4, ServerAlone DEF Types
    <3>. QED  BY <3>1, <3>2, ApartKept DEF Active, Busy
  <2>5. ASSUME NEW r \in Requests, Proxy(r) PROVE Apart'
    BY <2>5, ProxyApart
  <2>. QED  BY <2>2, <2>3, <2>4, <2>5 DEF Next
<1>. QED  BY <1>1, <1>2, AlwaysNamed, PTL DEF Spec, ApartInv

\* With a key for each descriptor, the segment of a handler whose descriptor was given to no
\* other stays until it removes it, whatever the server does and whatever an earlier life of
\* the proxy left behind, so that neither exit(1) for a segment is reached
\* (RequestHandlers.h:58-72, 148-159).
THEOREM NeverTakenAway == Spec => []SegmentStays
<1>1. ApartInv => SegmentStays
  BY DEF ApartInv, Apart
<1>. QED  BY <1>1, AlwaysApart, PTL

\* With a key for each descriptor, two handlers are in the critical section of one segment
\* only if both were given one descriptor (RequestHandlers.h:74-150).
THEOREM OneHolderAlways == Spec => []OneHolder
<1>1. ASSUME ApartInv PROVE OneHolder
  <2>1. ASSUME KeysDiffer, NEW q \in Requests, NEW r \in Requests, Holds(q), Holds(r), seg[q] = seg[r]
        PROVE  q = r \/ (Fd[q] = Fd[r] /\ Fd[r] \in shared)
    <3>1. Types /\ pc[q] \in Busy /\ pc[r] \in Busy /\ Active(q) /\ Active(r)
      BY <1>1, <2>1 DEF Holds, Busy, Active, ApartInv, NameInv
    <3>2. KeyOf(q) = KeyOf(r)
      BY <1>1, <2>1, <3>1 DEF ApartInv, NameInv, Named, Types
    <3>3. Fd[q] = Fd[r]
      BY <2>1, <3>1, <3>2, OwnKey
    <3>. QED  BY <1>1, <3>1, <3>3 DEF ApartInv, Apart
  <2>. QED  BY <2>1 DEF OneHolder
<1>. QED  BY <1>1, AlwaysApart, PTL
=============================================================================
