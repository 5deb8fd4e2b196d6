------------------------ MODULE StreamChannel_proofs ------------------------
(* Proofs about StreamChannel, for every set of senders, every capacity of  *)
(* the uplink and every bound on the client's messages.                     *)
EXTENDS StreamChannel, TLAPS

(* A reader that has left its loop left a dead connection behind: the       *)
(* deferred conn.Close runs before unregisterClient.                        *)
LeftIsDead == pc["reader"] \in {"unregister", "remove", "gone"} => ~alive

(* Only the reader itself takes the stream from the connector. *)
StreamTakenLast == ~stream => pc["reader"] \in {"remove", "gone"}

(* CloseConnector finds either a stream, and closes it, or none, and then   *)
(* the connection is dead already: neither case can be left out.            *)
IInv ==
  /\ DOMAIN pc = Threads
  /\ LeftIsDead
  /\ StreamTakenLast
  /\ ClosedMeansDisconnected

LEMMA ThreadFacts ==
  /\ {"reader", "node", "rtt", "session", "shutdown"} \subseteq Threads
  /\ Closers = {"session", "shutdown"}
  /\ \A s \in Senders : s \in Threads
  /\ \A s \in Senders :
       s \notin {"reader", "node", "rtt", "session", "shutdown"}
BY SCAssumption DEF Threads, Closers

LEMMA InitIInv == Init => IInv
<1> SUFFICES ASSUME Init PROVE IInv
  OBVIOUS
<1>1. /\ pc["reader"] = "read" /\ pc["session"] = "idle"
      /\ DOMAIN pc = Threads
  BY ThreadFacts DEF Init
<1> QED
  BY <1>1 DEF Init, IInv, LeftIsDead, StreamTakenLast, ClosedMeansDisconnected

(* A step of a goroutine other than the reader and Session.Close, which     *)
(* neither revives the connection nor touches the stream.                   *)
LEMMA OthersKeepIInv ==
  ASSUME IInv, NEW t \in Threads \ {"reader", "session"}, NEW next,
         Goto(t, next), stream' = stream, alive' => alive
  PROVE  IInv'
<1>1. /\ pc'["reader"] = pc["reader"] /\ pc'["session"] = pc["session"]
      /\ DOMAIN pc' = Threads
  BY ThreadFacts DEF IInv, Goto
<1> QED
  BY <1>1 DEF IInv, LeftIsDead, StreamTakenLast, ClosedMeansDisconnected

(* The same for a step of the reader inside its loop. *)
LEMMA ReadingKeepsIInv ==
  ASSUME IInv, pc["reader"] \in {"read", "push", "lock", "write"},
         NEW next \in {"read", "push", "lock", "write"},
         Goto("reader", next), stream' = stream, alive' => alive
  PROVE  IInv'
<1>1. /\ pc'["reader"] = next /\ pc'["session"] = pc["session"]
      /\ DOMAIN pc' = Threads
  BY ThreadFacts DEF IInv, Goto
<1> QED
  BY <1>1 DEF IInv, LeftIsDead, StreamTakenLast, ClosedMeansDisconnected

LEMMA AcquireKeepsIInv ==
  ASSUME IInv, NEW t \in Threads, Acquire(t)
  PROVE  IInv'
<1>1. pc[t] = "lock" /\ Goto(t, Section(t)) /\ UNCHANGED <<alive, stream>>
  BY DEF Acquire
<1>2. CASE t = "reader"
  <2>1. Section(t) = "write"
    BY <1>2 DEF Section, Closers
  <2> QED
    BY <1>1, <1>2, <2>1, ReadingKeepsIInv
<1>3. CASE t = "session"
  <2>1. /\ pc'["session"] = "close" /\ pc'["reader"] = pc["reader"]
        /\ DOMAIN pc' = Threads
    BY <1>1, <1>3, ThreadFacts DEF Section, Closers, Goto, IInv
  <2> QED
    BY <1>1, <2>1
    DEF IInv, LeftIsDead, StreamTakenLast, ClosedMeansDisconnected
<1>4. CASE t \notin {"reader", "session"}
  BY <1>1, <1>4, OthersKeepIInv
<1> QED
  BY <1>2, <1>3, <1>4

LEMMA ReaderKeepsIInv ==
  ASSUME IInv, ReaderStep \/ ReadFails
  PROVE  IInv'
<1>1. CASE ReadMessage
  <2> DEFINE next == CASE Head(inbox) = "append" -> "push"
                       [] Head(inbox) = "reply" -> "lock"
                       [] OTHER -> "read"
  <2>1. next \in {"read", "push", "lock", "write"}
    OBVIOUS
  <2>2. /\ Goto("reader", next) /\ pc["reader"] = "read"
        /\ UNCHANGED <<alive, stream>>
    BY <1>1 DEF ReadMessage
  <2> QED
    BY <2>1, <2>2, ReadingKeepsIInv
<1>2. CASE PushFrame
  BY <1>2, ReadingKeepsIInv DEF PushFrame
<1>3. CASE PushRefused
  BY <1>3, ReadingKeepsIInv DEF PushRefused
<1>4. CASE Reply
  BY <1>4, ReadingKeepsIInv DEF Reply, Written
<1>5. CASE ReadFails
  <2>1. /\ pc'["reader"] = "unregister" /\ pc'["session"] = pc["session"]
        /\ DOMAIN pc' = Threads /\ ~alive' /\ stream /\ stream'
    BY <1>5, ThreadFacts DEF ReadFails, Goto, IInv, StreamTakenLast
  <2> QED
    BY <2>1 DEF IInv, LeftIsDead, StreamTakenLast, ClosedMeansDisconnected
<1>6. CASE Unregister
  <2>1. /\ pc'["reader"] = "remove" /\ pc'["session"] = pc["session"]
        /\ DOMAIN pc' = Threads /\ ~alive /\ ~alive'
    BY <1>6, ThreadFacts DEF Unregister, Goto, IInv, LeftIsDead
  <2> QED
    BY <2>1 DEF IInv, LeftIsDead, StreamTakenLast, ClosedMeansDisconnected
<1>7. CASE Remove
  <2>1. /\ pc'["reader"] = "gone" /\ DOMAIN pc' = Threads
        /\ ~alive /\ ~alive'
    BY <1>7, ThreadFacts DEF Remove, IInv, LeftIsDead
  <2> QED
    BY <2>1 DEF IInv, LeftIsDead, StreamTakenLast, ClosedMeansDisconnected
<1> QED
  BY <1>1, <1>2, <1>3, <1>4, <1>5, <1>6, <1>7 DEF ReaderStep

LEMMA WritersKeepIInv ==
  ASSUME IInv,
         \/ NodeStep
         \/ \E s \in Senders : SenderStarts(s) \/ SenderWrites(s)
         \/ RttTicks \/ PingReturns \/ PingFails
         \/ ShutdownCloses \/ CloseConn("shutdown")
  PROVE  IInv'
<1>1. CASE NodeStep
  <2>1. /\ \E next : Goto("node", next)
        /\ stream' = stream /\ (alive' => alive)
    BY <1>1
    DEF NodeStep, NodeTake, NodeExit, NodeSend, NodeWrites, Sent, Written
  <2> QED
    BY <2>1, OthersKeepIInv, ThreadFacts
<1>2. ASSUME NEW s \in Senders, SenderStarts(s) \/ SenderWrites(s)
      PROVE  IInv'
  <2>1. /\ \E next : Goto(s, next)
        /\ stream' = stream /\ (alive' => alive)
    BY <1>2 DEF SenderStarts, SenderWrites, Written
  <2> QED
    BY <2>1, OthersKeepIInv, ThreadFacts
<1>3. CASE RttTicks \/ PingReturns \/ PingFails
  <2>1. /\ \E next : Goto("rtt", next)
        /\ stream' = stream /\ (alive' => alive)
    BY <1>3 DEF RttTicks, PingReturns, PingFails
  <2> QED
    BY <2>1, OthersKeepIInv, ThreadFacts
<1>4. CASE ShutdownCloses \/ CloseConn("shutdown")
  <2>1. /\ \E next : Goto("shutdown", next)
        /\ stream' = stream /\ (alive' => alive)
    BY <1>4 DEF ShutdownCloses, CloseConnector, CloseConn
  <2> QED
    BY <2>1, OthersKeepIInv, ThreadFacts
<1> QED
  BY <1>1, <1>2, <1>3, <1>4

LEMMA SessionKeepsIInv ==
  ASSUME IInv, SessionCloses \/ CloseConn("session")
  PROVE  IInv'
<1>1. CASE SessionCloses
  <2>1. /\ pc'["reader"] = pc["reader"] /\ DOMAIN pc' = Threads
        /\ UNCHANGED <<alive, stream>>
        /\ pc'["session"] = "done" => ~stream
    BY <1>1, ThreadFacts DEF SessionCloses, CloseConnector, Goto, IInv
  <2> QED
    BY <2>1 DEF IInv, LeftIsDead, StreamTakenLast, ClosedMeansDisconnected
<1>2. CASE CloseConn("session")
  <2>1. /\ pc'["reader"] = pc["reader"] /\ DOMAIN pc' = Threads
        /\ ~alive' /\ stream' = stream
    BY <1>2, ThreadFacts DEF CloseConn, Goto, IInv
  <2> QED
    BY <2>1 DEF IInv, LeftIsDead, StreamTakenLast, ClosedMeansDisconnected
<1> QED
  BY <1>1, <1>2

LEMMA NextIInv == IInv /\ [Next]_vars => IInv'
<1> SUFFICES ASSUME IInv, [Next]_vars PROVE IInv'
  OBVIOUS
<1>1. CASE \/ \E m \in Messages \ {"pong"} : ClientSends(m)
           \/ ClientPongs
           \/ UNCHANGED vars
  <2>1. UNCHANGED <<pc, alive, stream>>
    BY <1>1 DEF ClientSends, ClientPongs, vars
  <2> QED
    BY <2>1 DEF IInv, LeftIsDead, StreamTakenLast, ClosedMeansDisconnected
<1>2. CASE \E t \in Threads : Acquire(t)
  BY <1>2, AcquireKeepsIInv
<1>3. CASE ReaderStep \/ ReadFails
  BY <1>3, ReaderKeepsIInv
<1>4. CASE \/ NodeStep
           \/ \E s \in Senders : SenderStarts(s) \/ SenderWrites(s)
           \/ RttTicks \/ PingReturns \/ PingFails
           \/ ShutdownCloses \/ CloseConn("shutdown")
  BY <1>4, WritersKeepIInv
<1>5. CASE SessionCloses \/ CloseConn("session")
  BY <1>5, SessionKeepsIInv
<1> QED
  BY <1>1, <1>2, <1>3, <1>4, <1>5, ThreadFacts DEF Next

(* Whoever runs Session.Close, the Controller, a failed stage or the reader *)
(* of the connection, and however it races unregisterClient: when it has    *)
(* returned the client is disconnected (session.go:332-355, server.go:      *)
(* 234-239, 398-429, 549-560).                                              *)
THEOREM CloseDisconnects == Spec => []ClosedMeansDisconnected
<1>1. IInv => ClosedMeansDisconnected
  BY DEF IInv
<1> QED
  BY <1>1, InitIInv, NextIInv, PTL DEF Spec

-----------------------------------------------------------------------------
(* Types and mutual exclusion.  TypeOK needs two facts more to be           *)
(* inductive: there is never more than one pong on its way, and the VAD     *)
(* stage has a message left to send while it sends.                         *)

Inside == {"write", "ping", "close"}

(* writeMu is held by exactly the goroutine that is inside its section.     *)
LockInv ==
  /\ DOMAIN pc = Threads
  /\ \A t \in Threads : pc[t] \in PcsOf(t)
  /\ writeMu \in Threads \union {Nobody}
  /\ \A t \in Threads : pc[t] \in Inside <=> writeMu = t

Pongs == {i \in 1 .. Len(inbox) : inbox[i] = "pong"}

(* A pong is on its way exactly while the ping is answered and not noticed. *)
WireInv ==
  /\ inbox \in Seq(Messages) /\ Len(inbox) <= InboxSize
  /\ ping \in {"none", "out", "answered", "ponged"}
  /\ ping # "none" => pc["rtt"] = "ping"
  /\ ping = "answered" <=> Pongs # {}
  /\ \A i, j \in Pongs : i = j

RestInv ==
  /\ alive \in BOOLEAN /\ stream \in BOOLEAN /\ uplinkDone \in BOOLEAN
  /\ uplink \in 0 .. UplinkCapacity
  /\ toSend \in 0 .. SpeechMessages
  /\ pc["node"] \in {"send", "lock", "write"} => toSend # 0

TInv == LockInv /\ WireInv /\ RestInv

LEMMA TInvTypes == TInv => TypeOK
<1> SUFFICES ASSUME TInv PROVE TypeOK
  OBVIOUS
<1>1. ping = "answered" <=> \E i \in 1 .. Len(inbox) : inbox[i] = "pong"
  BY DEF TInv, WireInv, Pongs
<1> QED
  BY <1>1 DEF TInv, LockInv, WireInv, RestInv, Inside, TypeOK

LEMMA PcsFacts ==
  /\ PcsOf("reader") = {"read", "push", "lock", "write", "unregister",
                        "remove", "gone"}
  /\ PcsOf("node") = {"recv", "send", "lock", "write", "gone"}
  /\ PcsOf("rtt") = {"idle", "lock", "ping"}
  /\ \A t \in Closers : PcsOf(t) = {"idle", "lock", "close", "done"}
  /\ \A s \in Senders : PcsOf(s) = {"idle", "lock", "write"}
<1>1. \A t \in Closers : t \notin {"reader", "node", "rtt"}
  BY DEF Closers
<1>2. \A s \in Senders : s \notin {"reader", "node", "rtt"} /\ s \notin Closers
  BY ThreadFacts
<1> QED
  BY <1>1, <1>2 DEF PcsOf

LEMMA InitTInv == Init => TInv
<1> SUFFICES ASSUME Init PROVE TInv
  OBVIOUS
<1>1. /\ pc["reader"] = "read" /\ pc["node"] = "recv"
      /\ \A t \in Threads \ {"reader", "node"} : pc[t] = "idle"
      /\ DOMAIN pc = Threads
  BY ThreadFacts DEF Init
<1>2. \A t \in Threads : pc[t] \in PcsOf(t)
  BY <1>1, PcsFacts, ThreadFacts DEF Threads
<1>3. LockInv
  BY <1>1, <1>2, SCAssumption DEF Init, LockInv, Inside
<1>4. WireInv
  BY SCAssumption DEF Init, WireInv, Pongs
<1>5. RestInv
  <2>1. uplink \in 0 .. UplinkCapacity /\ toSend \in 0 .. SpeechMessages
    BY SCAssumption DEF Init, SpeechMessages
  <2> QED
    BY <1>1, <2>1 DEF Init, RestInv
<1> QED
  BY <1>3, <1>4, <1>5 DEF TInv

(* The three ways to move: outside the lock, into it, and out of it.        *)
LEMMA LockStays ==
  ASSUME LockInv, NEW t \in Threads, pc[t] \notin Inside,
         NEW next \in PcsOf(t) \ Inside, Goto(t, next), writeMu' = writeMu
  PROVE  LockInv'
BY DEF LockInv, Goto

LEMMA LockTaken ==
  ASSUME LockInv, NEW t \in Threads, Acquire(t)
  PROVE  LockInv' /\ pc'[t] = Section(t)
<1>1. Section(t) \in PcsOf(t) /\ Section(t) \in Inside
  <2>1. CASE t \in {"reader", "node", "rtt"} \union Closers
    BY <2>1, PcsFacts DEF Section, Inside, Closers
  <2>2. CASE t \in Senders
    BY <2>2, PcsFacts, ThreadFacts DEF Section, Inside
  <2> QED
    BY <2>1, <2>2 DEF Threads
<1>2. \A u \in Threads : pc[u] \notin Inside
  BY SCAssumption DEF LockInv, Acquire
<1>3. /\ pc' = [pc EXCEPT ![t] = Section(t)] /\ writeMu' = t
      /\ pc'[t] = Section(t)
  BY DEF Acquire, Goto, LockInv
<1> QED
  BY <1>1, <1>2, <1>3 DEF LockInv

LEMMA LockFreed ==
  ASSUME LockInv, NEW t \in Threads, pc[t] \in Inside,
         NEW next \in PcsOf(t) \ Inside, Goto(t, next), writeMu' = Nobody
  PROVE  LockInv'
<1>1. \A u \in Threads : u # t => pc[u] \notin Inside
  BY DEF LockInv
<1>2. /\ DOMAIN pc' = Threads
      /\ pc'[t] = next /\ \A u \in Threads : u # t => pc'[u] = pc[u]
  BY DEF LockInv, Goto
<1>3. Nobody \notin Threads
  BY SCAssumption
<1> QED
  BY <1>1, <1>2, <1>3 DEF LockInv

(* Session.Close by the reader itself, from outside the lock.               *)
LEMMA RemoveKeepsLock == LockInv /\ Remove => LockInv'
<1> SUFFICES ASSUME LockInv, Remove PROVE LockInv'
  OBVIOUS
<1>1. /\ pc' = [pc EXCEPT !["reader"] = "gone", !["session"] = "done"]
      /\ writeMu' = writeMu
      /\ pc["reader"] \notin Inside /\ pc["session"] \notin Inside
  BY DEF Remove, Inside
<1>2. /\ DOMAIN pc' = Threads
      /\ pc'["reader"] = "gone" /\ pc'["session"] = "done"
      /\ \A u \in Threads \ {"reader", "session"} : pc'[u] = pc[u]
  BY <1>1, ThreadFacts DEF LockInv
<1>3. "gone" \in PcsOf("reader") /\ "done" \in PcsOf("session")
  BY PcsFacts DEF Closers
<1>4. "gone" \notin Inside /\ "done" \notin Inside
  BY DEF Inside
<1> QED
  BY <1>1, <1>2, <1>3, <1>4 DEF LockInv

LEMMA NextLockInv == LockInv /\ RestInv /\ [Next]_vars => LockInv'
<1> SUFFICES ASSUME LockInv, RestInv, [Next]_vars PROVE LockInv'
  OBVIOUS
<1> USE PcsFacts, ThreadFacts
<1>1. CASE \/ \E m \in Messages \ {"pong"} : ClientSends(m)
           \/ ClientPongs
           \/ UNCHANGED vars
  BY <1>1 DEF ClientSends, ClientPongs, vars, LockInv
<1>2. CASE \E t \in Threads : Acquire(t)
  BY <1>2, LockTaken
<1>3. CASE ReaderStep \/ ReadFails
  <2>1. CASE ReadMessage
    <3>1. \E next \in {"push", "lock", "read"} : Goto("reader", next)
      BY <2>1 DEF ReadMessage
    <3> QED
      BY <2>1, <3>1, LockStays DEF ReadMessage, Inside
  <2>2. CASE PushFrame \/ PushRefused \/ Unregister \/ ReadFails
    BY <2>2, LockStays
    DEF PushFrame, PushRefused, Unregister, ReadFails, Inside
  <2>3. CASE Reply
    BY <2>3, LockFreed DEF Reply, Written, Inside
  <2>4. CASE Remove
    BY <2>4, RemoveKeepsLock
  <2> QED
    BY <1>3, <2>1, <2>2, <2>3, <2>4 DEF ReaderStep
<1>4. CASE NodeStep
  <2>1. CASE NodeTake \/ NodeExit
    BY <2>1, LockStays DEF NodeTake, NodeExit, Inside
  <2>2. CASE NodeSend
    <3>1. \E next \in {"lock", "recv", "send"} : Goto("node", next)
      BY <2>2 DEF NodeSend, Sent
    <3> QED
      BY <2>2, <3>1, LockStays DEF NodeSend, Inside
  <2>3. CASE NodeWrites
    <3>1. \E next \in {"recv", "send"} : Goto("node", next)
      BY <2>3 DEF NodeWrites, Sent
    <3> QED
      BY <2>3, <3>1, LockFreed DEF NodeWrites, Written, Inside
  <2> QED
    BY <1>4, <2>1, <2>2, <2>3 DEF NodeStep
<1>5. ASSUME NEW s \in Senders, SenderStarts(s) \/ SenderWrites(s)
      PROVE  LockInv'
  <2>1. CASE SenderStarts(s)
    BY <2>1, LockStays DEF SenderStarts, Inside
  <2>2. CASE SenderWrites(s)
    BY <2>2, LockFreed DEF SenderWrites, Written, Inside
  <2> QED
    BY <1>5, <2>1, <2>2
<1>6. CASE RttTicks
  BY <1>6, LockStays DEF RttTicks, Inside
<1>7. CASE PingReturns \/ PingFails
  BY <1>7, LockFreed DEF PingReturns, PingFails, Inside
<1>8. CASE SessionCloses \/ ShutdownCloses
  <2>1. \E t \in Closers : /\ pc[t] = "idle" /\ writeMu' = writeMu
                          /\ \E next \in {"lock", "done"} : Goto(t, next)
    BY <1>8 DEF SessionCloses, ShutdownCloses, CloseConnector, Closers
  <2> QED
    BY <2>1, LockStays DEF Inside
<1>9. ASSUME NEW t \in Closers, CloseConn(t) PROVE LockInv'
  BY <1>9, LockFreed DEF CloseConn, Inside
<1> QED
  BY <1>1, <1>2, <1>3, <1>4, <1>5, <1>6, <1>7, <1>8, <1>9 DEF Next

(* A step that touches neither the wire nor the pinging goroutine.          *)
LEMMA WireStays ==
  ASSUME WireInv, UNCHANGED <<inbox, ping>>,
         pc'["rtt"] = pc["rtt"] \/ ping = "none"
  PROVE  WireInv'
<1>1. Pongs' = Pongs
  BY DEF Pongs
<1> QED
  BY <1>1 DEF WireInv

LEMMA GotoElsewhere ==
  ASSUME LockInv, NEW t \in Threads \ {"rtt"}, NEW next, Goto(t, next)
  PROVE  pc'["rtt"] = pc["rtt"]
BY ThreadFacts DEF LockInv, Goto

LEMMA AcquireKeepsWire ==
  ASSUME LockInv, WireInv, NEW t \in Threads, Acquire(t)
  PROVE  WireInv'
<1>1. CASE t = "rtt"
  <2>1. pc["rtt"] = "lock" /\ pc'["rtt"] = "ping" /\ inbox' = inbox
    <3>1. pc["rtt"] = "lock" /\ inbox' = inbox
      BY <1>1 DEF Acquire
    <3>2. pc'["rtt"] = Section("rtt")
      BY <1>1, LockTaken
    <3>3. Section("rtt") = "ping"
      BY DEF Section, Closers
    <3> QED
      BY <3>1, <3>2, <3>3
  <2>2. ping = "none" /\ ping' \in {"none", "out"} /\ Pongs = {}
    BY <1>1, <2>1 DEF WireInv, Acquire
  <2>3. Pongs' = Pongs
    BY <2>1 DEF Pongs
  <2> QED
    BY <2>1, <2>2, <2>3 DEF WireInv
<1>2. CASE t # "rtt"
  BY <1>2, WireStays, GotoElsewhere DEF Acquire
<1> QED
  BY <1>1, <1>2

LEMMA ClientKeepsWire ==
  ASSUME LockInv, WireInv,
         ClientPongs \/ \E m \in Messages \ {"pong"} : ClientSends(m)
  PROVE  WireInv'
<1>1. PICK m \in Messages :
        /\ inbox' = Append(inbox, m) /\ Len(inbox) < InboxSize
        /\ pc' = pc
        /\ \/ m = "pong" /\ ping = "out" /\ ping' = "answered"
           \/ m # "pong" /\ ping' = ping
  BY DEF ClientPongs, ClientSends, Messages
<1>2. inbox \in Seq(Messages) /\ Len(inbox) \in Nat
  BY DEF WireInv
<1>3. /\ inbox' \in Seq(Messages) /\ Len(inbox') = Len(inbox) + 1
      /\ Len(inbox') <= InboxSize
      /\ 1 .. Len(inbox') = (1 .. Len(inbox)) \union {Len(inbox) + 1}
      /\ \A i \in 1 .. Len(inbox) : inbox'[i] = inbox[i]
      /\ inbox'[Len(inbox) + 1] = m
  BY <1>1, <1>2, SCAssumption
<1>4. CASE m = "pong"
  <2>1. Pongs' = Pongs \union {Len(inbox) + 1}
    BY <1>3, <1>4 DEF Pongs
  <2>2. Pongs = {} /\ pc["rtt"] = "ping"
    BY <1>1, <1>4 DEF WireInv
  <2> QED
    BY <1>1, <1>3, <1>4, <2>1, <2>2 DEF WireInv
<1>5. CASE m # "pong"
  <2>1. Pongs' = Pongs
    BY <1>3, <1>5 DEF Pongs
  <2> QED
    BY <1>1, <1>3, <1>5, <2>1 DEF WireInv
<1> QED
  BY <1>4, <1>5

(* The reader takes the one pong off the connection, or leaves it there.    *)
LEMMA ReadKeepsWire ==
  ASSUME LockInv, WireInv, ReadMessage
  PROVE  WireInv'
<1>1. /\ inbox \in Seq(Messages) /\ inbox # << >>
      /\ inbox' = Tail(inbox)
      /\ ping' = IF Head(inbox) = "pong" THEN "ponged" ELSE ping
      /\ pc'["rtt"] = pc["rtt"]
  BY ThreadFacts DEF ReadMessage, WireInv, LockInv, Goto
<1>2. /\ inbox' \in Seq(Messages) /\ Len(inbox') <= InboxSize
      /\ Head(inbox) = inbox[1] /\ 1 \in 1 .. Len(inbox)
      /\ \A i \in 1 .. Len(inbox') :
           /\ i \in Nat /\ i + 1 # 1
           /\ i + 1 \in 1 .. Len(inbox)
           /\ inbox'[i] = inbox[i + 1]
      /\ \A i \in 1 .. Len(inbox) : i # 1 =>
           i - 1 \in 1 .. Len(inbox') /\ inbox'[i - 1] = inbox[i]
  <2>1. Len(inbox) \in Nat /\ Len(inbox) > 0 /\ Len(inbox') = Len(inbox) - 1
    BY <1>1
  <2>2. Len(inbox) <= InboxSize
    BY DEF WireInv
  <2> QED
    BY <1>1, <2>1, <2>2, SCAssumption
<1>3. /\ \A i \in Pongs' : i + 1 \in Pongs
      /\ \A i \in Pongs : i # 1 => i - 1 \in Pongs'
      /\ \A i \in Pongs' : i \in Nat /\ i + 1 # 1
  BY <1>2 DEF Pongs
<1>4. \A i, j \in Pongs' : i = j
  BY <1>3 DEF WireInv
<1>5. CASE Head(inbox) = "pong"
  <2>1. 1 \in Pongs
    BY <1>2, <1>5 DEF Pongs
  <2>2. Pongs' = {}
    BY <1>3, <2>1 DEF WireInv
  <2>3. pc["rtt"] = "ping"
    BY <2>1 DEF WireInv
  <2> QED
    BY <1>1, <1>2, <1>4, <1>5, <2>2, <2>3 DEF WireInv
<1>6. CASE Head(inbox) # "pong"
  <2>1. 1 \notin Pongs
    BY <1>2, <1>6 DEF Pongs
  <2>2. Pongs' # {} <=> Pongs # {}
    BY <1>3, <2>1
  <2> QED
    BY <1>1, <1>2, <1>4, <1>6, <2>2 DEF WireInv
<1> QED
  BY <1>5, <1>6

(* A ping that returns or is given up leaves no pong that counts.           *)
LEMMA PingKeepsWire ==
  ASSUME LockInv, WireInv, PingReturns \/ PingFails
  PROVE  WireInv'
<1>1. ping' = "none"
  BY DEF PingReturns, PingFails
<1>2. CASE PingReturns
  <2>1. Pongs = {} /\ inbox' = inbox
    BY <1>2 DEF WireInv, PingReturns
  <2>2. Pongs' = {}
    BY <2>1 DEF Pongs
  <2> QED
    BY <1>1, <2>1, <2>2 DEF WireInv
<1>3. CASE PingFails
  <2>1. /\ inbox \in Seq(Messages) /\ Len(inbox) \in Nat
        /\ DOMAIN inbox = 1 .. Len(inbox)
        /\ \A i \in 1 .. Len(inbox) : inbox[i] \in Messages
    BY DEF WireInv
  <2>2. inbox' = [i \in 1 .. Len(inbox) |->
                    IF inbox[i] = "pong" THEN "silent" ELSE inbox[i]]
    BY <1>3, <2>1 DEF PingFails
  <2>3. /\ \A i \in 1 .. Len(inbox) : inbox'[i] \in Messages \ {"pong"}
        /\ inbox' \in [1 .. Len(inbox) -> Messages]
    BY <2>1, <2>2 DEF Messages
  <2>4. inbox' \in Seq(Messages) /\ Len(inbox') = Len(inbox)
    BY <2>1, <2>3
  <2>5. Pongs' = {}
    BY <2>3, <2>4 DEF Pongs
  <2> QED
    BY <1>1, <2>4, <2>5 DEF WireInv
<1> QED
  BY <1>2, <1>3

LEMMA NextWireInv ==
  LockInv /\ WireInv /\ [Next]_vars => WireInv'
<1> SUFFICES ASSUME LockInv, WireInv, [Next]_vars PROVE WireInv'
  OBVIOUS
<1> USE ThreadFacts
<1>1. CASE ClientPongs \/ \E m \in Messages \ {"pong"} : ClientSends(m)
  BY <1>1, ClientKeepsWire
<1>2. CASE \E t \in Threads : Acquire(t)
  BY <1>2, AcquireKeepsWire
<1>3. CASE ReadMessage
  BY <1>3, ReadKeepsWire
<1>4. CASE \/ PushFrame \/ PushRefused \/ Reply \/ Unregister \/ ReadFails
  BY <1>4, WireStays, GotoElsewhere
  DEF PushFrame, PushRefused, Reply, Unregister, ReadFails
<1>5. CASE Remove
  <2>1. pc'["rtt"] = pc["rtt"] /\ UNCHANGED <<inbox, ping>>
    BY <1>5 DEF Remove, LockInv
  <2> QED
    BY <2>1, WireStays
<1>6. CASE NodeStep
  <2>1. (\E next : Goto("node", next)) /\ UNCHANGED <<inbox, ping>>
    BY <1>6 DEF NodeStep, NodeTake, NodeExit, NodeSend, NodeWrites, Sent
  <2> QED
    BY <2>1, WireStays, GotoElsewhere
<1>7. ASSUME NEW s \in Senders, SenderStarts(s) \/ SenderWrites(s)
      PROVE  WireInv'
  BY <1>7, WireStays, GotoElsewhere DEF SenderStarts, SenderWrites
<1>8. CASE RttTicks
  <2>1. ping = "none" /\ UNCHANGED <<inbox, ping>>
    BY <1>8 DEF RttTicks, WireInv
  <2> QED
    BY <2>1, WireStays
<1>9. CASE PingReturns \/ PingFails
  BY <1>9, PingKeepsWire
<1>10. CASE \/ SessionCloses \/ ShutdownCloses
            \/ \E t \in Closers : CloseConn(t)
  <2>1. /\ \E t \in Closers : \E next : Goto(t, next)
        /\ UNCHANGED <<inbox, ping>>
    BY <1>10
    DEF SessionCloses, ShutdownCloses, CloseConn, CloseConnector, Closers
  <2> QED
    BY <2>1, WireStays, GotoElsewhere
<1>11. CASE UNCHANGED vars
  BY <1>11, WireStays DEF vars
<1> QED
  BY <1>1, <1>2, <1>3, <1>4, <1>5, <1>6, <1>7, <1>8, <1>9, <1>10, <1>11
  DEF Next, ReaderStep

(* A step of a goroutine other than the node that leaves the uplink alone.  *)
LEMMA RestStays ==
  ASSUME RestInv, UNCHANGED <<uplink, toSend>>, pc'["node"] = pc["node"],
         alive' \in BOOLEAN, stream' \in BOOLEAN, uplinkDone' \in BOOLEAN
  PROVE  RestInv'
BY DEF RestInv

LEMMA NodeUntouched ==
  ASSUME LockInv, NEW t \in Threads \ {"node"}, NEW next, Goto(t, next)
  PROVE  pc'["node"] = pc["node"]
BY ThreadFacts DEF LockInv, Goto

(* The VAD stage counts its messages down to 0 and not below.               *)
LEMMA NodeKeepsRest ==
  ASSUME LockInv, RestInv, NodeStep
  PROVE  RestInv'
<1>1. /\ toSend \in 0 .. SpeechMessages /\ uplink \in 0 .. UplinkCapacity
      /\ SpeechMessages = 3 /\ UplinkCapacity \in Nat
  BY SCAssumption DEF RestInv, SpeechMessages
<1>2. alive' \in BOOLEAN /\ stream' \in BOOLEAN /\ uplinkDone' \in BOOLEAN
  BY DEF RestInv, NodeStep, NodeTake, NodeExit, NodeSend, NodeWrites, Written
<1>3. \A next : Goto("node", next) => pc'["node"] = next
  BY ThreadFacts DEF LockInv, Goto
<1>4. CASE NodeTake
  <2>1. uplink' \in 0 .. UplinkCapacity /\ toSend' = toSend
    BY <1>1, <1>4 DEF NodeTake
  <2>2. pc'["node"] = "send" => toSend # 0
    BY <1>1, <1>3, <1>4 DEF NodeTake
  <2>3. pc'["node"] \in {"send", "recv"}
    BY <1>3, <1>4 DEF NodeTake
  <2> QED
    BY <1>1, <1>2, <2>1, <2>2, <2>3 DEF RestInv
<1>5. CASE NodeExit
  BY <1>2, <1>3, <1>5 DEF NodeExit, RestInv
<1>6. ASSUME NEW ok \in BOOLEAN, Sent(ok), toSend # 0, uplink' = uplink
      PROVE  RestInv'
  <2>1. toSend' \in 0 .. SpeechMessages
    BY <1>1, <1>6 DEF Sent
  <2>2. pc'["node"] = IF toSend' = 0 THEN "recv" ELSE "send"
    BY <1>3, <1>6 DEF Sent
  <2> QED
    BY <1>1, <1>2, <1>6, <2>1, <2>2 DEF RestInv
<1>7. CASE NodeSend
  <2>1. CASE stream /\ Goto("node", "lock") /\ UNCHANGED toSend
    BY <1>2, <1>3, <1>7, <2>1 DEF NodeSend, RestInv
  <2>2. CASE Sent(FALSE)
    BY <1>6, <1>7, <2>2 DEF NodeSend, RestInv
  <2> QED
    BY <1>7, <2>1, <2>2 DEF NodeSend
<1>8. CASE NodeWrites
  BY <1>6, <1>8 DEF NodeWrites, RestInv
<1> QED
  BY <1>4, <1>5, <1>7, <1>8 DEF NodeStep

LEMMA NextRestInv == LockInv /\ RestInv /\ [Next]_vars => RestInv'
<1> SUFFICES ASSUME LockInv, RestInv, [Next]_vars PROVE RestInv'
  OBVIOUS
<1> USE ThreadFacts
<1>0. alive \in BOOLEAN /\ stream \in BOOLEAN /\ uplinkDone \in BOOLEAN
  BY DEF RestInv
<1>1. CASE \/ ClientPongs \/ \E m \in Messages \ {"pong"} : ClientSends(m)
           \/ UNCHANGED vars
  BY <1>0, <1>1, RestStays DEF ClientPongs, ClientSends, vars
<1>2. ASSUME NEW t \in Threads, Acquire(t) PROVE RestInv'
  <2>1. CASE t = "node"
    <3>1. pc["node"] = "lock" /\ pc'["node"] = "write"
      BY <1>2, <2>1, LockTaken DEF Acquire, Section, Closers
    <3> QED
      BY <1>2, <3>1 DEF Acquire, RestInv
  <2>2. CASE t # "node"
    BY <1>0, <1>2, <2>2, RestStays, NodeUntouched DEF Acquire
  <2> QED
    BY <2>1, <2>2
<1>3. CASE ReadMessage \/ PushRefused \/ Reply \/ Unregister \/ ReadFails
  BY <1>0, <1>3, RestStays, NodeUntouched
  DEF ReadMessage, PushRefused, Reply, Unregister, ReadFails, Written
<1>4. CASE PushFrame
  <2>1. uplink' \in 0 .. UplinkCapacity
    BY <1>4, SCAssumption DEF PushFrame, RestInv
  <2>2. pc'["node"] = pc["node"]
    BY <1>4, NodeUntouched DEF PushFrame
  <2> QED
    BY <1>4, <2>1, <2>2 DEF PushFrame, RestInv
<1>5. CASE Remove
  <2>1. pc'["node"] = pc["node"]
    BY <1>5 DEF Remove, LockInv
  <2> QED
    BY <1>0, <1>5, <2>1, RestStays DEF Remove
<1>6. CASE NodeStep
  BY <1>6, NodeKeepsRest
<1>7. ASSUME NEW s \in Senders, SenderStarts(s) \/ SenderWrites(s)
      PROVE  RestInv'
  BY <1>0, <1>7, RestStays, NodeUntouched
  DEF SenderStarts, SenderWrites, Written
<1>8. CASE RttTicks \/ PingReturns \/ PingFails
  BY <1>0, <1>8, RestStays, NodeUntouched
  DEF RttTicks, PingReturns, PingFails
<1>9. CASE SessionCloses \/ ShutdownCloses
  <2>1. \E t \in Closers : \E next : Goto(t, next)
    BY <1>9 DEF SessionCloses, ShutdownCloses, CloseConnector, Closers
  <2> QED
    BY <1>0, <1>9, <2>1, RestStays, NodeUntouched
    DEF SessionCloses, ShutdownCloses
<1>10. ASSUME NEW t \in Closers, CloseConn(t) PROVE RestInv'
  BY <1>0, <1>10, RestStays, NodeUntouched DEF CloseConn
<1> QED
  BY <1>1, <1>2, <1>3, <1>4, <1>5, <1>6, <1>7, <1>8, <1>9, <1>10
  DEF Next, ReaderStep

(* writeMu is held by exactly the goroutine inside its critical section and *)
(* by nobody otherwise, for any set of senders; a ping is on the wire only  *)
(* while rttLoop holds it (server.go:532-583).                              *)
THEOREM TypeCorrect == Spec => []TypeOK
<1>1. TInv /\ [Next]_vars => TInv'
  BY NextLockInv, NextWireInv, NextRestInv DEF TInv
<1> QED
  BY InitTInv, <1>1, TInvTypes, PTL DEF Spec

=============================================================================
