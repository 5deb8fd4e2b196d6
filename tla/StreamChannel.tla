---------------------------- MODULE StreamChannel ----------------------------
(***************************************************************************)
(* One client connection: the goroutines that share the writeMu of its     *)
(* channelConn (src/internal/websocket/server.go).                         *)
(*                                                                         *)
(*   reader    readStream: the only one that reads.  It pushes audio into  *)
(*             the uplink pipeline and answers some messages itself.       *)
(*   node      the uplink pipeline; its VAD stage writes three messages to *)
(*             the client on the first frame, from inside Process.         *)
(*   Senders   the goroutines that write replies: generations, and the     *)
(*             output node of the downlink pipeline.                       *)
(*   rtt       rttLoop: Ping holds writeMu until the pong has come, and    *)
(*             only the reader can take the pong off the connection.       *)
(*   session, shutdown   Session.Close and Server.Shutdown.                *)
(*                                                                         *)
(* So rtt can wait for the reader, the reader for the uplink queue, the    *)
(* uplink for writeMu and rtt holds writeMu: a cycle only the timeout of   *)
(* the ping breaks.                                                        *)
(*                                                                         *)
(* External: the websocket library (Read, Write, Ping, Close) and the      *)
(* client at the other end.                                                *)
(***************************************************************************)
EXTENDS Naturals, Sequences

CONSTANTS
  Senders,         \* goroutines that write replies
  UplinkCapacity,  \* frames the uplink takes before Push blocks
  InboxSize,       \* bound: messages of the client on their way
  Nobody

Closers == {"session", "shutdown"}
Threads == {"reader", "node", "rtt"} \union Closers \union Senders

(* The goroutines on which the end of the connection depends. *)
Crew == {"reader", "node"} \union Closers

ASSUME SCAssumption ==
  /\ UplinkCapacity \in Nat \ {0}
  /\ InboxSize \in Nat
  /\ Senders \intersect ({"reader", "node", "rtt"} \union Closers) = {}
  /\ Nobody \notin Threads

VARIABLES
  pc,          \* pc[t]: where goroutine t is
  writeMu,     \* the owner of channelConn.writeMu
  alive,       \* the websocket is open
  stream,      \* the connector still has its stream
  inbox,       \* what the client sent and nobody has read
  ping,        \* what has become of the ping on the wire
  uplink,      \* frames queued in the uplink pipeline
  uplinkDone,  \* the uplink pipeline is closed
  toSend       \* speech messages the VAD stage has still to send

vars == <<pc, writeMu, alive, stream, inbox, ping, uplink, uplinkDone, toSend>>

(* "append" carries audio; "reply" is answered by the reader itself: a      *)
(* session.update, a response.cancel, an input commit, an unknown or broken *)
(* message; "silent" is not answered: a response.create, an append without  *)
(* audio, a pong nobody waits for any more.                                 *)
Messages == {"append", "reply", "silent", "pong"}

SpeechMessages == 3  \* speech_started, speech_stopped, committed

PcsOf(t) ==
  CASE t = "reader" -> {"read", "push", "lock", "write", "unregister",
                        "remove", "gone"}
    [] t = "node" -> {"recv", "send", "lock", "write", "gone"}
    [] t = "rtt" -> {"idle", "lock", "ping"}
    [] t \in Closers -> {"idle", "lock", "close", "done"}
    [] OTHER -> {"idle", "lock", "write"}

(* The types, and that writeMu is held exactly inside its critical sections.*)
TypeOK ==
  /\ \A t \in Threads : pc[t] \in PcsOf(t)
  /\ writeMu \in Threads \union {Nobody}
  /\ \A t \in Threads : pc[t] \in {"write", "ping", "close"} <=> writeMu = t
  /\ alive \in BOOLEAN /\ stream \in BOOLEAN /\ uplinkDone \in BOOLEAN
  /\ inbox \in Seq(Messages) /\ Len(inbox) <= InboxSize
  /\ ping \in {"none", "out", "answered", "ponged"}
  /\ uplink \in 0 .. UplinkCapacity
  /\ toSend \in 0 .. SpeechMessages
  /\ ping # "none" => pc["rtt"] = "ping"
  /\ ping = "answered" <=> \E i \in 1 .. Len(inbox) : inbox[i] = "pong"

Init ==
  /\ pc = [t \in Threads |->
             CASE t = "reader" -> "read" [] t = "node" -> "recv"
               [] OTHER -> "idle"]
  /\ writeMu = Nobody
  /\ alive = TRUE
  /\ stream = TRUE
  /\ inbox = << >>
  /\ ping = "none"
  /\ uplink = 0
  /\ uplinkDone = FALSE
  /\ toSend = SpeechMessages

Goto(t, next) == pc' = [pc EXCEPT ![t] = next]

-----------------------------------------------------------------------------
(* writeMu *)

(* What a goroutine does once it has the lock. *)
Section(t) ==
  CASE t = "rtt" -> "ping" [] t \in Closers -> "close" [] OTHER -> "write"

(* A ping written to a living connection is on the wire. *)
Acquire(t) ==
  /\ pc[t] = "lock"
  /\ writeMu = Nobody
  /\ writeMu' = t
  /\ Goto(t, Section(t))
  /\ ping' = IF t = "rtt" /\ alive THEN "out" ELSE ping
  /\ UNCHANGED <<alive, stream, inbox, uplink, uplinkDone, toSend>>

(* conn.Write succeeds on a living connection; otherwise it fails.  The     *)
(* context was made before the lock (server.go:569), so it may have expired *)
(* meanwhile: the write is then refused, or breaks the connection.          *)
Written(ok) ==
  /\ writeMu' = Nobody
  /\ IF ok THEN alive /\ alive' = TRUE
           ELSE alive' \in {alive, FALSE}

-----------------------------------------------------------------------------
(* The client. *)

ClientSends(m) ==
  /\ alive
  /\ Len(inbox) < InboxSize
  /\ inbox' = Append(inbox, m)
  /\ UNCHANGED <<pc, writeMu, alive, stream, ping, uplink, uplinkDone, toSend>>

ClientPongs ==
  /\ alive
  /\ ping = "out"
  /\ Len(inbox) < InboxSize
  /\ inbox' = Append(inbox, "pong")
  /\ ping' = "answered"
  /\ UNCHANGED <<pc, writeMu, alive, stream, uplink, uplinkDone, toSend>>

-----------------------------------------------------------------------------
(* The reader: readStream, handleStreamPayload and the handlers. *)

ReadMessage ==
  /\ pc["reader"] = "read"
  /\ alive
  /\ inbox # << >>
  /\ inbox' = Tail(inbox)
  /\ ping' = IF Head(inbox) = "pong" THEN "ponged" ELSE ping
  /\ Goto("reader", CASE Head(inbox) = "append" -> "push"
                      [] Head(inbox) = "reply" -> "lock"
                      [] OTHER -> "read")
  /\ UNCHANGED <<writeMu, alive, stream, uplink, uplinkDone, toSend>>

(* The client leaves, the connection breaks, the read times out, or this    *)
(* side has closed it; the deferred conn.Close does not take writeMu.       *)
ReadFails ==
  /\ pc["reader"] = "read"
  /\ alive' = FALSE
  /\ Goto("reader", "unregister")
  /\ UNCHANGED <<writeMu, stream, inbox, ping, uplink, uplinkDone, toSend>>

(* pushUplinkFrame *)
PushFrame ==
  /\ pc["reader"] = "push"
  /\ uplink < UplinkCapacity
  /\ uplink' = uplink + 1
  /\ Goto("reader", "read")
  /\ UNCHANGED <<writeMu, alive, stream, inbox, ping, uplinkDone, toSend>>

(* Fault: Push waits for room alone. *)
PushInsists == FALSE /\ pc["reader"] = "push" /\ UNCHANGED vars

PushRefused ==
  /\ pc["reader"] = "push"
  /\ uplinkDone
  /\ Goto("reader", "read")
  /\ UNCHANGED <<writeMu, alive, stream, inbox, ping, uplink, uplinkDone,
                 toSend>>

(* Fault: a failed reply returns without unlocking. *)
ReplyKeepingLock ==
  /\ pc["reader"] = "write"
  /\ alive' \in {alive, FALSE}
  /\ Goto("reader", "read")
  /\ UNCHANGED <<writeMu, stream, inbox, ping, uplink, uplinkDone, toSend>>

(* The reply is written or lost; the reader goes on in both cases. *)
Reply ==
  /\ pc["reader"] = "write"
  /\ \E ok \in BOOLEAN : Written(ok)
  /\ Goto("reader", "read")
  /\ UNCHANGED <<stream, inbox, ping, uplink, uplinkDone, toSend>>

(* unregisterClient *)
Unregister ==
  /\ pc["reader"] = "unregister"
  /\ stream' = FALSE
  /\ Goto("reader", "remove")
  /\ UNCHANGED <<writeMu, alive, inbox, ping, uplink, uplinkDone, toSend>>

(* OnDisconnect: the reader runs Session.Close itself (the connector has no *)
(* stream any more) or waits in once.Do for the one who does.               *)
Remove ==
  /\ pc["reader"] = "remove"
  /\ pc["session"] \in {"idle", "done"}
  /\ pc' = [pc EXCEPT !["reader"] = "gone", !["session"] = "done"]
  /\ uplinkDone' = TRUE
  /\ UNCHANGED <<writeMu, alive, stream, inbox, ping, uplink, toSend>>

ReaderStep ==
  \/ ReadMessage
  \/ PushFrame
  \/ PushRefused
  \/ Reply
  \/ Unregister
  \/ Remove

-----------------------------------------------------------------------------
(* The uplink pipeline. *)

(* The first frame is speech to the VAD stage, the others pass. *)
NodeTake ==
  /\ pc["node"] = "recv"
  /\ uplink > 0
  /\ uplink' = uplink - 1
  /\ Goto("node", IF toSend = SpeechMessages THEN "send" ELSE "recv")
  /\ UNCHANGED <<writeMu, alive, stream, inbox, ping, uplinkDone, toSend>>

NodeExit ==
  /\ pc["node"] = "recv"
  /\ uplinkDone
  /\ Goto("node", "gone")
  /\ UNCHANGED <<writeMu, alive, stream, inbox, ping, uplink, uplinkDone,
                 toSend>>

(* OnStageEvent goes on after a speech_started that failed and gives up     *)
(* after a speech_stopped that failed.                                      *)
Sent(ok) ==
  LET left == IF ok \/ toSend = SpeechMessages THEN toSend - 1 ELSE 0 IN
  /\ toSend' = left
  /\ Goto("node", IF left = 0 THEN "recv" ELSE "send")

NodeSend ==
  /\ pc["node"] = "send"
  /\ \/ stream /\ Goto("node", "lock") /\ UNCHANGED toSend
     \/ ~stream /\ Sent(FALSE)
  /\ UNCHANGED <<writeMu, alive, stream, inbox, ping, uplink, uplinkDone>>

NodeWrites ==
  /\ pc["node"] = "write"
  /\ \E ok \in BOOLEAN : Written(ok) /\ Sent(ok)
  /\ UNCHANGED <<stream, inbox, ping, uplink, uplinkDone>>

NodeStep == NodeTake \/ NodeExit \/ NodeSend \/ NodeWrites

-----------------------------------------------------------------------------
(* The other writers. *)

SenderStarts(s) ==
  /\ pc[s] = "idle"
  /\ stream
  /\ Goto(s, "lock")
  /\ UNCHANGED <<writeMu, alive, stream, inbox, ping, uplink, uplinkDone,
                 toSend>>

SenderWrites(s) ==
  /\ pc[s] = "write"
  /\ \E ok \in BOOLEAN : Written(ok)
  /\ Goto(s, "idle")
  /\ UNCHANGED <<stream, inbox, ping, uplink, uplinkDone, toSend>>

-----------------------------------------------------------------------------
(* rttLoop and MeasureRTT. *)

(* The loop stops with the server: it need not tick again. *)
RttTicks ==
  /\ pc["rtt"] = "idle"
  /\ stream
  /\ Goto("rtt", "lock")
  /\ UNCHANGED <<writeMu, alive, stream, inbox, ping, uplink, uplinkDone,
                 toSend>>

PingReturns ==
  /\ pc["rtt"] = "ping"
  /\ ping = "ponged"
  /\ Goto("rtt", "idle")
  /\ writeMu' = Nobody
  /\ ping' = "none"
  /\ UNCHANGED <<alive, stream, inbox, uplink, uplinkDone, toSend>>

(* Fault: MeasureRTT under a context without a timeout; only the end of the *)
(* connection ends the wait for the pong.                                   *)
PingWaitsForEver ==
  /\ pc["rtt"] = "ping"
  /\ ~alive
  /\ Goto("rtt", "idle")
  /\ writeMu' = Nobody
  /\ ping' = "none"
  /\ inbox' = [i \in DOMAIN inbox |->
                 IF inbox[i] = "pong" THEN "silent" ELSE inbox[i]]
  /\ UNCHANGED <<alive, stream, uplink, uplinkDone, toSend>>

(* The connection ends, the server stops or pingCtx expires: a pong that    *)
(* comes later means nothing.                                               *)
PingFails ==
  /\ pc["rtt"] = "ping"
  /\ Goto("rtt", "idle")
  /\ writeMu' = Nobody
  /\ ping' = "none"
  /\ inbox' = [i \in DOMAIN inbox |->
                 IF inbox[i] = "pong" THEN "silent" ELSE inbox[i]]
  /\ UNCHANGED <<alive, stream, uplink, uplinkDone, toSend>>

-----------------------------------------------------------------------------
(* Session.Close and Server.Shutdown. *)

(* clientConnector.Close takes writeMu of the stream, if there is one. *)
CloseConnector(t) == Goto(t, IF stream THEN "lock" ELSE "done")

(* Fault: Session.Close leaves its client connector alone. *)
SessionClosesHalf ==
  /\ pc["session"] = "idle"
  /\ uplinkDone' = TRUE
  /\ Goto("session", "done")
  /\ UNCHANGED <<writeMu, alive, stream, inbox, ping, uplink, toSend>>

(* The pipelines first, the client connector last. *)
SessionCloses ==
  /\ pc["session"] = "idle"
  /\ uplinkDone' = TRUE
  /\ CloseConnector("session")
  /\ UNCHANGED <<writeMu, alive, stream, inbox, ping, uplink, toSend>>

ShutdownCloses ==
  /\ pc["shutdown"] = "idle"
  /\ CloseConnector("shutdown")
  /\ UNCHANGED <<writeMu, alive, stream, inbox, ping, uplink, uplinkDone,
                 toSend>>

(* Fault: Close returns from its critical section without the unlock. *)
CloseConnKeepingLock(t) ==
  /\ pc[t] = "close"
  /\ alive' = FALSE
  /\ Goto(t, "done")
  /\ UNCHANGED <<writeMu, stream, inbox, ping, uplink, uplinkDone, toSend>>

CloseConn(t) ==
  /\ pc[t] = "close"
  /\ alive' = FALSE
  /\ writeMu' = Nobody
  /\ Goto(t, "done")
  /\ UNCHANGED <<stream, inbox, ping, uplink, uplinkDone, toSend>>

-----------------------------------------------------------------------------
Next ==
  \/ \E m \in Messages \ {"pong"} : ClientSends(m)
  \/ ClientPongs
  \/ \E t \in Threads : Acquire(t)
  \/ ReaderStep
  \/ ReadFails
  \/ NodeStep
  \/ \E s \in Senders : SenderStarts(s) \/ SenderWrites(s)
  \/ RttTicks \/ PingReturns \/ PingFails
  \/ SessionCloses
  \/ ShutdownCloses
  \/ \E t \in Closers : CloseConn(t)

Spec == Init /\ [][Next]_vars

(* The end of a critical section; there is one at a time. *)
SectionEnds ==
  \/ Reply
  \/ NodeWrites
  \/ \E s \in Senders : SenderWrites(s)
  \/ PingReturns \/ PingFails
  \/ \E t \in Closers : CloseConn(t)

(* Goroutines run; Write, Ping and Close return, because their contexts     *)
(* have a timeout; a read on a dead connection fails.  The lock is strongly *)
(* fair: sync.Mutex hands itself to a goroutine that has waited for 1 ms    *)
(* (senders and rtt get it, too, but nothing here depends on it).  The      *)
(* client owes nothing, not even a pong, and nobody has to close.           *)
Fairness ==
  /\ \A t \in Crew : SF_vars(Acquire(t))
  /\ WF_vars(SectionEnds)
  /\ WF_vars(ReaderStep \/ (~alive /\ ReadFails))
  /\ WF_vars(NodeStep)

FairSpec == Spec /\ Fairness

-----------------------------------------------------------------------------
(* Properties. *)

(* When Session.Close has returned the client is disconnected, whoever ran  *)
(* it, and also when unregisterClient had taken the stream from the         *)
(* connector first (session.go:332-355, server.go:234-239, 549-560).        *)
ClosedMeansDisconnected == pc["session"] = "done" => ~alive

(* The reader, the VAD stage and whoever closes get their turn at the lock, *)
(* though senders may take it again and again and Ping keeps it while it    *)
(* waits for the reader (server.go:538-540, 568-575).                       *)
WritersGetTheirTurn ==
  \A t \in Crew : pc[t] = "lock" ~> pc[t] # "lock"

(* The reader always comes back to the connection or leaves it: the cycle   *)
(* of reader, uplink queue, VAD stage, writeMu and ping never closes for    *)
(* good, whatever the client sends or holds back (server.go:234-287,        *)
(* 303-326, 532-546, session.go:363-386).                                   *)
ReaderReturns ==
  pc["reader"] \in {"push", "lock", "write"}
    ~> pc["reader"] \in {"read", "gone"}

(* Once Session.Close or Shutdown has begun, the handler of the connection  *)
(* and the uplink goroutine end.                                            *)
CloseEndsConnection ==
  pc["session"] # "idle" \/ pc["shutdown"] # "idle"
    ~> pc["reader"] = "gone" /\ pc["node"] = "gone"

=============================================================================
