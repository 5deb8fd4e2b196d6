----------------------------- MODULE ConnRegistry -----------------------------
(***************************************************************************)
(* The two registries behind one client id: Server.clients (the            *)
(* connectors, src/internal/websocket/server.go) and Manager.sessions (the *)
(* Sessions, src/internal/session/session.go), joined by the callbacks of  *)
(* src/cmd/rtc-media-server/main.go.  Each has a mutex of its own and no   *)
(* step holds both, so a connection leaves the first registry before its   *)
(* Session leaves the second.                                              *)
(*                                                                         *)
(* Conns are the connection attempts of the one client id, each handled by *)
(* a goroutine of its own.  A connector and a Session are named after the  *)
(* attempt that created them.  Other client ids do not interfere.          *)
(***************************************************************************)
EXTENDS Naturals, FiniteSets

CONSTANTS
  Conns,     \* connection attempts with this client id (bounds the model)
  None,
  Pending    \* a reserved connector whose handshake is not finished

ASSUME CRAssumption == None \notin Conns /\ Pending \notin Conns
                       /\ None # Pending

VARIABLES
  pc,         \* pc[c]: where the handler of attempt c is
  using,      \* using[c]: the connector handler c works with
  clients,    \* Server.clients[id]
  stream,     \* stream[k]: None, Pending or the connection of connector k
  outputs,    \* outputs[k]: the Session bound to connector k
  alive,      \* the attempts whose websocket is open
  sessions,   \* Manager.sessions[id]
  sess,       \* sess[s]: "none", "live", "closing" or "closed"
  target,     \* target[c]: the Session handler c took out of the registry
  shutdown,   \* how far Server.Shutdown has come
  snapshot    \* the connectors Shutdown has still to close

vars == <<pc, using, clients, stream, outputs, alive, sessions, sess, target,
          shutdown, snapshot>>

HandlerPcs == {"new", "rejected", "handshake", "attach", "reading",
               "unregister", "clear", "remove", "closing", "gone"}

(* The handlers between a successful reserveClient and unregisterClient. *)
Active == {c \in Conns : pc[c] \in {"handshake", "attach", "reading",
                                    "unregister"}}

(* The types, and that nobody closes a Session that is not there. *)
TypeOK ==
  /\ pc \in [Conns -> HandlerPcs]
  /\ using \in [Conns -> Conns \union {None}]
  /\ clients \in Conns \union {None}
  /\ stream \in [Conns -> Conns \union {None, Pending}]
  /\ outputs \in [Conns -> Conns \union {None}]
  /\ alive \subseteq Conns
  /\ sessions \in Conns \union {None}
  /\ sess \in [Conns -> {"none", "live", "closing", "closed"}]
  /\ target \in [Conns -> Conns \union {None}]
  /\ shutdown \in {"no", "stopped", "closing", "http", "done"}
  /\ snapshot \subseteq Conns
  /\ \A c \in Conns : pc[c] = "closing" => target[c] # None

Init ==
  /\ pc = [c \in Conns |-> "new"]
  /\ using = [c \in Conns |-> None]
  /\ clients = None
  /\ stream = [c \in Conns |-> None]
  /\ outputs = [c \in Conns |-> None]
  /\ alive = {}
  /\ sessions = None
  /\ sess = [c \in Conns |-> "none"]
  /\ target = [c \in Conns |-> None]
  /\ shutdown = "no"
  /\ snapshot = {}

Goto(c, next) == pc' = [pc EXCEPT ![c] = next]

-----------------------------------------------------------------------------
(* handleStream *)

(* Fault: reserveClient does not look at streamPending. *)
ReserveIgnoringPending(c) ==
  /\ pc[c] = "new"
  /\ shutdown \in {"no", "stopped", "closing"}
  /\ IF clients = None \/ stream[clients] \in {None, Pending}
     THEN LET k == IF clients = None THEN c ELSE clients IN
          /\ clients' = k
          /\ using' = [using EXCEPT ![c] = k]
          /\ stream' = [stream EXCEPT ![k] = Pending]
          /\ Goto(c, "handshake")
     ELSE /\ Goto(c, "rejected")
          /\ UNCHANGED <<clients, using, stream>>
  /\ UNCHANGED <<outputs, alive, sessions, sess, target, shutdown, snapshot>>

(* reserveClient: a connector already at this id is shared only if it has   *)
(* neither a stream nor a handshake; otherwise the answer is 409.           *)
Reserve(c) ==
  /\ pc[c] = "new"
  /\ shutdown \in {"no", "stopped", "closing"}
  /\ IF clients = None \/ stream[clients] = None
     THEN LET k == IF clients = None THEN c ELSE clients IN
          /\ clients' = k
          /\ using' = [using EXCEPT ![c] = k]
          /\ stream' = [stream EXCEPT ![k] = Pending]
          /\ Goto(c, "handshake")
     ELSE /\ Goto(c, "rejected")
          /\ UNCHANGED <<clients, using, stream>>
  /\ UNCHANGED <<outputs, alive, sessions, sess, target, shutdown, snapshot>>

(* Accept and setStream. *)
Handshake(c) ==
  /\ pc[c] = "handshake"
  /\ alive' = alive \union {c}
  /\ stream' = [stream EXCEPT ![using[c]] = c]
  /\ Goto(c, "attach")
  /\ UNCHANGED <<using, clients, outputs, sessions, sess, target, shutdown,
                 snapshot>>

HandshakeFails(c) ==
  /\ pc[c] = "handshake"
  /\ Goto(c, "unregister")
  /\ UNCHANGED <<using, clients, stream, outputs, alive, sessions, sess,
                 target, shutdown, snapshot>>

(* OnConnect: Manager.Attach, all of it under Manager.mu.  An existing      *)
(* Session is returned as it is: nothing is bound and it is no error.       *)
Attach(c) ==
  /\ pc[c] = "attach"
  /\ IF sessions = None
     THEN /\ sessions' = c
          /\ sess' = [sess EXCEPT ![c] = "live"]
          /\ outputs' = [outputs EXCEPT ![using[c]] = c]
     ELSE UNCHANGED <<sessions, sess, outputs>>
  /\ Goto(c, "reading")
  /\ UNCHANGED <<using, clients, stream, alive, target, shutdown, snapshot>>

(* NewSession fails: the connection is closed and unregistered. *)
AttachFails(c) ==
  /\ pc[c] = "attach"
  /\ sessions = None
  /\ alive' = alive \ {c}
  /\ Goto(c, "unregister")
  /\ UNCHANGED <<using, clients, stream, outputs, sessions, sess, target,
                 shutdown, snapshot>>

(* readStream ends: the peer left, the read timed out, or this side closed. *)
ReadEnds(c) ==
  /\ pc[c] = "reading"
  /\ alive' = alive \ {c}
  /\ Goto(c, "unregister")
  /\ UNCHANGED <<using, clients, stream, outputs, sessions, sess, target,
                 shutdown, snapshot>>

(* unregisterClient, the part under Server.mu.  It looks the connector up   *)
(* by id.                                                                   *)
Unregister(c) ==
  /\ pc[c] = "unregister"
  /\ IF clients = None
     THEN /\ Goto(c, "gone")
          /\ UNCHANGED <<clients, stream, using>>
     ELSE /\ stream' = [stream EXCEPT ![clients] = None]
          /\ using' = [using EXCEPT ![c] = clients]
          /\ clients' = None
          /\ Goto(c, "clear")
  /\ UNCHANGED <<outputs, alive, sessions, sess, target, shutdown, snapshot>>

(* Fault: the disconnect callback is left out. *)
ClearOutputsOnly(c) ==
  /\ pc[c] = "clear"
  /\ outputs' = [outputs EXCEPT ![using[c]] = None]
  /\ Goto(c, "gone")
  /\ UNCHANGED <<using, clients, stream, alive, sessions, sess, target,
                 shutdown, snapshot>>

ClearOutputs(c) ==
  /\ pc[c] = "clear"
  /\ outputs' = [outputs EXCEPT ![using[c]] = None]
  /\ Goto(c, "remove")
  /\ UNCHANGED <<using, clients, stream, alive, sessions, sess, target,
                 shutdown, snapshot>>

(* Fault: Remove closes what it looked up without a look at it. *)
RemoveUnchecked(c) ==
  /\ pc[c] = "remove"
  /\ sessions' = None
  /\ target' = [target EXCEPT ![c] = sessions]
  /\ Goto(c, "closing")
  /\ UNCHANGED <<using, clients, stream, outputs, alive, sess, shutdown,
                 snapshot>>

(* OnDisconnect: Manager.Remove takes whatever Session is at the id ... *)
Remove(c) ==
  /\ pc[c] = "remove"
  /\ sessions' = None
  /\ target' = [target EXCEPT ![c] = sessions]
  /\ Goto(c, IF sessions = None THEN "gone" ELSE "closing")
  /\ UNCHANGED <<using, clients, stream, outputs, alive, sess, shutdown,
                 snapshot>>

(* ... and closes it outside Manager.mu; once.Do makes a second closer wait *)
(* for the first.                                                           *)
CloseBegin(c) ==
  /\ pc[c] = "closing"
  /\ sess[target[c]] = "live"
  /\ sess' = [sess EXCEPT ![target[c]] = "closing"]
  /\ UNCHANGED <<pc, using, clients, stream, outputs, alive, sessions, target,
                 shutdown, snapshot>>

CloseReturns(c) ==
  /\ pc[c] = "closing"
  /\ sess[target[c]] = "closed"
  /\ Goto(c, "gone")
  /\ UNCHANGED <<using, clients, stream, outputs, alive, sessions, sess,
                 target, shutdown, snapshot>>

HandlerStep(c) ==
  \/ Reserve(c)
  \/ Handshake(c) \/ HandshakeFails(c)
  \/ Attach(c) \/ AttachFails(c)
  \/ ReadEnds(c)
  \/ Unregister(c) \/ ClearOutputs(c)
  \/ Remove(c) \/ CloseBegin(c) \/ CloseReturns(c)

-----------------------------------------------------------------------------
(* Session.Close.  Besides Remove, Controller.CloseSession starts it (a     *)
(* silence timeout; the mock VAD stage has the event, vad/mock.go:92, and no *)
(* timer yet that raises it); the Session then stays in the registry.       *)

SessionTimesOut(s) ==
  /\ sess[s] = "live"
  /\ sess' = [sess EXCEPT ![s] = "closing"]
  /\ UNCHANGED <<pc, using, clients, stream, outputs, alive, sessions, target,
                 shutdown, snapshot>>

(* clientConnector.Close: closes the stream the connector has, if any. *)
CloseConnector(k) == alive' = alive \ {stream[k]}

(* Fault: Session.Close waits for the handler of its connection to return.  *)
SessionClosesWaiting(s) ==
  /\ sess[s] = "closing"
  /\ pc[using[s]] = "gone"
  /\ CloseConnector(using[s])
  /\ sess' = [sess EXCEPT ![s] = "closed"]
  /\ UNCHANGED <<pc, using, clients, stream, outputs, sessions, target,
                 shutdown, snapshot>>

(* The rest of the body of once.Do; it ends with the client connector, the  *)
(* one the Session was created for.                                         *)
SessionCloses(s) ==
  /\ sess[s] = "closing"
  /\ CloseConnector(using[s])
  /\ sess' = [sess EXCEPT ![s] = "closed"]
  /\ UNCHANGED <<pc, using, clients, stream, outputs, sessions, target,
                 shutdown, snapshot>>

-----------------------------------------------------------------------------
(* Server.Shutdown *)

ShutdownStarts ==
  /\ shutdown = "no"
  /\ shutdown' = "stopped"
  /\ UNCHANGED <<pc, using, clients, stream, outputs, alive, sessions, sess,
                 target, snapshot>>

Snapshot ==
  /\ shutdown = "stopped"
  /\ shutdown' = "closing"
  /\ snapshot' = {clients} \ {None}
  /\ UNCHANGED <<pc, using, clients, stream, outputs, alive, sessions, sess,
                 target>>

ShutdownCloses(k) ==
  /\ k \in snapshot
  /\ CloseConnector(k)
  /\ snapshot' = snapshot \ {k}
  /\ UNCHANGED <<pc, using, clients, stream, outputs, sessions, sess, target,
                 shutdown>>

(* httpSrv.Shutdown closes the listener ... *)
ListenerCloses ==
  /\ shutdown = "closing"
  /\ snapshot = {}
  /\ shutdown' = "http"
  /\ UNCHANGED <<pc, using, clients, stream, outputs, alive, sessions, sess,
                 target, snapshot>>

(* ... and waits for the handshakes under way, up to its timeout; upgraded  *)
(* connections are not its business.                                        *)
ShutdownReturns ==
  /\ shutdown = "http"
  /\ shutdown' = "done"
  /\ UNCHANGED <<pc, using, clients, stream, outputs, alive, sessions, sess,
                 target, snapshot>>

ShutdownStep ==
  \/ Snapshot
  \/ \E k \in snapshot : ShutdownCloses(k)
  \/ ListenerCloses
  \/ ShutdownReturns

Next ==
  \/ \E c \in Conns : HandlerStep(c)
  \/ \E s \in Conns : SessionTimesOut(s) \/ SessionCloses(s)
  \/ ShutdownStarts
  \/ ShutdownStep

Spec == Init /\ [][Next]_vars

(* A handler whose connection is dead sees its read fail; the steps after   *)
(* it, Session.Close and Shutdown run to their end.  Nobody has to connect, *)
(* disconnect, time out or shut down, and the peer of a healthy connection  *)
(* need not finish its handshake.                                           *)
Fairness ==
  /\ \A c \in Conns :
       /\ WF_vars(c \notin alive /\ ReadEnds(c))
       /\ WF_vars(Attach(c) \/ AttachFails(c))
       /\ WF_vars(Unregister(c))
       /\ WF_vars(ClearOutputs(c))
       /\ WF_vars(Remove(c))
       /\ WF_vars(CloseBegin(c) \/ CloseReturns(c))
       /\ WF_vars(SessionCloses(c))
  /\ WF_vars(ShutdownStep)

FairSpec == Spec /\ Fairness

-----------------------------------------------------------------------------
(* Properties. *)

(* At most one handler at a time works under the client id, on a connector  *)
(* nobody else uses, and the entry in Server.clients is its own: the lookup *)
(* by id in unregisterClient never removes another connection's connector   *)
(* (server.go:378-429).                                                     *)
HandlerOwnsEntry ==
  /\ \A c \in Conns : c \in Active => clients = c /\ using[c] = c
  /\ clients # None => clients \in Active /\ stream[clients] # None
  /\ \A k \in Conns : stream[k] # None => clients = k

(* No Session is forgotten in Manager.sessions: as long as one is there,    *)
(* the handler that created it has its Remove still before it, although     *)
(* other handlers come and go under the same id (session.go:90-106,         *)
(* 230-241, server.go:398-429).                                             *)
RegisteredHasRemover ==
  sessions # None =>
    pc[sessions] \in {"reading", "unregister", "clear", "remove"}

(* A Session whose connection is gone is closed in the end, whichever       *)
(* handler takes it out of the registry.                                    *)
SessionsEnd ==
  \A s \in Conns : sess[s] = "live" /\ s \notin alive ~> sess[s] = "closed"

(* A handler whose connection is dead returns: no one is stuck on the       *)
(* once.Do of a Session somebody else closes.                               *)
HandlersReturn ==
  \A c \in Conns : pc[c] = "reading" /\ c \notin alive ~> pc[c] = "gone"

(* docs/Architecture.md:234: every realtime connection has a Session of its *)
(* own: a handler that reads a living connection has it bound.              *)
ConnectionHasSession ==
  \A c \in Conns : pc[c] = "reading" /\ c \in alive => outputs[c] = c

(* server.go:161: Shutdown closes all websocket client connections.         *)
ShutdownClosesAll ==
  shutdown = "done" => alive = {}

=============================================================================
