----------------------------- MODULE ServerProcess -----------------------------
(***************************************************************************)
(* The life of the server process: the steps of main and of what it calls  *)
(* before it serves (src/cmd/rtc-media-server/main.go,                     *)
(* src/internal/config/config.go, src/internal/log/logger.go), Start and   *)
(* Shutdown (src/internal/websocket/server.go), and the two certificate    *)
(* files, which outlive it.  A process may be killed between any two       *)
(* steps, and started again.                                               *)
(*                                                                         *)
(* A file is Absent, Torn (opened with O_TRUNC and not yet written, or     *)
(* written in part) or holds its half of a pair: pair 0 is the operator's, *)
(* pair n was generated by the n-th process.                               *)
(***************************************************************************)
EXTENDS Naturals

CONSTANTS
  Clients,
  MaxStarts,     \* bound: processes started
  Absent, Torn

ASSUME SPAssumption ==
  /\ MaxStarts \in Nat
  /\ Absent \notin Nat /\ Torn \notin Nat /\ Absent # Torn

VARIABLES
  cert, key,  \* the files websocket.tls.cert_file and key_file
  found,      \* history: the two before the program last touched them
  starts,     \* history: the number of processes started
  step,       \* where main is; "down" while there is no process
  logReady,   \* log.logger is set
  ending,     \* how the last process ended, and at which step
  conns,      \* the clients connected and registered
  closing,    \* the clients of Shutdown's snapshot still to be closed
  late        \* history: the clients whose connection is younger than that

files == <<cert, key, found>>
process == <<starts, logReady, ending>>
serving == <<conns, closing, late>>
vars == <<files, process, step, serving>>

Steps == {"down", "load", "initLog", "check", "openCert", "writeCert",
          "openKey", "writeKey", "newServer", "listen", "serving", "draining",
          "returning"}
Accepting == {"serving", "draining"}

Usable(c, k) == c = k /\ c \in Nat

(* Both files are there, so that no later start generates a pair, and they  *)
(* do not fit: no start will serve until somebody repairs them.             *)
Wedged(c, k) == c # Absent /\ k # Absent /\ ~Usable(c, k)

Contents == {Absent, Torn} \union 0 .. starts

TypeOK ==
  /\ cert \in Contents /\ key \in Contents
  /\ found \in [cert : Contents, key : Contents]
  /\ starts \in 0 .. MaxStarts
  /\ step \in Steps
  /\ logReady \in BOOLEAN
  /\ ending \in [how : {"none", "stopped", "failed", "panicked", "killed"},
                 at : Steps]
  /\ conns \subseteq Clients
  /\ closing \subseteq Clients /\ late \subseteq Clients
  /\ conns # {} => step \in Accepting \union {"returning"}

(* The operator may have put there both files, one, or none. *)
Init ==
  /\ cert \in {Absent, 0} /\ key \in {Absent, 0}
  /\ found = [cert |-> cert, key |-> key]
  /\ starts = 0
  /\ step = "down"
  /\ logReady = FALSE
  /\ ending = [how |-> "none", at |-> "down"]
  /\ conns = {} /\ closing = {} /\ late = {}

-----------------------------------------------------------------------------
(* The operator, between two processes. *)

Launch ==
  /\ step = "down"
  /\ starts < MaxStarts
  /\ starts' = starts + 1
  /\ step' = "load"
  /\ found' = [cert |-> cert, key |-> key]
  /\ UNCHANGED <<cert, key, logReady, ending, serving>>

Repair(c, k) ==
  /\ step = "down"
  /\ cert' = c /\ key' = k
  /\ <<cert', key'>> # <<cert, key>>
  /\ found' = [cert |-> c, key |-> k]
  /\ UNCHANGED <<process, step, serving>>

Operator ==
  \/ Launch
  \/ Repair(0, 0) \/ Repair(Absent, key) \/ Repair(cert, Absent)

(* The end of a process; what it had in memory is gone. *)
End(how) ==
  /\ step' = "down"
  /\ ending' = [how |-> how, at |-> step]
  /\ logReady' = FALSE
  /\ conns' = {} /\ closing' = {} /\ late' = {}
  /\ UNCHANGED <<files, starts>>

Kill ==
  /\ step # "down"
  /\ End("killed")

(* fatal logs before it exits, and mustLogger panics while there is no      *)
(* logger.                                                                  *)
Fatal == End(IF logReady THEN "failed" ELSE "panicked")

-----------------------------------------------------------------------------
(* main, up to the listener. *)

Goes(from, to) == step = from /\ step' = to

(* The file is read, parsed and validated, and becomes the singleton that   *)
(* NewServer gets; main calls Load once.                                    *)
LoadConfig ==
  /\ Goes("load", "initLog")
  /\ UNCHANGED <<files, process, serving>>

LoadFails == step = "load" /\ Fatal

(* The level and the format are checked only here. *)
InitLog ==
  /\ Goes("initLog", "check")
  /\ logReady' = TRUE
  /\ UNCHANGED <<files, starts, ending, serving>>

InitLogFails == step = "initLog" /\ End("failed")

CheckFiles ==
  /\ step = "check"
  /\ step' = IF cert # Absent /\ key # Absent THEN "newServer" ELSE "openCert"
  /\ UNCHANGED <<files, process, serving>>

(* Fault: only the missing file is written. *)
OpenMissingCert ==
  /\ step = "openCert"
  /\ IF cert = Absent THEN cert' = Torn /\ step' = "writeCert"
                      ELSE UNCHANGED cert /\ step' = "openKey"
  /\ UNCHANGED <<key, found, process, serving>>

(* os.WriteFile creates or truncates the file first. *)
OpenCert ==
  /\ Goes("openCert", "writeCert")
  /\ cert' = Torn
  /\ UNCHANGED <<key, found, process, serving>>

WriteCert ==
  /\ Goes("writeCert", "openKey")
  /\ cert' = starts
  /\ UNCHANGED <<key, found, process, serving>>

OpenKey ==
  /\ Goes("openKey", "writeKey")
  /\ key' = Torn
  /\ UNCHANGED <<cert, found, process, serving>>

WriteKey ==
  /\ Goes("writeKey", "newServer")
  /\ key' = starts
  /\ UNCHANGED <<cert, found, process, serving>>

(* No directory, no key, no space: ensureDemoCertificate returns an error   *)
(* and what was opened stays as it is.                                      *)
GenerateFails ==
  /\ step \in {"openCert", "writeCert", "openKey", "writeKey"}
  /\ Fatal

(* Both files exist by now, and the configuration was valid when loaded. *)
NewServer ==
  /\ Goes("newServer", "listen")
  /\ UNCHANGED <<files, process, serving>>

Listen ==
  /\ Goes("listen", "serving")
  /\ Usable(cert, key)
  /\ UNCHANGED <<files, process, serving>>

(* The port is taken, or the files are no pair. *)
ListenFails == step = "listen" /\ Fatal

-----------------------------------------------------------------------------
(* Serving.  ConnRegistry has the handshakes and the Sessions in detail;    *)
(* here a client is connected once its stream is set.  A handshake that     *)
(* outlives the listener ends with the process.                             *)

(* Fault: handlers run before the listener is up. *)
ConnectEarly(c) ==
  /\ step \in Accepting \union {"newServer"}
  /\ c \notin conns
  /\ conns' = conns \union {c}
  /\ late' = IF step = "draining" THEN late \union {c} ELSE late
  /\ UNCHANGED <<files, process, step, closing>>

Connect(c) ==
  /\ step \in Accepting
  /\ c \notin conns
  /\ conns' = conns \union {c}
  /\ late' = IF step = "draining" THEN late \union {c} ELSE late
  /\ UNCHANGED <<files, process, step, closing>>

Disconnect(c) ==
  /\ c \in conns
  /\ conns' = conns \ {c}
  /\ UNCHANGED <<files, process, step, closing, late>>

(* SIGINT or SIGTERM, from NotifyContext on (before, it is Kill): the       *)
(* context of Start ends and Shutdown takes its snapshot.  Further signals  *)
(* change nothing.  A signal that overtakes ListenAndServeTLS makes it      *)
(* return at once, unless it fails first (ListenFails).                     *)
Signal ==
  /\ Goes("serving", "draining") \/ Goes("listen", "returning")
  /\ closing' = conns
  /\ UNCHANGED <<files, process, conns, late>>

CloseClient(c) ==
  /\ c \in closing
  /\ closing' = closing \ {c}
  /\ conns' = IF c \in late THEN conns ELSE conns \ {c}
  /\ UNCHANGED <<files, process, step, late>>

(* Fault: the listener is shut down before the clients. *)
CloseListenerFirst ==
  /\ Goes("draining", "returning")
  /\ UNCHANGED <<files, process, serving>>

(* Fault: the listener stays until the last connection is gone. *)
CloseListenerWhenIdle ==
  /\ Goes("draining", "returning")
  /\ closing = {} /\ conns = {}
  /\ UNCHANGED <<files, process, serving>>

(* httpSrv.Shutdown closes the listener; ListenAndServeTLS returns at once  *)
(* and main with it.  Hijacked connections are not waited for.              *)
CloseListener ==
  /\ Goes("draining", "returning")
  /\ closing = {}
  /\ UNCHANGED <<files, process, serving>>

MainReturns == step = "returning" /\ End("stopped")

-----------------------------------------------------------------------------
Next ==
  \/ Operator \/ Kill
  \/ LoadConfig \/ LoadFails \/ InitLog \/ InitLogFails
  \/ CheckFiles \/ OpenCert \/ WriteCert \/ OpenKey \/ WriteKey \/ GenerateFails
  \/ NewServer \/ Listen \/ ListenFails
  \/ \E c \in Clients : Connect(c) \/ Disconnect(c) \/ CloseClient(c)
  \/ Signal \/ CloseListener \/ MainReturns

Spec == Init /\ [][Next]_vars

(* Shutdown runs to its end: clientConnector.Close gives up on a peer that  *)
(* does not answer.  Nobody has to start, signal or kill the process, and   *)
(* clients may come and stay as they like.                                  *)
Fairness ==
  /\ \A c \in Clients : WF_vars(CloseClient(c))
  /\ WF_vars(CloseListener)
  /\ WF_vars(MainReturns)

FairSpec == Spec /\ Fairness

-----------------------------------------------------------------------------
(* Properties. *)

(* A pair that fits is never written to. *)
UsablePairKept ==
  Usable(found.cert, found.key) => cert = found.cert /\ key = found.key

(* Ending while it writes the key, or, if an old key is there without its   *)
(* certificate, between truncating the certificate and truncating the key,  *)
(* is all that makes the program wedge itself.                              *)
WedgedOnlyInWindow ==
  step = "down" /\ Wedged(cert, key) =>
    \/ Wedged(found.cert, found.key)
    \/ ending.at = "writeKey"
    \/ ending.at \in {"writeCert", "openKey"} /\ found.key # Absent

(* However often the process is started, fails or is killed, it does no     *)
(* harm to the certificate outside two windows: the files are written one   *)
(* after the other and not atomically, and the next start looks only at     *)
(* which of them exist (main.go:111-117, 152-157).                          *)
FilesSurvive == UsablePairKept /\ WedgedOnlyInWindow

(* A process that is asked to stop closes every connection it had by then   *)
(* before main returns; what may still be open came during the Shutdown     *)
(* (server.go:147-176).                                                     *)
DrainedBeforeExit == step = "returning" => conns \subseteq late

(* A process that is asked to stop does, also when a client does not leave  *)
(* or new ones keep coming until the listener is closed (server.go:147-176, *)
(* main.go:96-104).                                                         *)
EndsWhenAsked == step \in {"draining", "returning"} ~> step = "down"

=============================================================================
