------------------------- MODULE ServerProcess_proofs -------------------------
(***************************************************************************)
(* Theorems about ServerProcess, for any number of starts and clients.     *)
(***************************************************************************)
EXTENDS ServerProcess, TLAPS

(* The files are as the process found them.                                 *)
Untouched == cert = found.cert /\ key = found.key

(* A file was found missing, so that a pair is being generated.            *)
Missing == found.cert = Absent \/ found.key = Absent

(* What the two files hold while main is at s, or if it ended there.        *)
FilesAt(s) ==
  \/ s \in {"load", "initLog", "check"} /\ Untouched
  \/ s = "openCert" /\ Missing /\ Untouched
  \/ s = "writeCert" /\ Missing /\ cert = Torn /\ key = found.key
  \/ s = "openKey" /\ Missing /\ cert = starts /\ key = found.key
  \/ s = "writeKey" /\ Missing /\ cert = starts /\ key = Torn
  \/ /\ s \in {"newServer", "listen", "serving", "draining", "returning"}
     /\ \/ Untouched
        \/ Missing /\ cert = starts /\ key = starts

FilesInv ==
  /\ starts \in Nat
  /\ step # "down" => FilesAt(step)
  /\ step = "down" => Untouched \/ FilesAt(ending.at)

LEMMA FilesInit == Init => FilesInv
  BY SMT DEF Init, FilesInv, Untouched

LEMMA EndKeepsFiles ==
  ASSUME FilesInv, step # "down", NEW how, End(how)
  PROVE  FilesInv'
<1>1. step' = "down" /\ ending'.at = step
  BY DEF End
<1>2. FilesAt(step)
  BY DEF FilesInv
<1>3. FilesAt(ending.at)'
  BY <1>1, <1>2, Zenon DEF End, files, FilesAt, Untouched, Missing
<1> QED
  BY <1>1, <1>3 DEF FilesInv, End

LEMMA FilesStep == FilesInv /\ [Next]_vars => FilesInv'
<1> SUFFICES ASSUME FilesInv, [Next]_vars PROVE FilesInv'
  OBVIOUS
<1> USE DEF files, process, serving, Goes
<1>1. CASE Launch
  BY <1>1 DEF Launch, FilesInv, FilesAt, Untouched
<1>2. ASSUME NEW c, NEW k, Repair(c, k) PROVE FilesInv'
  BY <1>2 DEF Repair, FilesInv, Untouched
<1>3. CASE Kill
  BY <1>3, EndKeepsFiles DEF Kill
<1>4. CASE LoadFails \/ InitLogFails \/ GenerateFails \/ ListenFails \/ MainReturns
  <2>1. step # "down" /\ \E how : End(how)
    BY <1>4 DEF LoadFails, InitLogFails, GenerateFails, ListenFails,
                MainReturns, Fatal
  <2> QED
    BY <2>1, EndKeepsFiles
<1>5. CASE LoadConfig
  BY <1>5 DEF LoadConfig, FilesInv, FilesAt, Untouched
<1>6. CASE InitLog
  BY <1>6 DEF InitLog, FilesInv, FilesAt, Untouched
<1>7. CASE CheckFiles
  <2>1. Untouched /\ Untouched'
    BY <1>7 DEF CheckFiles, FilesInv, FilesAt, Untouched
  <2>2. CASE cert # Absent /\ key # Absent
    BY <1>7, <2>1, <2>2 DEF CheckFiles, FilesInv, FilesAt
  <2>3. CASE ~(cert # Absent /\ key # Absent)
    <3>1. Missing' /\ step' = "openCert"
      BY <1>7, <2>1, <2>3 DEF CheckFiles, Missing, Untouched
    <3> QED
      BY <1>7, <2>1, <3>1 DEF CheckFiles, FilesInv, FilesAt
  <2> QED
    BY <2>2, <2>3
<1>8. CASE OpenCert
  BY <1>8 DEF OpenCert, FilesInv, FilesAt, Untouched, Missing
<1>9. CASE WriteCert
  BY <1>9 DEF WriteCert, FilesInv, FilesAt, Untouched, Missing
<1>10. CASE OpenKey
  BY <1>10 DEF OpenKey, FilesInv, FilesAt, Untouched, Missing
<1>11. CASE WriteKey
  BY <1>11 DEF WriteKey, FilesInv, FilesAt, Untouched, Missing
<1>12. CASE NewServer \/ Listen \/ Signal \/ CloseListener
  BY <1>12 DEF NewServer, Listen, Signal, CloseListener, FilesInv, FilesAt,
               Untouched, Missing
<1>13. ASSUME NEW c \in Clients,
              Connect(c) \/ Disconnect(c) \/ CloseClient(c)
       PROVE  FilesInv'
  BY <1>13 DEF Connect, Disconnect, CloseClient, FilesInv, FilesAt,
               Untouched, Missing
<1>14. CASE UNCHANGED vars
  BY <1>14 DEF vars, FilesInv, FilesAt, Untouched, Missing
<1> QED
  BY <1>1, <1>2, <1>3, <1>4, <1>5, <1>6, <1>7, <1>8, <1>9, <1>10, <1>11,
     <1>12, <1>13, <1>14 DEF Next, Operator

LEMMA FilesAlways == Spec => []FilesInv
  BY FilesInit, FilesStep, PTL DEF Spec

LEMMA PairKept == FilesInv => UsablePairKept
<1> SUFFICES ASSUME FilesInv, Usable(found.cert, found.key)
             PROVE  cert = found.cert /\ key = found.key
  BY DEF UsablePairKept
<1>1. ~Missing
  BY SPAssumption DEF Usable, Missing
<1> QED
  BY <1>1 DEF FilesInv, FilesAt, Untouched

LEMMA WindowsOnly == FilesInv => WedgedOnlyInWindow
<1> SUFFICES ASSUME FilesInv, step = "down", Wedged(cert, key),
                    ~Wedged(found.cert, found.key), ending.at # "writeKey"
             PROVE  ending.at \in {"writeCert", "openKey"} /\ found.key # Absent
  BY DEF WedgedOnlyInWindow
<1>1. ~Untouched
  BY DEF Untouched
<1>2. ~(cert = starts /\ key = starts)
  BY DEF Wedged, Usable, FilesInv
<1>3. ending.at \in {"writeCert", "openKey"} /\ key = found.key
  BY <1>1, <1>2 DEF FilesInv, FilesAt
<1> QED
  BY <1>3 DEF Wedged

(* No start harms a pair that fits, and wherever a process ends outside the *)
(* two windows, its successor can use or replace what it left               *)
(* (main.go:111-117, 152-157).                                              *)
THEOREM FilesAreSafe == Spec => []FilesSurvive
<1>1. FilesInv => FilesSurvive
  BY PairKept, WindowsOnly DEF FilesSurvive
<1> QED
  BY <1>1, FilesAlways, PTL

-----------------------------------------------------------------------------
(* There are connections only while the process serves or ends, and while   *)
(* Shutdown closes its snapshot, a connection is in what is left of it or   *)
(* came later.                                                              *)
DrainInv ==
  /\ step \notin Accepting \union {"returning"} => conns = {}
  /\ step = "draining" => conns \subseteq closing \union late
  /\ DrainedBeforeExit

LEMMA DrainStep == DrainInv /\ [Next]_vars => DrainInv'
<1> SUFFICES ASSUME DrainInv, [Next]_vars PROVE DrainInv'
  OBVIOUS
<1> USE DEF DrainInv, DrainedBeforeExit, Accepting, files, process, serving,
            Goes
<1>1. CASE Operator
  BY <1>1 DEF Operator, Launch, Repair
<1>2. CASE \/ Kill \/ LoadFails \/ InitLogFails \/ GenerateFails \/ ListenFails
           \/ MainReturns
  BY <1>2 DEF Kill, LoadFails, InitLogFails, GenerateFails, ListenFails,
              MainReturns, Fatal, End
<1>3. CASE \/ LoadConfig \/ InitLog \/ CheckFiles \/ OpenCert \/ WriteCert
           \/ OpenKey \/ WriteKey \/ NewServer \/ Listen
  BY <1>3 DEF LoadConfig, InitLog, CheckFiles, OpenCert, WriteCert, OpenKey,
              WriteKey, NewServer, Listen
<1>4. ASSUME NEW c \in Clients, Connect(c) PROVE DrainInv'
  BY <1>4 DEF Connect
<1>5. ASSUME NEW c \in Clients, Disconnect(c) PROVE DrainInv'
  BY <1>5 DEF Disconnect
<1>6. ASSUME NEW c \in Clients, CloseClient(c) PROVE DrainInv'
  BY <1>6 DEF CloseClient
<1>7. CASE Signal
  BY <1>7 DEF Signal
<1>8. CASE CloseListener
  BY <1>8 DEF CloseListener
<1>9. CASE UNCHANGED vars
  BY <1>9 DEF vars
<1> QED
  BY <1>1, <1>2, <1>3, <1>4, <1>5, <1>6, <1>7, <1>8, <1>9 DEF Next

(* main does not return over a connection it was to close                   *)
(* (server.go:147-176).                                                     *)
THEOREM Drained == Spec => []DrainedBeforeExit
<1>1. Init => DrainInv
  BY DEF Init, DrainInv, DrainedBeforeExit, Accepting
<1>2. DrainInv => DrainedBeforeExit
  BY DEF DrainInv
<1> QED
  BY <1>1, <1>2, DrainStep, PTL DEF Spec

-----------------------------------------------------------------------------
(* TypeOK in three parts; the last rests on DrainInv, which says at which    *)
(* steps there are connections.                                             *)
FileTypes ==
  /\ starts \in 0 .. MaxStarts
  /\ cert \in Contents /\ key \in Contents
  /\ found \in [cert : Contents, key : Contents]

ProcessTypes ==
  /\ step \in Steps
  /\ logReady \in BOOLEAN
  /\ ending \in [how : {"none", "stopped", "failed", "panicked", "killed"},
                 at : Steps]

ServingTypes ==
  /\ conns \subseteq Clients
  /\ closing \subseteq Clients /\ late \subseteq Clients

(* The steps at which a process ends, and the ways. *)
LEMMA EndsAre ==
  ASSUME \/ Kill \/ LoadFails \/ InitLogFails \/ GenerateFails \/ ListenFails
         \/ MainReturns
  PROVE  \E how \in {"stopped", "failed", "panicked", "killed"} : End(how)
<1>1. CASE Kill
  BY <1>1 DEF Kill
<1>2. CASE LoadFails \/ GenerateFails \/ ListenFails
  <2>1. Fatal
    BY <1>2 DEF LoadFails, GenerateFails, ListenFails
  <2>2. CASE logReady
    BY <2>1, <2>2 DEF Fatal
  <2>3. CASE ~logReady
    BY <2>1, <2>3 DEF Fatal
  <2> QED
    BY <2>2, <2>3
<1>3. CASE InitLogFails
  BY <1>3 DEF InitLogFails
<1>4. CASE MainReturns
  BY <1>4 DEF MainReturns
<1> QED
  BY <1>1, <1>2, <1>3, <1>4

LEMMA FileTypesStep == FileTypes /\ [Next]_vars => FileTypes'
<1> SUFFICES ASSUME FileTypes, [Next]_vars PROVE FileTypes'
  OBVIOUS
<1> USE SPAssumption DEF FileTypes, Contents
<1>1. CASE Launch
  <2>1. /\ starts' = starts + 1 /\ starts' \in 0 .. MaxStarts
        /\ cert' = cert /\ key' = key
        /\ found' = [cert |-> cert, key |-> key]
    BY <1>1 DEF Launch
  <2>2. Contents \subseteq Contents'
    BY <2>1
  <2> QED
    BY <2>1, <2>2
<1>2. CASE Repair(0, 0) \/ Repair(Absent, key) \/ Repair(cert, Absent)
  BY <1>2 DEF Repair, process
<1>3. CASE \/ Kill \/ LoadFails \/ InitLogFails \/ GenerateFails \/ ListenFails
           \/ MainReturns
  <2>1. UNCHANGED <<files, starts>>
    BY <1>3, EndsAre DEF End
  <2> QED
    BY <2>1 DEF files
<1>4. CASE OpenCert \/ OpenKey
  BY <1>4 DEF OpenCert, OpenKey, process
<1>5. CASE WriteCert \/ WriteKey
  BY <1>5 DEF WriteCert, WriteKey, process
<1>6. CASE \/ LoadConfig \/ InitLog \/ CheckFiles \/ NewServer \/ Listen
           \/ Signal \/ CloseListener \/ UNCHANGED vars
  <2>1. UNCHANGED <<files, starts>>
    BY <1>6 DEF LoadConfig, InitLog, CheckFiles, NewServer, Listen, Signal,
                CloseListener, process, vars
  <2> QED
    BY <2>1 DEF files
<1>7. ASSUME NEW c \in Clients, Connect(c) \/ Disconnect(c) \/ CloseClient(c)
      PROVE  FileTypes'
  BY <1>7 DEF Connect, Disconnect, CloseClient, files, process
<1> QED
  BY <1>1, <1>2, <1>3, <1>4, <1>5, <1>6, <1>7 DEF Next, Operator

LEMMA ProcessTypesStep == ProcessTypes /\ [Next]_vars => ProcessTypes'
<1> SUFFICES ASSUME ProcessTypes, [Next]_vars PROVE ProcessTypes'
  OBVIOUS
<1>1. CASE \/ Kill \/ LoadFails \/ InitLogFails \/ GenerateFails \/ ListenFails
           \/ MainReturns
  <2>1. /\ step' = "down" /\ ~logReady' /\ logReady' \in BOOLEAN
        /\ \E how \in {"stopped", "failed", "panicked", "killed"} :
             ending' = [how |-> how, at |-> step]
    BY <1>1, EndsAre DEF End
  <2> QED
    BY <2>1 DEF ProcessTypes, Steps
<1>2. CASE InitLog
  BY <1>2 DEF InitLog, Goes, ProcessTypes, Steps
<1>3. CASE Operator \/ UNCHANGED vars
  <2>1. step' \in Steps /\ UNCHANGED <<logReady, ending>>
    BY <1>3 DEF Operator, Launch, Repair, process, vars, ProcessTypes, Steps
  <2> QED
    BY <2>1 DEF ProcessTypes
<1>4. CASE \/ LoadConfig \/ CheckFiles \/ OpenCert \/ WriteCert
           \/ OpenKey \/ WriteKey \/ NewServer \/ Listen \/ Signal
           \/ CloseListener
  <2>1. step' \in Steps /\ UNCHANGED <<logReady, ending>>
    BY <1>4 DEF LoadConfig, CheckFiles, OpenCert, WriteCert, OpenKey, WriteKey,
                NewServer, Listen, Signal, CloseListener, Goes, process, Steps
  <2> QED
    BY <2>1 DEF ProcessTypes
<1>5. ASSUME NEW c \in Clients, Connect(c) \/ Disconnect(c) \/ CloseClient(c)
      PROVE  ProcessTypes'
  <2>1. UNCHANGED <<step, logReady, ending>>
    BY <1>5 DEF Connect, Disconnect, CloseClient, process
  <2> QED
    BY <2>1 DEF ProcessTypes
<1> QED
  BY <1>1, <1>2, <1>3, <1>4, <1>5 DEF Next

LEMMA ServingTypesStep == ServingTypes /\ [Next]_vars => ServingTypes'
<1> SUFFICES ASSUME ServingTypes, [Next]_vars PROVE ServingTypes'
  OBVIOUS
<1> USE DEF ServingTypes
<1>1. CASE \/ Kill \/ LoadFails \/ InitLogFails \/ GenerateFails \/ ListenFails
           \/ MainReturns
  BY <1>1, EndsAre DEF End
<1>2. CASE Operator \/ UNCHANGED vars
  BY <1>2 DEF Operator, Launch, Repair, serving, vars
<1>3. CASE \/ LoadConfig \/ InitLog \/ CheckFiles \/ OpenCert \/ WriteCert
           \/ OpenKey \/ WriteKey \/ NewServer \/ Listen \/ CloseListener
  BY <1>3 DEF LoadConfig, InitLog, CheckFiles, OpenCert, WriteCert, OpenKey,
              WriteKey, NewServer, Listen, CloseListener, serving
<1>4. CASE Signal
  BY <1>4 DEF Signal
<1>5. ASSUME NEW c \in Clients, Connect(c) \/ Disconnect(c) \/ CloseClient(c)
      PROVE  ServingTypes'
  BY <1>5 DEF Connect, Disconnect, CloseClient
<1> QED
  BY <1>1, <1>2, <1>3, <1>4, <1>5 DEF Next

(* The variables keep their types, however often the process is started: a  *)
(* file never holds a pair of a later process, and nobody is connected to a *)
(* process that does not serve yet (main.go:34-104).                        *)
THEOREM TypeCorrect == Spec => []TypeOK
<1> DEFINE TInv == FileTypes /\ ProcessTypes /\ ServingTypes /\ DrainInv
<1>1. Init => TInv
  <2> SUFFICES ASSUME Init PROVE TInv
    OBVIOUS
  <2>1. FileTypes
    BY SPAssumption DEF Init, FileTypes, Contents
  <2>2. ProcessTypes
    BY DEF Init, ProcessTypes, Steps
  <2>3. ServingTypes /\ DrainInv
    BY DEF Init, ServingTypes, DrainInv, DrainedBeforeExit, Accepting
  <2> QED
    BY <2>1, <2>2, <2>3
<1>2. TInv /\ [Next]_vars => TInv'
  BY FileTypesStep, ProcessTypesStep, ServingTypesStep, DrainStep
<1>3. TInv => TypeOK
  BY DEF FileTypes, ProcessTypes, ServingTypes, DrainInv, TypeOK
<1> QED
  BY <1>1, <1>2, <1>3, PTL DEF Spec

=============================================================================
