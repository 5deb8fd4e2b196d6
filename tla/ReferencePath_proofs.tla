------------------------ MODULE ReferencePath_proofs ------------------------
(* Proofs about ReferencePath, for every queue size and bound on the        *)
(* reference frames.                                                        *)
EXTENDS ReferencePath, TLAPS

LEMMA CloseStepSet ==
  {CloseSteps[i] : i \in DOMAIN CloseSteps} =
    {"open", "cancelled", "loopCancelled", "controllerClosed", "stageClosing",
     "closed"}
<1>1. DOMAIN CloseSteps = {1, 2, 3, 4, 5, 6}
  BY DEF CloseSteps
<1>2. /\ CloseSteps[1] = "open" /\ CloseSteps[2] = "cancelled"
      /\ CloseSteps[3] = "loopCancelled" /\ CloseSteps[4] = "controllerClosed"
      /\ CloseSteps[5] = "stageClosing" /\ CloseSteps[6] = "closed"
  BY DEF CloseSteps
<1> QED
  BY <1>1, <1>2

(* TypeOK is the types of the queue and what is in the loop's hands, ...    *)
QueueTypes ==
  /\ tap \in {"idle", "offer"}
  /\ references \in Seq(Frames) /\ Len(references) <= QueueSize
  /\ accepted \in 0 .. MaxFrames
  /\ loop \in {"select", "lock", "add", "exited"}
  /\ taken \in Frames \union {0}
  /\ taken = 0 <=> loop \in {"select", "exited"}
  /\ added \in Seq(Frames)

(* ... and that the stage's mutex belongs to the one that is inside.        *)
MutexHeld ==
  /\ loop \in {"select", "lock", "add", "exited"}
  /\ uplink \in {"recv", "lock", "save", "exited"}
  /\ fileOpen \in BOOLEAN
  /\ mu \in {"loop", "uplink", "closer", Nobody}
  /\ mu = "loop" <=> loop = "add"
  /\ mu = "uplink" <=> uplink = "save"
  /\ mu = "closer" <=> closing = "stageClosing"
  /\ closing \in {"open", "cancelled", "loopCancelled", "controllerClosed",
                  "stageClosing", "closed"}

LEMMA TypesSplit == TypeOK <=> QueueTypes /\ MutexHeld
BY CloseStepSet DEF TypeOK, QueueTypes, MutexHeld

LEMMA InitTypes == Init => QueueTypes /\ MutexHeld
<1> SUFFICES ASSUME Init PROVE QueueTypes /\ MutexHeld
  OBVIOUS
<1>1. QueueTypes
  BY RPAssumption DEF Init, QueueTypes
<1>2. MutexHeld
  BY RPAssumption DEF Init, MutexHeld
<1> QED
  BY <1>1, <1>2

(* The step of OnDownlinkReference that takes a frame in.                   *)
LEMMA AcceptTypes == QueueTypes /\ OfferAccepted => QueueTypes'
<1> SUFFICES ASSUME QueueTypes, OfferAccepted PROVE QueueTypes'
  OBVIOUS
<1>1. accepted + 1 \in Frames /\ accepted' \in 0 .. MaxFrames
  BY RPAssumption DEF QueueTypes, OfferAccepted, Frames
<1>2. references' \in Seq(Frames) /\ Len(references') <= QueueSize
  BY <1>1, RPAssumption DEF QueueTypes, OfferAccepted
<1> QED
  BY <1>1, <1>2 DEF QueueTypes, OfferAccepted

LEMMA DispatchTypes == QueueTypes /\ Dispatch => QueueTypes'
<1> SUFFICES ASSUME QueueTypes, Dispatch PROVE QueueTypes'
  OBVIOUS
<1>1. /\ Head(references) \in Frames
      /\ Tail(references) \in Seq(Frames)
      /\ Len(Tail(references)) <= QueueSize
  BY RPAssumption DEF QueueTypes, Dispatch
<1>2. Head(references) # 0
  BY <1>1 DEF Frames
<1> QED
  BY <1>1, <1>2 DEF QueueTypes, Dispatch

LEMMA AddTypes == QueueTypes /\ AddReference => QueueTypes'
<1> SUFFICES ASSUME QueueTypes, AddReference PROVE QueueTypes'
  OBVIOUS
<1>1. taken \in Frames
  BY DEF QueueTypes, AddReference
<1>2. added' \in Seq(Frames)
  BY <1>1 DEF QueueTypes, AddReference
<1> QED
  BY <1>2 DEF QueueTypes, AddReference, queue

LEMMA NextQueueTypes == QueueTypes /\ [Next]_vars => QueueTypes'
<1> SUFFICES ASSUME QueueTypes, [Next]_vars PROVE QueueTypes'
  OBVIOUS
<1>1. CASE OfferAccepted
  BY <1>1, AcceptTypes
<1>2. CASE Dispatch
  BY <1>2, DispatchTypes
<1>3. CASE AddReference
  BY <1>3, AddTypes
<1>4. CASE Tap \/ OfferRefused \/ LoopExits \/ LoopLocks
  BY <1>4 DEF Tap, OfferRefused, LoopExits, LoopLocks, queue, QueueTypes
<1>5. CASE \/ UplinkTakes \/ UplinkExits \/ UplinkLocks \/ SavePCM
           \/ SessionCancels \/ CloseStep \/ UNCHANGED vars
  <2>1. UNCHANGED <<tap, queue, loop, taken, added>>
    BY <1>5 DEF UplinkTakes, UplinkExits, UplinkLocks, SavePCM,
       SessionCancels, CloseStep, ControllerCancels, ControllerCloses,
       StageCloseLocks, StageCloses, vars, queue
  <2> QED
    BY <2>1 DEF queue, QueueTypes
<1> QED
  BY <1>1, <1>2, <1>3, <1>4, <1>5 DEF Next, LoopStep

(* Whoever enters finds the mutex free, and gives it back when it leaves.   *)
LEMMA NextMutexHeld == MutexHeld /\ [Next]_vars => MutexHeld'
<1> SUFFICES ASSUME MutexHeld, [Next]_vars PROVE MutexHeld'
  OBVIOUS
<1> USE RPAssumption DEF MutexHeld
<1>1. CASE Tap \/ OfferAccepted \/ OfferRefused \/ UNCHANGED vars
  BY <1>1 DEF Tap, OfferAccepted, OfferRefused, vars
<1>2. CASE LoopStep
  BY <1>2 DEF LoopStep, Dispatch, LoopExits, LoopLocks, AddReference
<1>3. CASE UplinkTakes \/ UplinkExits \/ UplinkLocks
  BY <1>3 DEF UplinkTakes, UplinkExits, UplinkLocks
<1>4. CASE SavePCM
  BY <1>4 DEF SavePCM
<1>5. CASE SessionCancels \/ CloseStep
  BY <1>5 DEF SessionCancels, CloseStep, ControllerCancels,
     ControllerCloses, StageCloseLocks, StageCloses, CloseGoes
<1> QED
  BY <1>1, <1>2, <1>3, <1>4, <1>5 DEF Next

LEMMA TypesHold == Spec => [](QueueTypes /\ MutexHeld)
BY InitTypes, NextQueueTypes, NextMutexHeld, PTL DEF Spec

(* The reference queue stays within its bound, the loop holds a frame       *)
(* exactly while it hands one over, and the stage's mutex is held by        *)
(* exactly the one goroutine that is inside the stage.                      *)
THEOREM TypeCorrect == Spec => []TypeOK
BY TypesHold, TypesSplit, PTL

-----------------------------------------------------------------------------
(* Refinement.  An offer is a Call, after Close a CallLate, its end an      *)
(* Accept or a TurnAway; the consumer getting the frame is a Deliver, and   *)
(* nothing ever loses one; Controller.Close is Shut.                        *)

(* What waits is in the order of acceptance, and the frame the loop took    *)
(* out is older than all of it.                                             *)
QueueOrder ==
  /\ \A i, j \in DOMAIN references : i < j => references[i] < references[j]
  /\ \A i \in DOMAIN references : references[i] <= accepted
  /\ taken <= accepted
  /\ \A i \in DOMAIN references : taken < references[i]

LEMMA NextQueueOrder ==
  QueueTypes /\ QueueOrder /\ [Next]_vars => QueueOrder'
<1> SUFFICES ASSUME QueueTypes, QueueOrder, [Next]_vars PROVE QueueOrder'
  OBVIOUS
<1>1. /\ references \in Seq(Frames) /\ accepted \in Nat /\ taken \in Nat
      /\ \A i \in DOMAIN references : /\ references[i] \in Nat
                                      /\ references[i] > 0
  <2>1. \A f \in Frames : f \in Nat /\ f > 0
    BY DEF Frames
  <2> QED
    BY <2>1 DEF QueueTypes
<1>2. CASE OfferAccepted
  <2>1. /\ references' = Append(references, accepted + 1)
        /\ accepted' = accepted + 1 /\ taken' = taken
    BY <1>2 DEF OfferAccepted
  <2>2. /\ DOMAIN references' = 1 .. Len(references) + 1
        /\ DOMAIN references = 1 .. Len(references)
        /\ Len(references) \in Nat
        /\ \A i \in DOMAIN references : references'[i] = references[i]
        /\ references'[Len(references) + 1] = accepted + 1
    BY <1>1, <2>1
  <2> QED
    BY <1>1, <2>1, <2>2 DEF QueueOrder
<1>3. CASE Dispatch
  <2>1. /\ references # << >>
        /\ references' = Tail(references) /\ taken' = Head(references)
        /\ accepted' = accepted
    BY <1>3 DEF Dispatch
  <2>2. /\ taken' = references[1] /\ 1 \in DOMAIN references
        /\ \A i \in DOMAIN references' :
             /\ i \in Nat /\ 1 < i + 1 /\ i + 1 \in DOMAIN references
             /\ references'[i] = references[i + 1]
    BY <1>1, <2>1
  <2>3. \A i, j \in DOMAIN references' : i < j => i + 1 < j + 1
    BY <2>2
  <2> QED
    BY <1>1, <2>1, <2>2, <2>3 DEF QueueOrder
<1>4. CASE AddReference
  BY <1>1, <1>4 DEF AddReference, queue, QueueOrder
<1>5. CASE \/ Tap \/ OfferRefused \/ LoopExits \/ LoopLocks
           \/ UplinkTakes \/ UplinkExits \/ UplinkLocks \/ SavePCM
           \/ SessionCancels \/ CloseStep \/ UNCHANGED vars
  <2>1. UNCHANGED <<references, accepted, taken>>
    BY <1>5 DEF Tap, OfferRefused, LoopExits, LoopLocks, UplinkTakes,
       UplinkExits, UplinkLocks, SavePCM, SessionCancels, CloseStep,
       ControllerCancels, ControllerCloses, StageCloseLocks, StageCloses,
       vars, queue
  <2> QED
    BY <2>1 DEF QueueOrder
<1> QED
  BY <1>2, <1>3, <1>4, <1>5 DEF Next, LoopStep

RInv == QueueTypes /\ QueueOrder

LEMMA RInvHolds == Spec => []RInv
<1>1. Init => RInv
  <2> SUFFICES ASSUME Init PROVE RInv
    OBVIOUS
  <2>1. QueueOrder
    BY DEF Init, QueueOrder
  <2> QED
    BY <2>1, InitTypes DEF RInv
<1>2. RInv /\ [Next]_vars => RInv'
  BY NextQueueTypes, NextQueueOrder DEF RInv
<1> QED
  BY <1>1, <1>2, PTL DEF Spec

(* The frames on their way: queued, or in the hands of the loop.            *)
OnTheWay == ToSet(references) \union ({taken} \ {0})
Offering == IF tap = "offer" THEN {"tap"} ELSE {}

LEMMA AcceptedIsPending ==
  ASSUME RInv, OfferAccepted
  PROVE  OnTheWay' = OnTheWay \union {accepted + 1}
<1>1. /\ references \in Seq(Frames) /\ taken' = taken
      /\ references' = Append(references, accepted + 1)
  BY DEF RInv, QueueTypes, OfferAccepted
<1>2. accepted + 1 \in Frames
  BY RPAssumption DEF RInv, QueueTypes, OfferAccepted, Frames
<1>3. /\ DOMAIN references' = (DOMAIN references) \union {Len(references) + 1}
      /\ \A i \in DOMAIN references : references'[i] = references[i]
      /\ references'[Len(references) + 1] = accepted + 1
  BY <1>1, <1>2
<1>4. ToSet(references)' = ToSet(references) \union {accepted + 1}
  BY <1>3 DEF ToSet
<1> QED
  BY <1>1, <1>4 DEF OnTheWay

LEMMA DispatchKeepsPending ==
  ASSUME RInv, Dispatch
  PROVE  OnTheWay' = OnTheWay
<1>1. /\ references \in Seq(Frames) /\ references # << >>
      /\ references' = Tail(references) /\ taken' = references[1]
      /\ taken = 0 /\ taken' # 0
  <2>1. references \in Seq(Frames) /\ references # << >> /\ taken = 0
    BY DEF RInv, QueueTypes, Dispatch
  <2>2. references[1] \in Frames /\ Head(references) = references[1]
    BY <2>1
  <2> QED
    BY <2>1, <2>2 DEF Dispatch, Frames
<1>2. /\ 1 \in DOMAIN references
      /\ \A i \in DOMAIN references' :
           i + 1 \in DOMAIN references /\ references'[i] = references[i + 1]
      /\ \A i \in DOMAIN references : i # 1 =>
           i - 1 \in DOMAIN references' /\ references'[i - 1] = references[i]
  BY <1>1
<1>3. ToSet(references) \subseteq ToSet(references)' \union {references[1]}
  BY <1>2 DEF ToSet
<1>4. ToSet(references)' \union {references[1]} \subseteq ToSet(references)
  BY <1>2 DEF ToSet
<1> QED
  BY <1>1, <1>3, <1>4 DEF OnTheWay

(* The frame the consumer gets is the oldest on its way.                    *)
LEMMA AddDelivers ==
  ASSUME RInv, AddReference
  PROVE  /\ taken \in OnTheWay
         /\ \A g \in OnTheWay : taken <= g
         /\ OnTheWay' = OnTheWay \ {taken}
         /\ added' = Append(added, taken)
<1>1. /\ taken # 0 /\ taken \in Nat /\ taken' = 0
      /\ references' = references
      /\ added' = Append(added, taken)
  BY DEF RInv, QueueTypes, AddReference, queue, Frames
<1>2. \A g \in ToSet(references) : g \in Nat /\ taken < g
  <2>1. \A i \in DOMAIN references : references[i] \in Frames
    BY DEF RInv, QueueTypes
  <2>2. \A i \in DOMAIN references : taken < references[i]
    BY DEF RInv, QueueOrder
  <2> QED
    BY <2>1, <2>2 DEF ToSet, Frames
<1>3. taken \notin ToSet(references)
  BY <1>1, <1>2
<1> QED
  BY <1>1, <1>2, <1>3 DEF OnTheWay

(* The steps of Close from the one that closes done.                        *)
LEMMA StepsFromClosed ==
  ASSUME NEW step
  PROVE  (\E i, j \in DOMAIN CloseSteps :
            /\ i <= j
            /\ CloseSteps[i] = "controllerClosed"
            /\ CloseSteps[j] = step)
         <=> step \in {"controllerClosed", "stageClosing", "closed"}
<1>1. DOMAIN CloseSteps = {1, 2, 3, 4, 5, 6}
  BY DEF CloseSteps
<1>2. /\ CloseSteps[1] = "open" /\ CloseSteps[2] = "cancelled"
      /\ CloseSteps[3] = "loopCancelled" /\ CloseSteps[4] = "controllerClosed"
      /\ CloseSteps[5] = "stageClosing" /\ CloseSteps[6] = "closed"
  BY DEF CloseSteps
<1>3. \A i \in DOMAIN CloseSteps :
        CloseSteps[i] = "controllerClosed" <=> i = 4
  BY <1>1, <1>2
<1> QED
  BY <1>1, <1>2, <1>3

(* The conduit is open until Controller.Close has closed done.              *)
NotClosed == ~Reached("controllerClosed")

(* Only Controller.Close shuts it, and nobody opens it again.               *)
LEMMA ShutOnce ==
  ASSUME [Next]_vars
  PROVE  \/ NotClosed' = NotClosed
         \/ /\ ControllerCloses /\ NotClosed = TRUE /\ NotClosed' = FALSE
            /\ UNCHANGED <<tap, references, accepted, taken, added>>
<1>1. /\ NotClosed = (closing \notin {"controllerClosed", "stageClosing",
                                       "closed"})
      /\ NotClosed' = (closing' \notin {"controllerClosed", "stageClosing",
                                        "closed"})
  BY StepsFromClosed DEF NotClosed, Reached
<1>2. CASE ControllerCloses
  BY <1>1, <1>2 DEF ControllerCloses, CloseGoes, queue
<1>3. CASE SessionCancels \/ ControllerCancels \/ StageCloseLocks
             \/ StageCloses
  BY <1>1, <1>3 DEF SessionCancels, ControllerCancels, StageCloseLocks,
     StageCloses, CloseGoes
<1>4. CASE \/ Tap \/ OfferAccepted \/ OfferRefused \/ LoopStep
           \/ UplinkTakes \/ UplinkExits \/ UplinkLocks \/ SavePCM
           \/ UNCHANGED vars
  <2>1. closing' = closing
    BY <1>4 DEF Tap, OfferAccepted, OfferRefused, LoopStep, Dispatch,
       LoopExits, LoopLocks, AddReference, UplinkTakes, UplinkExits,
       UplinkLocks, SavePCM, vars
  <2> QED
    BY <1>1, <2>1
<1> QED
  BY <1>2, <1>3, <1>4 DEF Next, CloseStep

ConduitNext == Conduit!Next \/ \E p \in {"tap"} : Conduit!CallLate(p)

LEMMA ConduitStep ==
  ASSUME RInv, [Next]_vars
  PROVE  [ConduitNext]_(Conduit!conduitVars)
<1>1. CASE Tap
  <2>1. /\ Offering = {} /\ Offering' = {"tap"}
        /\ UNCHANGED <<NotClosed, OnTheWay, accepted, added>>
    BY <1>1, ShutOnce DEF Tap, Offering, OnTheWay, queue
  <2> QED
    BY <2>1 DEF Conduit!Call, Conduit!CallLate, Conduit!Next, ConduitNext,
       Offering, OnTheWay, NotClosed
<1>2. CASE OfferAccepted
  <2>1. /\ Offering = {"tap"} /\ Offering' = {}
        /\ accepted' = accepted + 1 /\ added' = added
        /\ UNCHANGED NotClosed
    BY <1>2, ShutOnce DEF OfferAccepted, Offering
  <2>2. OnTheWay' = OnTheWay \union {accepted + 1}
    BY <1>2, AcceptedIsPending
  <2> QED
    BY <2>1, <2>2 DEF Conduit!Accept, Conduit!Next, ConduitNext, Offering,
       OnTheWay, NotClosed
<1>3. CASE OfferRefused
  <2>1. /\ Offering = {"tap"} /\ Offering' = {}
        /\ UNCHANGED <<NotClosed, OnTheWay, accepted, added>>
    BY <1>3, ShutOnce DEF OfferRefused, Offering, OnTheWay, queue
  <2> QED
    BY <2>1 DEF Conduit!TurnAway, Conduit!Next, ConduitNext, Offering,
       OnTheWay, NotClosed
<1>4. CASE AddReference
  <2>1. UNCHANGED <<NotClosed, Offering, accepted>>
    BY <1>4, ShutOnce
    DEF AddReference, ControllerCloses, CloseGoes, Offering, queue
  <2> QED
    BY <1>4, <2>1, AddDelivers
    DEF Conduit!Deliver, Conduit!Next, ConduitNext, Offering, OnTheWay,
        NotClosed
<1>5. CASE Dispatch
  <2>1. UNCHANGED <<NotClosed, Offering, accepted, added>>
    BY <1>5, ShutOnce DEF Dispatch, ControllerCloses, CloseGoes, Offering
  <2> QED
    BY <1>5, <2>1, DispatchKeepsPending
    DEF Conduit!conduitVars, Offering, OnTheWay, NotClosed
<1>6. CASE \/ LoopExits \/ LoopLocks
           \/ UplinkTakes \/ UplinkExits \/ UplinkLocks \/ SavePCM
           \/ SessionCancels \/ CloseStep \/ UNCHANGED vars
  <2>1. UNCHANGED <<tap, references, accepted, taken, added>>
    BY <1>6 DEF LoopExits, LoopLocks, UplinkTakes, UplinkExits, UplinkLocks,
       SavePCM, SessionCancels, CloseStep, ControllerCancels,
       ControllerCloses, StageCloseLocks, StageCloses, vars, queue
  <2>2. CASE UNCHANGED NotClosed
    BY <2>1, <2>2 DEF Conduit!conduitVars, NotClosed
  <2>3. CASE NotClosed = TRUE /\ NotClosed' = FALSE
    BY <2>1, <2>3 DEF Conduit!Shut, Conduit!Next, ConduitNext, NotClosed
  <2> QED
    BY <2>2, <2>3, ShutOnce
<1> QED
  BY <1>1, <1>2, <1>3, <1>4, <1>5, <1>6 DEF Next, LoopStep

(* The enhancement stage gets the reference frames in the order in which    *)
(* the downlink played them and each at most once, for every queue size,    *)
(* with a disk that hangs and Close at any moment (controller.go:104-117,   *)
(* 165-194).  What Close does not do is keep a later frame out, and         *)
(* ConduitSpec allows for that one deviation.                               *)
THEOREM ReferencesAreConduit == Spec => ConduitSpec
<1>1. Init => Conduit!Init
  <2> SUFFICES ASSUME Init PROVE Conduit!Init
    OBVIOUS
  <2>1. ToSet(references) = {} /\ {taken} \ {0} = {}
    BY DEF Init, ToSet
  <2>2. NotClosed = TRUE
    BY StepsFromClosed DEF Init, NotClosed, Reached
  <2> QED
    BY <2>1, <2>2 DEF Init, Conduit!Init, NotClosed
<1>2. RInv /\ [Next]_vars => [ConduitNext]_(Conduit!conduitVars)
  BY ConduitStep
<1> QED
  BY <1>1, <1>2, RInvHolds, PTL
  DEF Spec, ConduitSpec, Conduit!LateSpec, ConduitNext

-----------------------------------------------------------------------------
(* What the consumer got, as a statement about its history alone.           *)

(* No reference frame is handed over twice, and none after a younger one.   *)
AddedInOrder == \A i, j \in DOMAIN added : i < j => added[i] < added[j]

(* All that was handed over is older than all that is still on its way.     *)
AddedFirst ==
  \A i \in DOMAIN added :
    added[i] <= accepted /\ \A g \in OnTheWay : added[i] < g

LEMMA Numbers ==
  ASSUME RInv
  PROVE  /\ added \in Seq(Nat) /\ accepted \in Nat
         /\ \A i \in DOMAIN added : added[i] \in Nat
         /\ \A g \in OnTheWay : g \in Nat
<1>1. added \in Seq(Frames) /\ references \in Seq(Frames)
      /\ taken \in Frames \union {0} /\ accepted \in Nat
  BY RPAssumption DEF RInv, QueueTypes
<1>2. \A f \in Frames : f \in Nat
  BY DEF Frames
<1>3. OnTheWay \subseteq Frames
  BY <1>1 DEF OnTheWay, ToSet
<1> QED
  BY <1>1, <1>2, <1>3

LEMMA NextAdded ==
  RInv /\ AddedInOrder /\ AddedFirst /\ [Next]_vars
    => AddedInOrder' /\ AddedFirst'
<1> SUFFICES ASSUME RInv, AddedInOrder, AddedFirst, [Next]_vars
             PROVE  AddedInOrder' /\ AddedFirst'
  OBVIOUS
<1>1. CASE OfferAccepted
  <2>1. added' = added /\ accepted' = accepted + 1
    BY <1>1 DEF OfferAccepted
  <2>2. OnTheWay' = OnTheWay \union {accepted + 1}
    BY <1>1, AcceptedIsPending
  <2> QED
    BY <2>1, <2>2, Numbers DEF AddedInOrder, AddedFirst
<1>2. CASE AddReference
  <2>1. /\ taken \in OnTheWay /\ \A g \in OnTheWay : taken <= g
        /\ OnTheWay' = OnTheWay \ {taken}
        /\ added' = Append(added, taken)
    BY <1>2, AddDelivers
  <2>2. accepted' = accepted /\ taken <= accepted
    BY <1>2 DEF AddReference, queue, RInv, QueueOrder
  <2>3. /\ DOMAIN added = 1 .. Len(added) /\ Len(added) \in Nat
        /\ DOMAIN added' = 1 .. Len(added) + 1
        /\ \A i \in DOMAIN added : added'[i] = added[i]
        /\ added'[Len(added) + 1] = taken
    BY <2>1, Numbers
  <2>4. \A g \in OnTheWay' : taken < g
    BY <2>1, Numbers
  <2>5. AddedInOrder'
    BY <2>1, <2>3, Numbers DEF AddedInOrder, AddedFirst
  <2>6. AddedFirst'
    BY <2>1, <2>2, <2>3, <2>4 DEF AddedFirst
  <2> QED
    BY <2>5, <2>6
<1>3. CASE Dispatch
  <2>1. UNCHANGED <<added, accepted>>
    BY <1>3 DEF Dispatch
  <2>2. OnTheWay' = OnTheWay
    BY <1>3, DispatchKeepsPending
  <2> QED
    BY <2>1, <2>2 DEF AddedInOrder, AddedFirst
<1>4. CASE \/ Tap \/ OfferRefused \/ LoopExits \/ LoopLocks
           \/ UplinkTakes \/ UplinkExits \/ UplinkLocks \/ SavePCM
           \/ SessionCancels \/ CloseStep \/ UNCHANGED vars
  <2>1. UNCHANGED <<references, accepted, taken, added>>
    BY <1>4 DEF Tap, OfferRefused, LoopExits, LoopLocks, UplinkTakes,
       UplinkExits, UplinkLocks, SavePCM, SessionCancels, CloseStep,
       ControllerCancels, ControllerCloses, StageCloseLocks, StageCloses,
       vars, queue
  <2> QED
    BY <2>1 DEF AddedInOrder, AddedFirst, OnTheWay
<1> QED
  BY <1>1, <1>2, <1>3, <1>4 DEF Next, LoopStep

(* The consumer never gets a reference frame twice, nor one that the        *)
(* downlink played before a frame it already has: an offer that is refused  *)
(* leaves a gap in its reference signal and no disorder                     *)
(* (controller.go:104-117, 165-194).                                        *)
THEOREM ReferencesInOrder == Spec => []AddedInOrder
<1>1. Init => AddedInOrder /\ AddedFirst
  BY DEF Init, AddedInOrder, AddedFirst
<1> QED
  BY <1>1, NextAdded, RInvHolds, PTL DEF Spec

=============================================================================
