---------------------------- MODULE ReferencePath ----------------------------
(***************************************************************************)
(* The way of the downlink reference signal into the uplink's enhancement  *)
(* stage: ReferenceTapStage and Controller                                 *)
(* (src/internal/pipeline/stages/reference_tap.go,                         *)
(* src/internal/controller/controller.go) and the stage that consumes it   *)
(* (src/internal/pipeline/stages/audioenhancement/mock.go).                *)
(*                                                                         *)
(*   tap     the downlink goroutine of the tap stage; it offers copies     *)
(*   loop    Controller.run, which hands them to the consumer              *)
(*   uplink  the goroutine of the enhancement stage; it writes PCM to disk *)
(*   closer  Session.Close: Controller.Close, then uplink.Close            *)
(*                                                                         *)
(* The stage's mutex is held while it writes to disk, so the loop can wait *)
(* for a disk; the bounded queue with its default case keeps the downlink  *)
(* out of that.  A reference frame is named by the order in which it       *)
(* entered the queue.  A Session has one consumer, registered before any   *)
(* frame flows.                                                            *)
(***************************************************************************)
EXTENDS Naturals, Sequences, SequencesExt

CONSTANTS
  QueueSize,  \* Config.ReferenceQueueSize
  MaxFrames,  \* bound: reference frames ever queued
  Nobody

ASSUME RPAssumption ==
  /\ QueueSize \in Nat \ {0}
  /\ MaxFrames \in Nat
  /\ Nobody \notin {"loop", "uplink", "closer"}

VARIABLES
  tap,         \* "idle", or "offer" inside OnDownlinkReference
  references,  \* Controller.references
  accepted,    \* number of frames that entered it
  loop,        \* where Controller.run is
  taken,       \* the frame it took out, 0 for none
  added,       \* history: the frames the consumer got, in order
  uplink,      \* where the goroutine of the enhancement stage is
  fileOpen,    \* MockStage.files has an open file for this client
  mu,          \* the owner of MockStage.mu
  closing      \* how far Session.Close has come

queue == <<references, accepted>>
vars == <<tap, references, accepted, loop, taken, added, uplink, fileOpen, mu,
          closing>>

Frames == 1 .. MaxFrames

(* What Session.Close has done: cancelled the Session; cancelled the loop's *)
(* context; closed Controller.done; reached MockStage.Close; left it.       *)
CloseSteps == <<"open", "cancelled", "loopCancelled", "controllerClosed",
                "stageClosing", "closed">>
Reached(step) ==
  \E i, j \in DOMAIN CloseSteps :
    i <= j /\ CloseSteps[i] = step /\ CloseSteps[j] = closing

TypeOK ==
  /\ tap \in {"idle", "offer"}
  /\ references \in Seq(Frames) /\ Len(references) <= QueueSize
  /\ accepted \in 0 .. MaxFrames
  /\ loop \in {"select", "lock", "add", "exited"}
  /\ taken \in Frames \union {0}
  /\ taken = 0 <=> loop \in {"select", "exited"}
  /\ added \in Seq(Frames)
  /\ uplink \in {"recv", "lock", "save", "exited"}
  /\ fileOpen \in BOOLEAN
  /\ mu \in {"loop", "uplink", "closer", Nobody}
  /\ mu = "loop" <=> loop = "add"
  /\ mu = "uplink" <=> uplink = "save"
  /\ mu = "closer" <=> closing = "stageClosing"
  /\ closing \in {CloseSteps[i] : i \in DOMAIN CloseSteps}

Init ==
  /\ tap = "idle"
  /\ references = << >>
  /\ accepted = 0
  /\ loop = "select"
  /\ taken = 0
  /\ added = << >>
  /\ uplink = "recv"
  /\ fileOpen = FALSE
  /\ mu = Nobody
  /\ closing = "open"

-----------------------------------------------------------------------------
(* The tap.  Process of a frame that is no PCM16LE fails before this.       *)

Tap ==
  /\ tap = "idle"
  /\ tap' = "offer"
  /\ UNCHANGED <<queue, loop, taken, added, uplink, fileOpen, mu, closing>>

(* Fault: a queue that grows instead of refusing. *)
OfferUnbounded ==
  /\ tap = "offer"
  /\ accepted < MaxFrames
  /\ tap' = "idle"
  /\ accepted' = accepted + 1
  /\ references' = Append(references, accepted + 1)
  /\ UNCHANGED <<loop, taken, added, uplink, fileOpen, mu, closing>>

(* The select of OnDownlinkReference: with the Controller closed and room   *)
(* in the queue two cases are ready and either may be chosen, so Close does *)
(* not keep a frame out.                                                    *)
OfferAccepted ==
  /\ tap = "offer"
  /\ Len(references) < QueueSize
  /\ accepted < MaxFrames
  /\ tap' = "idle"
  /\ accepted' = accepted + 1
  /\ references' = Append(references, accepted + 1)
  /\ UNCHANGED <<loop, taken, added, uplink, fileOpen, mu, closing>>

(* Fault: the select without its default case. *)
OfferInsists ==
  /\ tap = "offer"
  /\ Reached("controllerClosed")
  /\ tap' = "idle"
  /\ UNCHANGED <<queue, loop, taken, added, uplink, fileOpen, mu, closing>>

(* The default case (only if no other is ready), or the closed Controller;  *)
(* beyond MaxFrames every offer counts as refused.                          *)
OfferRefused ==
  /\ tap = "offer"
  /\ \/ Len(references) = QueueSize
     \/ accepted = MaxFrames
     \/ Reached("controllerClosed")
  /\ tap' = "idle"
  /\ UNCHANGED <<queue, loop, taken, added, uplink, fileOpen, mu, closing>>

-----------------------------------------------------------------------------
(* The loop: run, dispatchReference, AddReference. *)

Dispatch ==
  /\ loop = "select"
  /\ references # << >>
  /\ taken' = Head(references)
  /\ references' = Tail(references)
  /\ loop' = "lock"
  /\ UNCHANGED <<tap, accepted, added, uplink, fileOpen, mu, closing>>

LoopExits ==
  /\ loop = "select"
  /\ Reached("loopCancelled")
  /\ loop' = "exited"
  /\ UNCHANGED <<tap, queue, taken, added, uplink, fileOpen, mu, closing>>

LoopLocks ==
  /\ loop = "lock"
  /\ mu = Nobody
  /\ mu' = "loop"
  /\ loop' = "add"
  /\ UNCHANGED <<tap, queue, taken, added, uplink, fileOpen, closing>>

(* Fault: AddReference returns without its unlock. *)
AddReferenceKeepingLock ==
  /\ loop = "add"
  /\ added' = Append(added, taken)
  /\ taken' = 0
  /\ loop' = "select"
  /\ UNCHANGED <<tap, queue, uplink, fileOpen, mu, closing>>

(* Fault: a hand-over that seems to have failed is tried again. *)
AddReferenceRetries ==
  /\ loop = "add"
  /\ added' = Append(added, taken)
  /\ mu' = Nobody
  /\ \/ loop' = "select" /\ taken' = 0
     \/ loop' = "lock" /\ UNCHANGED taken
  /\ UNCHANGED <<tap, queue, uplink, fileOpen, closing>>

AddReference ==
  /\ loop = "add"
  /\ added' = Append(added, taken)
  /\ taken' = 0
  /\ mu' = Nobody
  /\ loop' = "select"
  /\ UNCHANGED <<tap, queue, uplink, fileOpen, closing>>

LoopStep == Dispatch \/ LoopExits \/ LoopLocks \/ AddReference

-----------------------------------------------------------------------------
(* The uplink goroutine of the enhancement stage. *)

(* A PCM frame is there; even a closed pipeline may take one more, and one  *)
(* more (queue.go:224-237).                                                 *)
UplinkTakes ==
  /\ uplink = "recv"
  /\ uplink' = "lock"
  /\ UNCHANGED <<tap, queue, loop, taken, added, fileOpen, mu, closing>>

UplinkExits ==
  /\ uplink = "recv"
  /\ Reached("cancelled")
  /\ uplink' = "exited"
  /\ UNCHANGED <<tap, queue, loop, taken, added, fileOpen, mu, closing>>

UplinkLocks ==
  /\ uplink = "lock"
  /\ mu = Nobody
  /\ mu' = "uplink"
  /\ uplink' = "save"
  /\ UNCHANGED <<tap, queue, loop, taken, added, fileOpen, closing>>

(* SavePCM opens the file when the map has none.  A failing open leaves it  *)
(* out; a failing write leaves it open.                                     *)
SavePCM ==
  /\ uplink = "save"
  /\ fileOpen' \in {fileOpen, TRUE}
  /\ mu' = Nobody
  /\ uplink' = "recv"
  /\ UNCHANGED <<tap, queue, loop, taken, added, closing>>

-----------------------------------------------------------------------------
(* Session.Close, as far as these components are concerned. *)

CloseGoes(from, to) ==
  /\ closing = from
  /\ closing' = to

SessionCancels ==
  /\ CloseGoes("open", "cancelled")
  /\ UNCHANGED <<tap, queue, loop, taken, added, uplink, fileOpen, mu>>

ControllerCancels ==
  /\ CloseGoes("cancelled", "loopCancelled")
  /\ UNCHANGED <<tap, queue, loop, taken, added, uplink, fileOpen, mu>>

ControllerCloses ==
  /\ CloseGoes("loopCancelled", "controllerClosed")
  /\ UNCHANGED <<tap, queue, loop, taken, added, uplink, fileOpen, mu>>

StageCloseLocks ==
  /\ CloseGoes("controllerClosed", "stageClosing")
  /\ mu = Nobody
  /\ mu' = "closer"
  /\ UNCHANGED <<tap, queue, loop, taken, added, uplink, fileOpen>>

(* Fault: MockStage.Close returns early, without its unlock. *)
StageClosesKeepingLock ==
  /\ CloseGoes("stageClosing", "closed")
  /\ fileOpen' = FALSE
  /\ UNCHANGED <<tap, queue, loop, taken, added, uplink, mu>>

StageCloses ==
  /\ CloseGoes("stageClosing", "closed")
  /\ fileOpen' = FALSE
  /\ mu' = Nobody
  /\ UNCHANGED <<tap, queue, loop, taken, added, uplink>>

CloseStep ==
  \/ ControllerCancels
  \/ ControllerCloses
  \/ StageCloseLocks
  \/ StageCloses

-----------------------------------------------------------------------------
Next ==
  \/ Tap \/ OfferAccepted \/ OfferRefused
  \/ LoopStep
  \/ UplinkTakes \/ UplinkExits \/ UplinkLocks \/ SavePCM
  \/ SessionCancels
  \/ CloseStep

Spec == Init /\ [][Next]_vars

(* The goroutines run and the mutex is handed to those who wait             *)
(* (sync.Mutex).  A disk write need not return, and nobody has to tap or to *)
(* close the Session.                                                       *)
Fairness ==
  /\ WF_vars(OfferAccepted \/ OfferRefused)
  /\ SF_vars(LoopLocks)
  /\ WF_vars(LoopStep)
  /\ SF_vars(UplinkLocks)
  /\ SF_vars(StageCloseLocks)
  /\ WF_vars(CloseStep)

FairSpec == Spec /\ Fairness

DiskReturns == []<>(uplink # "save")

-----------------------------------------------------------------------------
(* Properties. *)

(* The reference path is a conduit of its own, with one caller, which       *)
(* Controller.Close shuts: the enhancement stage gets the reference frames  *)
(* in the order in which the downlink played them and each at most once;    *)
(* frames missing in between are those the full queue refused               *)
(* (controller.go:104-117, 165-194).  It keeps the weaker promise only: the *)
(* select of OnDownlinkReference may take a frame offered after Close while *)
(* there is room, though controller_test.go:98 says such a frame is         *)
(* dropped.  That late call is the one step the strict conduit forbids.     *)
Conduit == INSTANCE FrameConduit WITH
  Producers <- {"tap"},
  open <- ~Reached("controllerClosed"),
  calls <- IF tap = "offer" THEN {"tap"} ELSE {},
  pending <- ToSet(references) \union ({taken} \ {0}),
  delivered <- added

ConduitSpec == Conduit!LateSpec

(* controller.go:164: the references are handed over asynchronously "so as  *)
(* not to block the downlink pipeline": the tap always comes back, though   *)
(* the dispatcher may hang behind an uplink goroutine that hangs in a disk  *)
(* write with the stage's mutex.                                            *)
TapNeverBlocks == tap = "offer" ~> tap = "idle"

(* If disk writes return, a reference frame that was queued reaches the     *)
(* enhancement stage or the Session is being closed: the uplink goroutine,  *)
(* which may take the mutex again and again, does not starve the dispatcher *)
(* (controller.go:165-194, mock.go:52-102).                                 *)
ReferencesArrive ==
  DiskReturns =>
    \A f \in Frames :
      f <= accepted ~> Reached("cancelled") \/ f \in ToSet(added)

(* If disk writes return, a Session.Close that has begun gets past the      *)
(* stage's mutex, which three goroutines compete for, and the dispatcher    *)
(* ends, even with frames still queued (controller.go:143-174,              *)
(* mock.go:105-117).                                                        *)
CloseEndsLoop ==
  DiskReturns =>
    (Reached("cancelled") ~> closing = "closed" /\ loop = "exited")

(* mock.go:104: Close closes all PCM files the stage holds; once the stage  *)
(* is closed and its goroutine is gone, none is left open.                  *)
FilesReleased ==
  closing = "closed" /\ uplink = "exited" => ~fileOpen

=============================================================================
