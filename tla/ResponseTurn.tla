----------------------------- MODULE ResponseTurn -----------------------------
(***************************************************************************)
(* One Session's replies: the generations of the service side              *)
(* (src/internal/application/mock.go), the response flag of the Session    *)
(* (src/internal/session/session.go) and what the client sees of both.     *)
(*                                                                         *)
(* Every request starts a generation with a context of its own; starting   *)
(* one cancels the one before.  A generation waits, sends a text delta,    *)
(* waits, pushes an audio frame into the downlink pipeline, waits, sends   *)
(* done.  The first delta makes the Session send response.created: the     *)
(* flag is set under the mutex, the message goes out after the unlock.     *)
(* Text, created and done are written by the generation itself; audio is   *)
(* written later by the output goroutine of the pipeline.  Of that pipeline *)
(* only what QueuePipeline is shown to implement is used: it is the         *)
(* FrameConduit Downlink, with the backpressure of its bounded queues.      *)
(*                                                                         *)
(* A write may fail at any time: on a dead connection it always does, under *)
(* a cancelled context it may (as the library and the Go select choose),   *)
(* and on a live one it may, for nobody's fault, because its timeout starts *)
(* before the wait for writeMu (Server.write).  StreamChannel has that wait *)
(* in detail; here it is a choice.                                         *)
(***************************************************************************)
EXTENDS Naturals, Sequences, FiniteSets

CONSTANTS
  MaxGen,            \* bound: requests ever made
  MaxCancel,         \* bound: response.cancel messages of the client
  DownlinkCapacity   \* frames the downlink pipeline takes before it blocks

ASSUME RTAssumption ==
  /\ MaxGen \in Nat
  /\ MaxCancel \in Nat
  /\ DownlinkCapacity \in Nat \ {0}

VARIABLES
  pc,             \* pc[g]: where the goroutine of generation g is
  cancelled,      \* the generations whose context is cancelled
  responseID,     \* MockConnector.responseID: the newest generation
  cancelFn,       \* MockConnector.cancel: whose cancel function, 0 for nil
  responseActive, \* Session.responseActive
  reader,         \* where the client's reader is inside response.cancel
  cancels,        \* response.cancel messages handled so far
  vadFired,       \* the VAD stage asked for its one response
  origin,         \* origin[f]: the generation that pushed frame f
  pending,        \* the frames inside the downlink pipeline
  delivered,      \* the frames it has handed to the client connector
  closeStep,      \* how far Session.Close has come
  alive,          \* the client connection can be written to
  (* what the client has seen *)
  nCreated, nDone, \* response.created and response.done messages
  inTurn,         \* a created came after the last done
  seen,           \* seen[g]: the kinds of delta of g that came
  strayText       \* a text delta came outside a turn

client == <<nCreated, nDone, inTurn, seen, strayText>>
service == <<cancelled, responseID, cancelFn>>
downlink == <<origin, pending, delivered>>
vars == <<pc, cancelled, responseID, cancelFn, responseActive, reader,
          cancels, vadFired, origin, pending, delivered, closeStep, alive,
          nCreated, nDone, inTurn, seen, strayText>>

Gens == 1 .. MaxGen

(* The downlink pipeline: a Push is under way from its look at the closed   *)
(* flag to the end of its select.                                           *)
Downlink == INSTANCE FrameConduit WITH
  Producers <- Gens,
  open      <- closeStep = "open",
  calls     <- {g \in Gens : pc[g] = "pushAudio"},
  accepted  <- Len(origin)

GenPcs == {"unborn", "gap1", "ensureText", "createText", "writeText", "gap2",
           "ensureAudio", "createAudio", "checkAudio", "pushAudio", "gap3",
           "writeDone", "reset", "clear", "ended"}

(* Where generation g goes after each step of runMockResponse. *)
After(at) ==
  CASE at = "gap1" -> "ensureText"
    [] at = "createText" -> "writeText"
    [] at = "writeText" -> "gap2"
    [] at = "gap2" -> "ensureAudio"
    [] at = "createAudio" -> "checkAudio"
    [] at = "checkAudio" -> "pushAudio"
    [] at = "pushAudio" -> "gap3"
    [] at = "gap3" -> "writeDone"
    [] at = "writeDone" -> "reset"
    [] at = "reset" -> "clear"

TypeOK ==
  /\ pc \in [Gens -> GenPcs]
  /\ cancelled \subseteq Gens
  /\ responseID \in 0 .. MaxGen
  /\ cancelFn \in 0 .. MaxGen
  /\ responseActive \in BOOLEAN
  /\ reader \in {"idle", "writeDone", "reset"}
  /\ cancels \in 0 .. MaxCancel
  /\ vadFired \in BOOLEAN
  /\ origin \in Seq(Gens)
  /\ pending \subseteq DOMAIN origin
  /\ Cardinality(pending) <= DownlinkCapacity
  /\ delivered \in Seq(DOMAIN origin)
  /\ closeStep \in {"open", "downlink", "service", "client"}
  /\ alive \in BOOLEAN
  /\ nCreated \in Nat /\ nDone \in Nat
  /\ inTurn \in BOOLEAN
  /\ seen \in [Gens -> SUBSET {"text", "audio"}]
  /\ strayText \in BOOLEAN
  /\ \A g \in Gens : pc[g] = "unborn" <=> g > responseID

Init ==
  /\ pc = [g \in Gens |-> "unborn"]
  /\ cancelled = {}
  /\ responseID = 0
  /\ cancelFn = 0
  /\ responseActive = FALSE
  /\ reader = "idle"
  /\ cancels = 0
  /\ vadFired = FALSE
  /\ origin = << >>
  /\ pending = {}
  /\ delivered = << >>
  /\ closeStep = "open"
  /\ alive = TRUE
  /\ nCreated = 0
  /\ nDone = 0
  /\ inTurn = FALSE
  /\ seen = [g \in Gens |-> {}]
  /\ strayText = FALSE

-----------------------------------------------------------------------------
(* What a message does to the client's view. *)

ClientSeesCreated ==
  /\ nCreated' = nCreated + 1
  /\ inTurn' = TRUE
  /\ UNCHANGED <<nDone, seen, strayText>>

ClientSeesDone ==
  /\ nDone' = nDone + 1
  /\ inTurn' = FALSE
  /\ UNCHANGED <<nCreated, seen, strayText>>

ClientSeesDelta(g, kind) ==
  /\ seen' = [seen EXCEPT ![g] = @ \union {kind}]
  /\ strayText' = (strayText \/ (kind = "text" /\ ~inTurn))
  /\ UNCHANGED <<nCreated, nDone, inTurn>>

-----------------------------------------------------------------------------
(* Requests. *)

(* startMockResponse, one critical section of MockConnector.mu; it does not *)
(* ask whether the connector is closed.                                     *)
StartMockResponse ==
  /\ responseID < MaxGen
  /\ responseID' = responseID + 1
  /\ cancelFn' = responseID + 1
  /\ cancelled' = cancelled \union ({cancelFn} \ {0})
  /\ pc' = [pc EXCEPT ![responseID + 1] = "gap1"]

CancelMockResponse ==
  /\ cancelled' = cancelled \union ({cancelFn} \ {0})
  /\ cancelFn' = 0
  /\ UNCHANGED responseID

(* The reader handles input_audio_buffer.commit or response.create. *)
ClientRequest ==
  /\ reader = "idle"
  /\ StartMockResponse
  /\ UNCHANGED <<responseActive, reader, cancels, vadFired, downlink,
                 closeStep, alive, client>>

(* The VAD stage reports the end of speech, once in a Session, from the     *)
(* goroutine of its node.                                                   *)
VadRequest ==
  /\ ~vadFired
  /\ vadFired' = TRUE
  /\ StartMockResponse
  /\ UNCHANGED <<responseActive, reader, cancels, downlink, closeStep, alive,
                 client>>

(* response.cancel: cancel, then answer done under context.Background(). *)
ClientCancel ==
  /\ reader = "idle"
  /\ cancels < MaxCancel
  /\ cancels' = cancels + 1
  /\ CancelMockResponse
  /\ reader' = "writeDone"
  /\ UNCHANGED <<pc, responseActive, vadFired, downlink, closeStep, alive,
                 client>>

(* A done that is refused leaves the flag as it is. *)
CancelWritesDone ==
  /\ reader = "writeDone"
  /\ \/ alive /\ reader' = "reset" /\ ClientSeesDone
     \/ reader' = "idle" /\ UNCHANGED client
  /\ UNCHANGED <<pc, service, responseActive, cancels, vadFired, downlink,
                 closeStep, alive>>

CancelResets ==
  /\ reader = "reset"
  /\ reader' = "idle"
  /\ responseActive' = FALSE
  /\ UNCHANGED <<pc, service, cancels, vadFired, downlink, closeStep, alive,
                 client>>

-----------------------------------------------------------------------------
(* The goroutine of generation g. *)

Goto(g, next) == pc' = [pc EXCEPT ![g] = next]

(* waitMockResponseGap: with timer and context both ready, either wins. *)
Gap(g) ==
  /\ pc[g] \in {"gap1", "gap2", "gap3"}
  /\ \/ Goto(g, After(pc[g]))
     \/ g \in cancelled /\ Goto(g, "clear")
  /\ UNCHANGED <<service, responseActive, reader, cancels, vadFired, downlink,
                 closeStep, alive, client>>

(* ensureResponseCreated up to its unlock. *)
Ensure(g) ==
  /\ pc[g] \in {"ensureText", "ensureAudio"}
  /\ LET text == pc[g] = "ensureText" IN
     Goto(g, IF responseActive
             THEN IF text THEN "writeText" ELSE "checkAudio"
             ELSE IF text THEN "createText" ELSE "createAudio")
  /\ responseActive' = TRUE
  /\ UNCHANGED <<service, reader, cancels, vadFired, downlink, closeStep,
                 alive, client>>

(* Fault: OnServiceMessage resets the flag even if done was not written. *)
WriteFailsResetting(g) ==
  /\ pc[g] \in {"createText", "createAudio", "writeText", "writeDone"}
  /\ Goto(g, "clear")
  /\ responseActive' = (responseActive /\ pc[g] # "writeDone")
  /\ UNCHANGED <<service, reader, cancels, vadFired, downlink, closeStep,
                 alive, client>>

(* Fault: a write on a dead connection never returns. *)
WriteInsists(g) ==
  /\ pc[g] \in {"createText", "createAudio", "writeText", "writeDone"}
  /\ alive
  /\ Goto(g, "clear")
  /\ UNCHANGED <<service, responseActive, reader, cancels, vadFired, downlink,
                 closeStep, alive, client>>

(* A write of g that does not go out, cancelled or not, on a dead connection *)
(* or a live one: g gives up, the flag stays as it is.                      *)
WriteFails(g) ==
  /\ pc[g] \in {"createText", "createAudio", "writeText", "writeDone"}
  /\ Goto(g, "clear")
  /\ UNCHANGED <<service, responseActive, reader, cancels, vadFired, downlink,
                 closeStep, alive, client>>

WriteCreated(g) ==
  /\ pc[g] \in {"createText", "createAudio"}
  /\ alive
  /\ ClientSeesCreated
  /\ Goto(g, After(pc[g]))
  /\ UNCHANGED <<service, responseActive, reader, cancels, vadFired, downlink,
                 closeStep, alive>>

(* Fault: the error of the text delta is ignored. *)
WriteTextCarelessly(g) ==
  /\ pc[g] = "writeText"
  /\ \/ alive /\ ClientSeesDelta(g, "text")
     \/ UNCHANGED client
  /\ Goto(g, "gap2")
  /\ UNCHANGED <<service, responseActive, reader, cancels, vadFired, downlink,
                 closeStep, alive>>

WriteText(g) ==
  /\ pc[g] = "writeText"
  /\ alive
  /\ ClientSeesDelta(g, "text")
  /\ Goto(g, After("writeText"))
  /\ UNCHANGED <<service, responseActive, reader, cancels, vadFired, downlink,
                 closeStep, alive>>

(* downlink.Push: the closed flag, then the select. *)
CheckAudio(g) ==
  /\ pc[g] = "checkAudio"
  /\ UNCHANGED <<service, responseActive, reader, cancels, vadFired, origin,
                 closeStep, alive, client>>
  /\ \/ Goto(g, After("checkAudio")) /\ Downlink!Call(g)
     \/ closeStep # "open" /\ Goto(g, "clear") /\ UNCHANGED downlink

(* Fault: a downlink queue without its bound. *)
PushAudioUnbounded(g) ==
  /\ pc[g] = "pushAudio"
  /\ origin' = Append(origin, g)
  /\ Goto(g, After("pushAudio"))
  /\ UNCHANGED <<service, responseActive, reader, cancels, vadFired,
                 closeStep, alive, client>>
  /\ Downlink!Accept(g)

PushAudio(g) ==
  /\ pc[g] = "pushAudio"
  /\ Cardinality(pending) < DownlinkCapacity
  /\ origin' = Append(origin, g)
  /\ Goto(g, After("pushAudio"))
  /\ UNCHANGED <<service, responseActive, reader, cancels, vadFired,
                 closeStep, alive, client>>
  /\ Downlink!Accept(g)

PushAudioRefused(g) ==
  /\ pc[g] = "pushAudio"
  /\ g \in cancelled \/ closeStep # "open"
  /\ Goto(g, "clear")
  /\ UNCHANGED <<service, responseActive, reader, cancels, vadFired, origin,
                 closeStep, alive, client>>
  /\ Downlink!TurnAway(g)

(* OnServiceMessage(done): the message first, the flag in a later step. *)
WriteDone(g) ==
  /\ pc[g] = "writeDone"
  /\ alive
  /\ ClientSeesDone
  /\ Goto(g, After("writeDone"))
  /\ UNCHANGED <<service, responseActive, reader, cancels, vadFired, downlink,
                 closeStep, alive>>

Reset(g) ==
  /\ pc[g] = "reset"
  /\ responseActive' = FALSE
  /\ Goto(g, After("reset"))
  /\ UNCHANGED <<service, reader, cancels, vadFired, downlink, closeStep,
                 alive, client>>

(* Fault: clearMockResponse without the comparison of the ids. *)
ClearAny(g) ==
  /\ pc[g] = "clear"
  /\ cancelFn' = 0
  /\ Goto(g, "ended")
  /\ UNCHANGED <<cancelled, responseID, responseActive, reader, cancels,
                 vadFired, downlink, closeStep, alive, client>>

(* clearMockResponse. *)
Clear(g) ==
  /\ pc[g] = "clear"
  /\ cancelFn' = IF responseID = g THEN 0 ELSE cancelFn
  /\ Goto(g, "ended")
  /\ UNCHANGED <<cancelled, responseID, responseActive, reader, cancels,
                 vadFired, downlink, closeStep, alive, client>>

GenStep(g) ==
  \/ Gap(g)
  \/ Ensure(g)
  \/ WriteFails(g)
  \/ WriteCreated(g)
  \/ WriteText(g)
  \/ CheckAudio(g)
  \/ PushAudio(g)
  \/ PushAudioRefused(g)
  \/ WriteDone(g)
  \/ Reset(g)
  \/ Clear(g)

-----------------------------------------------------------------------------
(* A frame is lost when its write fails, which it may at any time, or when  *)
(* the pipeline is being closed; no stage refuses a frame of the mock       *)
(* service (MediaStages!RefusedAtEdge).                                     *)
DeliverAudio(f) ==
  /\ alive
  /\ ClientSeesDelta(origin[f], "audio")
  /\ UNCHANGED <<pc, service, responseActive, reader, cancels, vadFired,
                 origin, closeStep, alive>>
  /\ Downlink!Deliver(f)

LoseAudio(f) ==
  /\ UNCHANGED <<pc, service, responseActive, reader, cancels, vadFired,
                 origin, closeStep, alive, client>>
  /\ Downlink!Lose(f)

-----------------------------------------------------------------------------
(* The connection dies, or Session.Close runs: pipelines, service, client. *)

ConnectionDies ==
  /\ alive
  /\ alive' = FALSE
  /\ UNCHANGED <<pc, service, responseActive, reader, cancels, vadFired,
                 downlink, closeStep, client>>

CloseDownlink ==
  /\ closeStep' = "downlink"
  /\ UNCHANGED <<pc, service, responseActive, reader, cancels, vadFired,
                 origin, alive, client>>
  /\ Downlink!Shut

CloseService ==
  /\ closeStep = "downlink"
  /\ closeStep' = "service"
  /\ CancelMockResponse
  /\ UNCHANGED <<pc, responseActive, reader, cancels, vadFired, downlink,
                 alive, client>>

CloseClient ==
  /\ closeStep = "service"
  /\ closeStep' = "client"
  /\ alive' = FALSE
  /\ UNCHANGED <<pc, service, responseActive, reader, cancels, vadFired,
                 downlink, client>>

Next ==
  \/ ClientRequest
  \/ VadRequest
  \/ ClientCancel
  \/ CancelWritesDone
  \/ CancelResets
  \/ \E g \in Gens : GenStep(g)
  \/ \E f \in pending : DeliverAudio(f) \/ LoseAudio(f)
  \/ ConnectionDies
  \/ CloseDownlink
  \/ CloseService
  \/ CloseClient

Spec == Init /\ [][Next]_vars

(* Goroutines run, timers fire, writes return (they carry a timeout), the   *)
(* pipeline moves its frames until it is closed (QueuePipeline!EverySettled)*)
(* and a started Session.Close ends.  Nobody has to request, cancel, close  *)
(* or disconnect.                                                           *)
Fairness ==
  /\ \A g \in Gens : WF_vars(GenStep(g))
  /\ WF_vars(CancelWritesDone \/ CancelResets)
  /\ WF_vars(\E f \in pending : (closeStep = "open" /\ DeliverAudio(f))
                                 \/ LoseAudio(f))
  /\ WF_vars(CloseService) /\ WF_vars(CloseClient)

FairSpec == Spec /\ Fairness

-----------------------------------------------------------------------------
(* Properties. *)

Live(g) == pc[g] \notin {"unborn", "ended"} /\ g \notin cancelled

(* response.cancel, a newer request and Close always reach the generation   *)
(* that still runs: its cancel function is the stored one.  In particular   *)
(* at most one generation runs uncancelled, and a generation that ends late *)
(* never wipes out the cancel function of its successor                     *)
(* (mock.go:140-157, 186-203).                                              *)
CancelReachesLive ==
  /\ \A g \in Gens : Live(g) => cancelFn = g
  /\ cancelFn \in {0, responseID}

(* However requests, cancellations and failed writes interleave, also those *)
(* refused on a live connection (server.go:568-575), the client never sees  *)
(* more turns opened than it saw closed, plus the current one: the flag     *)
(* falls only after a done went out (session.go:415-437, 452-478).          *)
TurnsBalanced == nCreated <= nDone + 1

(* No generation speaks before, or without, its text: a text delta that     *)
(* failed ends the generation (mock.go:160-183), though the audio takes     *)
(* another way to the client.                                               *)
TextBeforeAudio ==
  \A g \in Gens : "audio" \in seen[g] => "text" \in seen[g]

(* Every request ends: no generation stays behind a full downlink queue, a  *)
(* dead connection or a closed Session, not even one that was started after *)
(* the service side had been closed (mock.go:140-183, queue.go:209-221).    *)
EveryGenerationEnds ==
  \A g \in Gens : pc[g] = "gap1" ~> pc[g] = "ended"

(* session.go:451: ensureResponseCreated makes sure that "the start event   *)
(* of this reply has been sent to the client": no text delta comes outside  *)
(* a created/done pair.                                                     *)
TextInTurn == ~strayText

=============================================================================
