---------------------------- MODULE QueuePipeline ----------------------------
(***************************************************************************)
(* The staged media pipeline of src/internal/pipeline/queue.go.            *)
(*                                                                         *)
(* Node n \in 1..NStages is a stageNode, node Out == NStages + 1 is the    *)
(* outputNode.  Every node has a bounded queue and one goroutine that      *)
(* selects between "the context is cancelled", "the pipeline is done" and  *)
(* "a frame is queued": Go picks at random among the ready cases, so a     *)
(* node may go on taking frames after Close.                               *)
(*                                                                         *)
(* A frame is named by its acceptance number: the n-th frame that entered  *)
(* the queue of node 1 is n.  What the stages do to its payload is not     *)
(* modelled; how Process or SendAudio ends is chosen freely at every call. *)
(* Producers are the goroutines that call Push: the reader of the client   *)
(* connection (uplink), the generations of the service side (downlink).    *)
(***************************************************************************)
EXTENDS Naturals, Sequences, FiniteSets

CONSTANTS
  NStages,     \* number of stages (4 in both pipelines of a Session)
  Capacity,    \* queue size of every node (DefaultQueueSize = 32)
  Strategies,  \* the error strategies the pipeline may be built with
  Producers,   \* goroutines that call Push
  MaxFrames    \* bound: number of frames ever accepted

ASSUME QPAssumption ==
  /\ NStages \in Nat
  /\ Capacity \in Nat \ {0}
  /\ Strategies \subseteq {"drop", "continue", "close_session"}
  /\ MaxFrames \in Nat

VARIABLES
  strategy,      \* QueuePipeline.errorStrategy
  ctxDone,       \* the context the goroutines run under is cancelled
  phase,         \* how far the body of once.Do in Close has come
  stagesClosed,  \* number of stages Close has closed
  caller,        \* caller[p]: where producer p is inside Push
  input,         \* input[n]: the channel of node n
  pc,            \* pc[n]: where the goroutine of node n is
  held,          \* held[n]: the frame node n is working on, or NoFrame
  accepted,      \* number of frames that entered the queue of node 1
  fate,          \* history: what became of each frame
  delivered,     \* history: the frames SendAudio took, in order
  processed,     \* the atomic counters behind Stats
  errors

counters == <<processed, errors>>
closing == <<ctxDone, phase, stagesClosed>>
vars == <<strategy, ctxDone, phase, stagesClosed, caller, input, pc, held,
          accepted, fate, delivered, processed, errors>>

Out == NStages + 1
Nodes == 1 .. Out
Frames == 1 .. MaxFrames
NoFrame == 0

Phases == {"open", "flagged", "cancelled", "signalled"}
NodePcs == {"recv", "process", "forward", "report", "reportFatal", "closing",
            "exited"}

(* "dropped": ErrDropFrame; "failed": a stage error the drop strategy       *)
(* swallowed; "lost": an error that left the frame out of `processed`.      *)
Fates == {"pending", "delivered", "dropped", "failed", "lost"}

(* A goroutine holds a frame exactly while it is busy with one; the output  *)
(* node neither forwards nor looks for ErrFatal.                            *)
HeldWhileBusy ==
  /\ \A n \in Nodes :
       held[n] = NoFrame <=> pc[n] \in {"recv", "closing", "exited"}
  /\ pc[Out] \notin {"forward", "reportFatal"}

(* The types, and that a goroutine and the frame it holds agree. *)
TypeOK ==
  /\ strategy \in Strategies
  /\ ctxDone \in BOOLEAN
  /\ phase \in Phases
  /\ stagesClosed \in 0 .. NStages
  /\ caller \in [Producers -> {"idle", "waiting"}]
  /\ input \in [Nodes -> Seq(Frames)]
  /\ \A n \in Nodes : Len(input[n]) <= Capacity
  /\ pc \in [Nodes -> NodePcs]
  /\ held \in [Nodes -> Frames \union {NoFrame}]
  /\ accepted \in 0 .. MaxFrames
  /\ fate \in [Frames -> Fates]
  /\ delivered \in Seq(Frames)
  /\ processed \in Nat
  /\ errors \in Nat
  /\ HeldWhileBusy

Signalled == phase = "signalled"
Closed == Signalled /\ stagesClosed = NStages
Waiting == {p \in Producers : caller[p] = "waiting"}

(* New + Start: all goroutines are at their select, nothing is queued. *)
Init ==
  /\ strategy \in Strategies
  /\ ctxDone = FALSE
  /\ phase = "open"
  /\ stagesClosed = 0
  /\ caller = [p \in Producers |-> "idle"]
  /\ input = [n \in Nodes |-> << >>]
  /\ pc = [n \in Nodes |-> "recv"]
  /\ held = [n \in Nodes |-> NoFrame]
  /\ accepted = 0
  /\ fate = [f \in Frames |-> "pending"]
  /\ delivered = << >>
  /\ processed = 0
  /\ errors = 0

-----------------------------------------------------------------------------
(* Push.  The closed flag is read first; the select over done, the caller's *)
(* context and the channel comes later.  A call that reads closed = TRUE    *)
(* returns errPipelineClosed and changes nothing.                           *)

(* Fault: Push without the closed check. *)
PushUnchecked(p) ==
  /\ caller[p] = "idle"
  /\ accepted + Cardinality(Waiting) < MaxFrames
  /\ caller' = [caller EXCEPT ![p] = "waiting"]
  /\ UNCHANGED <<strategy, closing, input, pc, held, accepted, fate,
                 delivered, counters>>

PushCheck(p) ==
  /\ caller[p] = "idle"
  /\ accepted + Cardinality(Waiting) < MaxFrames
  /\ phase = "open"
  /\ caller' = [caller EXCEPT ![p] = "waiting"]
  /\ UNCHANGED <<strategy, closing, input, pc, held, accepted, fate,
                 delivered, counters>>

(* Fault: a queue without its bound. *)
PushUnbounded(p) ==
  /\ caller[p] = "waiting"
  /\ accepted < MaxFrames
  /\ caller' = [caller EXCEPT ![p] = "idle"]
  /\ accepted' = accepted + 1
  /\ input' = [input EXCEPT ![1] = Append(@, accepted + 1)]
  /\ UNCHANGED <<strategy, closing, pc, held, fate, delivered, counters>>

PushEnqueue(p) ==
  /\ caller[p] = "waiting"
  /\ accepted < MaxFrames
  /\ Len(input[1]) < Capacity
  /\ caller' = [caller EXCEPT ![p] = "idle"]
  /\ accepted' = accepted + 1
  /\ input' = [input EXCEPT ![1] = Append(@, accepted + 1)]
  /\ UNCHANGED <<strategy, closing, pc, held, fate, delivered, counters>>

(* Fault: the select of Push without its done case. *)
PushIgnoresDone(p) == FALSE /\ caller[p] = "waiting" /\ UNCHANGED vars

PushDone(p) ==
  /\ caller[p] = "waiting"
  /\ Signalled
  /\ caller' = [caller EXCEPT ![p] = "idle"]
  /\ UNCHANGED <<strategy, closing, input, pc, held, accepted, fate,
                 delivered, counters>>

(* The context the caller passed (a cancelled generation, a closed          *)
(* connection) ends the wait at any moment.                                 *)
PushCallerCancelled(p) ==
  /\ caller[p] = "waiting"
  /\ caller' = [caller EXCEPT ![p] = "idle"]
  /\ UNCHANGED <<strategy, closing, input, pc, held, accepted, fate,
                 delivered, counters>>

-----------------------------------------------------------------------------
(* The goroutine of a node. *)

Take(n) ==
  /\ pc[n] = "recv"
  /\ input[n] # << >>
  /\ held' = [held EXCEPT ![n] = Head(input[n])]
  /\ input' = [input EXCEPT ![n] = Tail(@)]
  /\ pc' = [pc EXCEPT ![n] = "process"]
  /\ UNCHANGED <<strategy, closing, caller, accepted, fate, delivered,
                 counters>>

Exit(n) ==
  /\ pc[n] = "recv"
  /\ ctxDone \/ Signalled
  /\ pc' = [pc EXCEPT ![n] = "exited"]
  /\ UNCHANGED <<strategy, closing, caller, input, held, accepted, fate,
                 delivered, counters>>

(* Node n is finished with the frame it holds, which ends as `end`. *)
Settle(n, end) ==
  /\ fate' = [fate EXCEPT ![held[n]] = end]
  /\ held' = [held EXCEPT ![n] = NoFrame]

StageOK(n) ==
  /\ n # Out
  /\ pc[n] = "process"
  /\ pc' = [pc EXCEPT ![n] = "forward"]
  /\ UNCHANGED <<strategy, closing, caller, input, held, accepted, fate,
                 delivered, counters>>

StageDrops(n) ==
  /\ n # Out
  /\ pc[n] = "process"
  /\ Settle(n, "dropped")
  /\ processed' = processed + 1
  /\ pc' = [pc EXCEPT ![n] = "recv"]
  /\ UNCHANGED <<strategy, closing, caller, input, accepted, delivered,
                 errors>>

StageFails(n) ==
  /\ n # Out
  /\ pc[n] = "process"
  /\ errors' = errors + 1
  /\ \E after \in {"report", "reportFatal"} :
       pc' = [pc EXCEPT ![n] = after]
  /\ UNCHANGED <<strategy, closing, caller, input, held, accepted, fate,
                 delivered, processed>>

(* handleError once the error handler has returned. *)
StageCloses(n) ==
  /\ n # Out
  /\ \/ pc[n] = "reportFatal"
     \/ pc[n] = "report" /\ strategy = "close_session"
  /\ Settle(n, "lost")
  /\ pc' = [pc EXCEPT ![n] = "closing"]
  /\ UNCHANGED <<strategy, closing, caller, input, accepted, delivered,
                 counters>>

(* Fault: "continue" tries the frame again, after those that wait. *)
StageRequeues(n) ==
  /\ n # Out
  /\ pc[n] = "report"
  /\ strategy = "continue"
  /\ input' = [input EXCEPT ![n] = Append(@, held[n])]
  /\ held' = [held EXCEPT ![n] = NoFrame]
  /\ pc' = [pc EXCEPT ![n] = "recv"]
  /\ UNCHANGED <<strategy, closing, caller, accepted, fate, delivered,
                 counters>>

(* Fault: "continue" without its return also counts the frame. *)
StageContinuesCounting(n) ==
  /\ n # Out
  /\ pc[n] = "report"
  /\ strategy = "continue"
  /\ pc' = [pc EXCEPT ![n] = "forward"]
  /\ processed' = processed + 1
  /\ UNCHANGED <<strategy, closing, caller, input, held, accepted, fate,
                 delivered, errors>>

StageContinues(n) ==
  /\ n # Out
  /\ pc[n] = "report"
  /\ strategy = "continue"
  /\ pc' = [pc EXCEPT ![n] = "forward"]
  /\ UNCHANGED <<strategy, closing, caller, input, held, accepted, fate,
                 delivered, counters>>

(* Fault: a stage error ends the goroutine of the node. *)
StageGivesUp(n) ==
  /\ n # Out
  /\ pc[n] = "report"
  /\ strategy = "drop"
  /\ Settle(n, "failed")
  /\ processed' = processed + 1
  /\ pc' = [pc EXCEPT ![n] = "exited"]
  /\ UNCHANGED <<strategy, closing, caller, input, accepted, delivered,
                 errors>>

StageSwallows(n) ==
  /\ n # Out
  /\ pc[n] = "report"
  /\ strategy = "drop"
  /\ Settle(n, "failed")
  /\ processed' = processed + 1
  /\ pc' = [pc EXCEPT ![n] = "recv"]
  /\ UNCHANGED <<strategy, closing, caller, input, accepted, delivered,
                 errors>>

(* Fault: a full next queue throws the frame away without a word. *)
ForwardLossy(n) ==
  /\ pc[n] = "forward"
  /\ input' = IF Len(input[n + 1]) < Capacity
              THEN [input EXCEPT ![n + 1] = Append(@, held[n])]
              ELSE input
  /\ held' = [held EXCEPT ![n] = NoFrame]
  /\ pc' = [pc EXCEPT ![n] = "recv"]
  /\ UNCHANGED <<strategy, closing, caller, accepted, fate, delivered,
                 counters>>

(* next.Push(ctx, frame): blocks while the next queue is full. *)
Forward(n) ==
  /\ pc[n] = "forward"
  /\ Len(input[n + 1]) < Capacity
  /\ input' = [input EXCEPT ![n + 1] = Append(@, held[n])]
  /\ held' = [held EXCEPT ![n] = NoFrame]
  /\ pc' = [pc EXCEPT ![n] = "recv"]
  /\ UNCHANGED <<strategy, closing, caller, accepted, fate, delivered,
                 counters>>

(* Fault: the select of stageNode.Push with the channel alone. *)
ForwardInsists(n) == FALSE /\ pc[n] = "forward" /\ UNCHANGED vars

ForwardRefused(n) ==
  /\ pc[n] = "forward"
  /\ ctxDone \/ Signalled
  /\ Settle(n, "lost")
  /\ errors' = errors + 1
  /\ pc' = [pc EXCEPT ![n] = "recv"]
  /\ UNCHANGED <<strategy, closing, caller, input, accepted, delivered,
                 processed>>

(* outputNode.send; a nil output counts the frame as processed, too. *)
SendOK ==
  /\ pc[Out] = "process"
  /\ Settle(Out, "delivered")
  /\ delivered' = Append(delivered, held[Out])
  /\ processed' = processed + 1
  /\ pc' = [pc EXCEPT ![Out] = "recv"]
  /\ UNCHANGED <<strategy, closing, caller, input, accepted, errors>>

SendFails ==
  /\ pc[Out] = "process"
  /\ errors' = errors + 1
  /\ pc' = [pc EXCEPT ![Out] = "report"]
  /\ UNCHANGED <<strategy, closing, caller, input, held, accepted, fate,
                 delivered, processed>>

SendReported ==
  /\ pc[Out] = "report"
  /\ Settle(Out, "lost")
  /\ pc' = [pc EXCEPT ![Out] =
              IF strategy = "close_session" THEN "closing" ELSE "recv"]
  /\ UNCHANGED <<strategy, closing, caller, input, accepted, delivered,
                 counters>>

-----------------------------------------------------------------------------
(* Close.  once.Do lets one caller through; a second caller waits for the   *)
(* first to finish.  Close never waits for the node goroutines.             *)

(* A node calls Close and is the first. *)
NodeCloseBegin(n) ==
  /\ pc[n] = "closing"
  /\ phase = "open"
  /\ phase' = "flagged"
  /\ UNCHANGED <<strategy, ctxDone, stagesClosed, caller, input, pc, held,
                 accepted, fate, delivered, counters>>

NodeCloseReturn(n) ==
  /\ pc[n] = "closing"
  /\ Closed
  /\ pc' = [pc EXCEPT ![n] = "recv"]
  /\ UNCHANGED <<strategy, closing, caller, input, held, accepted, fate,
                 delivered, counters>>

(* Session.Close: it cancels the parent context, then closes the Controller *)
(* and only then the pipelines.                                             *)
SessionCancel ==
  /\ ~ctxDone
  /\ ctxDone' = TRUE
  /\ UNCHANGED <<strategy, phase, stagesClosed, caller, input, pc, held,
                 accepted, fate, delivered, counters>>

SessionCloseBegin ==
  /\ ctxDone
  /\ phase = "open"
  /\ phase' = "flagged"
  /\ UNCHANGED <<strategy, ctxDone, stagesClosed, caller, input, pc, held,
                 accepted, fate, delivered, counters>>

CloseCancel ==
  /\ phase = "flagged"
  /\ phase' = "cancelled"
  /\ ctxDone' = TRUE
  /\ UNCHANGED <<strategy, stagesClosed, caller, input, pc, held, accepted,
                 fate, delivered, counters>>

CloseSignal ==
  /\ phase = "cancelled"
  /\ phase' = "signalled"
  /\ UNCHANGED <<strategy, ctxDone, stagesClosed, caller, input, pc, held,
                 accepted, fate, delivered, counters>>

CloseStage ==
  /\ Signalled
  /\ stagesClosed < NStages
  /\ stagesClosed' = stagesClosed + 1
  /\ UNCHANGED <<strategy, ctxDone, phase, caller, input, pc, held, accepted,
                 fate, delivered, counters>>

CloseNext ==
  \/ SessionCloseBegin
  \/ CloseCancel
  \/ CloseSignal
  \/ CloseStage

-----------------------------------------------------------------------------
StageStep(n) ==
  \/ StageOK(n)
  \/ StageDrops(n)
  \/ StageFails(n)
  \/ StageCloses(n)
  \/ StageContinues(n)
  \/ StageSwallows(n)

OutputStep ==
  \/ SendOK
  \/ SendFails
  \/ SendReported

NodeStep(n) ==
  \/ Take(n)
  \/ Exit(n)
  \/ StageStep(n)
  \/ Forward(n)
  \/ ForwardRefused(n)
  \/ NodeCloseBegin(n)
  \/ NodeCloseReturn(n)

PushStep(p) ==
  \/ PushCheck(p)
  \/ PushEnqueue(p)
  \/ PushDone(p)
  \/ PushCallerCancelled(p)

Next ==
  \/ \E p \in Producers : PushStep(p)
  \/ \E n \in Nodes : NodeStep(n)
  \/ OutputStep
  \/ SessionCancel
  \/ CloseNext

Spec == Init /\ [][Next]_vars

(* Every goroutine of a node and the closing one keep running: Process,     *)
(* SendAudio and the error handler return (websocket writes carry a         *)
(* timeout).  Session.Close, once it cancelled the context, goes on to the  *)
(* pipelines.  Senders blocked on a Go channel wait in a FIFO, so a Push    *)
(* whose channel has room again and again gets its turn.  Nobody has to     *)
(* close the pipeline, to start a Push or to cancel one.                    *)
Fairness ==
  /\ \A n \in Nodes : WF_vars(NodeStep(n))
  /\ WF_vars(OutputStep)
  /\ WF_vars(CloseNext)
  /\ \A p \in Producers : SF_vars(PushEnqueue(p)) /\ WF_vars(PushDone(p))

FairSpec == Spec /\ Fairness

-----------------------------------------------------------------------------
(* Properties. *)

(* The frames at node n: the one it works on and the ones in its queue. *)
Queued(n) == {input[n][i] : i \in DOMAIN input[n]}
At(n) == Queued(n) \union ({held[n]} \ {NoFrame})
InFlight == UNION {At(n) : n \in Nodes}

(* Every queue holds its frames in the order of acceptance. *)
QueuesSorted ==
  \A n \in Nodes : \A i, j \in DOMAIN input[n] :
     i < j => input[n][i] < input[n][j]

(* The frame a node works on is older than all that wait in its queue. *)
HeldIsOldest ==
  \A n \in Nodes : held[n] # NoFrame =>
     \A f \in Queued(n) : held[n] < f

(* A frame further down the pipeline is older than one further up. *)
DownstreamIsOlder ==
  \A m, n \in Nodes : m < n => \A f \in At(m), g \in At(n) : g < f

(* What was delivered is in order and older than all that is on its way. *)
DeliveredInOrder ==
  /\ \A i, j \in DOMAIN delivered : i < j => delivered[i] < delivered[j]
  /\ \A i \in DOMAIN delivered : \A f \in InFlight : delivered[i] < f

(* No frame is ahead of its acceptance. *)
OnlyAccepted ==
  /\ \A f \in InFlight : f <= accepted
  /\ \A i \in DOMAIN delivered : delivered[i] <= accepted

(* Queues, goroutines that overlap, errors, drops and Close in between: the *)
(* frames still leave the pipeline in the order in which Push took them     *)
(* (the per-stage goroutines of queue.go:224-256 and 327-340).              *)
FifoOrder ==
  /\ QueuesSorted
  /\ HeldIsOldest
  /\ DownstreamIsOlder
  /\ DeliveredInOrder
  /\ OnlyAccepted

Pending == {f \in 1 .. accepted : fate[f] = "pending"}
Settled(ends) == {f \in Frames : fate[f] \in ends}

(* No error path loses track of a frame or leaves it in two places: the     *)
(* accepted frames that are not settled are exactly those at the nodes, and *)
(* SendAudio took exactly those recorded as delivered (process, handleError *)
(* and send, queue.go:245-287 and 348-370).                                 *)
Conservation ==
  /\ InFlight = Pending
  /\ {delivered[i] : i \in DOMAIN delivered} = Settled({"delivered"})
  /\ Settled(Fates \ {"pending"}) \subseteq 1 .. accepted

(* Stats can be read as what it says: `processed` counts every frame that   *)
(* was delivered, dropped or swallowed, once; `errors` counts every frame   *)
(* that went wrong once, except that under "continue" a frame may fail      *)
(* again at every node it passes (queue.go:253, 261, 264, 286, 350-369).    *)
Accounting ==
  LET reporting == {n \in Nodes : pc[n] \in {"report", "reportFatal"}}
      wrong == Cardinality(Settled({"failed", "lost"})) IN
  /\ processed = Cardinality(Settled({"delivered", "dropped", "failed"}))
  /\ errors >= wrong + Cardinality(reporting)
  /\ strategy # "continue" => errors = wrong + Cardinality(reporting)
  /\ errors <= accepted * (NStages + 1)

(* The pipeline keeps the promise of a conduit: order, at most once, no     *)
(* call let in after Close has set the flag (queue.go:105-132).             *)
Conduit == INSTANCE FrameConduit WITH
  open <- phase = "open",
  calls <- Waiting,
  pending <- Pending

ConduitSpec == Conduit!Spec

(* Backpressure is no deadlock: while nobody cancels, every accepted frame  *)
(* is settled in the end, though every hop may block on a full queue.       *)
EverySettled ==
  \A f \in Frames :
    f <= accepted ~> fate[f] # "pending" \/ ctxDone \/ phase # "open"

(* A caller blocked in Push on a full queue is always released, by room in  *)
(* the queue or by Close.  Between SessionCancel and CloseSignal the nodes  *)
(* are gone, so the release then depends on Close getting there.            *)
PushReturns ==
  \A p \in Producers : caller[p] = "waiting" ~> caller[p] = "idle"

(* Close comes to its end even when several nodes and the Session close at  *)
(* once, and then every goroutine of the pipeline ends: none is left        *)
(* blocked on a full queue or inside once.Do.                               *)
CloseEndsGoroutines ==
  ctxDone \/ phase # "open" ~> Closed /\ \A n \in Nodes : pc[n] = "exited"

=============================================================================
