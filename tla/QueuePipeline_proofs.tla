------------------------ MODULE QueuePipeline_proofs ------------------------
(* Proofs about QueuePipeline, for every number of stages, queue size, set  *)
(* of producers and bound on the frames.                                    *)
EXTENDS QueuePipeline, TLAPS

(* The node numbers and the frame numbers are what they look like. *)
LEMMA NodeFacts ==
  /\ Out \in Nat
  /\ Out \in Nodes
  /\ 1 \in Nodes
  /\ \A n \in Nodes : n \in Nat /\ n >= 1 /\ n <= Out
  /\ \A n \in Nodes : n # Out => n + 1 \in Nodes
  /\ \A f \in Frames : f \in Nat /\ f >= 1 /\ f # NoFrame
BY QPAssumption DEF Out, Nodes, Frames, NoFrame

LEMMA InitTypeOK == Init => TypeOK
<1> SUFFICES ASSUME Init PROVE TypeOK
  OBVIOUS
<1>1. input \in [Nodes -> Seq(Frames)] /\ delivered \in Seq(Frames)
  BY DEF Init
<1>2. \A n \in Nodes : Len(input[n]) <= Capacity
  BY QPAssumption DEF Init
<1>3. HeldWhileBusy
  BY NodeFacts DEF Init, HeldWhileBusy
<1>4. /\ accepted \in 0 .. MaxFrames /\ stagesClosed \in 0 .. NStages
      /\ processed \in Nat /\ errors \in Nat
  BY QPAssumption DEF Init
<1>5. /\ fate \in [Frames -> Fates]
      /\ pc \in [Nodes -> NodePcs]
      /\ held \in [Nodes -> Frames \union {NoFrame}]
      /\ caller \in [Producers -> {"idle", "waiting"}]
      /\ phase \in Phases
  BY DEF Init, Phases, NodePcs, Fates
<1> QED
  BY <1>1, <1>2, <1>3, <1>4, <1>5 DEF Init, TypeOK

(* Settling a frame stores a fate and frees the node. *)
LEMMA SettleTypes ==
  ASSUME TypeOK, NEW n \in Nodes, NEW end \in Fates, Settle(n, end)
  PROVE  /\ fate' \in [Frames -> Fates]
         /\ held' \in [Nodes -> Frames \union {NoFrame}]
         /\ held'[n] = NoFrame
         /\ \A m \in Nodes : m # n => held'[m] = held[m]
BY DEF Settle, TypeOK

(* A node that settles its frame and goes back to its select. *)
LEMMA SettleTypeOK ==
  ASSUME TypeOK, NEW n \in Nodes, NEW end \in Fates, Settle(n, end),
         pc' = [pc EXCEPT ![n] = "recv"],
         processed' \in Nat, errors' \in Nat,
         UNCHANGED <<strategy, closing, caller, input, accepted, delivered>>
  PROVE  TypeOK'
<1>1. /\ pc' \in [Nodes -> NodePcs]
      /\ pc'[n] = "recv" /\ \A m \in Nodes : m # n => pc'[m] = pc[m]
  BY DEF TypeOK, NodePcs
<1>2. HeldWhileBusy'
  <2>1. \A m \in Nodes :
          held'[m] = NoFrame <=> pc'[m] \in {"recv", "closing", "exited"}
    BY <1>1, SettleTypes DEF TypeOK, HeldWhileBusy
  <2>2. pc'[Out] \notin {"forward", "reportFatal"}
    BY <1>1, NodeFacts DEF TypeOK, HeldWhileBusy
  <2> QED
    BY <2>1, <2>2 DEF HeldWhileBusy
<1> QED
  BY <1>1, <1>2, SettleTypes DEF TypeOK, closing

(* A step that touches only callers, Close and contexts keeps the types. *)
LEMMA TypeOKQuiet ==
  ASSUME TypeOK, UNCHANGED <<strategy, input, pc, held, accepted, fate,
                             delivered, counters>>,
         ctxDone' \in BOOLEAN, phase' \in Phases,
         stagesClosed' \in 0 .. NStages,
         caller' \in [Producers -> {"idle", "waiting"}]
  PROVE  TypeOK'
BY DEF TypeOK, HeldWhileBusy, counters

(* Every step keeps the types: queues stay within their capacity and a      *)
(* goroutine holds a frame exactly while it is busy.                        *)
LEMMA NextTypeOK == TypeOK /\ [Next]_vars => TypeOK'
<1> SUFFICES ASSUME TypeOK, [Next]_vars PROVE TypeOK'
  OBVIOUS
<1> USE NodeFacts, QPAssumption
<1>1. ASSUME NEW p \in Producers, PushStep(p) PROVE TypeOK'
  <2>1. CASE PushCheck(p)
    BY <2>1, TypeOKQuiet DEF PushCheck, TypeOK, closing
  <2>2. CASE PushEnqueue(p)
    <3>1. accepted + 1 \in Frames
      BY <2>2 DEF PushEnqueue, TypeOK, Frames
    <3>2. /\ input' \in [Nodes -> Seq(Frames)]
          /\ \A n \in Nodes : Len(input'[n]) <= Capacity
      BY <2>2, <3>1 DEF PushEnqueue, TypeOK
    <3>3. accepted' \in 0 .. MaxFrames
      BY <2>2 DEF PushEnqueue, TypeOK
    <3> QED
      BY <2>2, <3>2, <3>3
      DEF PushEnqueue, TypeOK, HeldWhileBusy, closing, counters
  <2>3. CASE PushDone(p)
    BY <2>3, TypeOKQuiet DEF PushDone, TypeOK, closing
  <2>4. CASE PushCallerCancelled(p)
    BY <2>4, TypeOKQuiet DEF PushCallerCancelled, TypeOK, closing
  <2> QED
    BY <1>1, <2>1, <2>2, <2>3, <2>4 DEF PushStep
<1>2. ASSUME NEW n \in Nodes, NodeStep(n) PROVE TypeOK'
  <2>1. CASE Take(n)
    <3>1. /\ Head(input[n]) \in Frames
          /\ Tail(input[n]) \in Seq(Frames)
          /\ Len(Tail(input[n])) <= Capacity
      BY <2>1 DEF Take, TypeOK
    <3> QED
      BY <2>1, <3>1
      DEF Take, TypeOK, HeldWhileBusy, closing, counters, NodePcs
  <2>2. CASE Exit(n)
    BY <2>2 DEF Exit, TypeOK, HeldWhileBusy, closing, counters, NodePcs
  <2>3. CASE StageOK(n)
    BY <2>3 DEF StageOK, TypeOK, HeldWhileBusy, closing, counters, NodePcs
  <2>4. CASE StageDrops(n)
    <3>1. processed' \in Nat /\ errors' \in Nat
      BY <2>4 DEF StageDrops, TypeOK
    <3> QED
      BY <2>4, <3>1, SettleTypeOK DEF StageDrops, Fates
  <2>5. CASE StageFails(n)
    <3>1. PICK after \in {"report", "reportFatal"} :
            pc' = [pc EXCEPT ![n] = after]
      BY <2>5 DEF StageFails
    <3>2. errors' \in Nat /\ pc' \in [Nodes -> NodePcs]
      BY <2>5, <3>1 DEF StageFails, TypeOK, NodePcs
    <3>3. pc'[n] = after /\ \A m \in Nodes : m # n => pc'[m] = pc[m]
      BY <3>1 DEF TypeOK
    <3>4. HeldWhileBusy'
      BY <2>5, <3>3 DEF StageFails, TypeOK, HeldWhileBusy
    <3> QED
      BY <2>5, <3>2, <3>4 DEF StageFails, TypeOK, closing
  <2>6. CASE StageCloses(n)
    BY <2>6 DEF StageCloses, Settle, TypeOK, HeldWhileBusy, closing,
                counters, NodePcs, Fates
  <2>7. CASE StageContinues(n)
    BY <2>7 DEF StageContinues, TypeOK, HeldWhileBusy, closing, counters,
                NodePcs
  <2>8. CASE StageSwallows(n)
    <3>1. processed' \in Nat /\ errors' \in Nat
      BY <2>8 DEF StageSwallows, TypeOK
    <3> QED
      BY <2>8, <3>1, SettleTypeOK DEF StageSwallows, Fates
  <2>9. CASE Forward(n)
    <3>1. n # Out /\ n + 1 \in Nodes /\ held[n] \in Frames
      BY <2>9 DEF Forward, TypeOK, HeldWhileBusy
    <3>2. /\ Append(input[n + 1], held[n]) \in Seq(Frames)
          /\ Len(Append(input[n + 1], held[n])) <= Capacity
      BY <2>9, <3>1 DEF Forward, TypeOK
    <3> QED
      BY <2>9, <3>1, <3>2
      DEF Forward, TypeOK, HeldWhileBusy, closing, counters, NodePcs
  <2>10. CASE ForwardRefused(n)
    <3>1. processed' \in Nat /\ errors' \in Nat
      BY <2>10 DEF ForwardRefused, TypeOK
    <3> QED
      BY <2>10, <3>1, SettleTypeOK DEF ForwardRefused, Fates
  <2>11. CASE NodeCloseBegin(n)
    BY <2>11, TypeOKQuiet DEF NodeCloseBegin, TypeOK, Phases
  <2>12. CASE NodeCloseReturn(n)
    BY <2>12 DEF NodeCloseReturn, TypeOK, HeldWhileBusy, closing, counters,
                 NodePcs
  <2> QED
    BY <1>2, <2>1, <2>2, <2>3, <2>4, <2>5, <2>6, <2>7, <2>8, <2>9, <2>10,
       <2>11, <2>12 DEF NodeStep, StageStep
<1>3. CASE OutputStep
  <2>1. CASE SendOK
    <3>1. held[Out] \in Frames
      BY <2>1 DEF SendOK, TypeOK, HeldWhileBusy
    <3> QED
      BY <2>1, <3>1 DEF SendOK, Settle, TypeOK, HeldWhileBusy, closing,
                        NodePcs, Fates
  <2>2. CASE SendFails
    BY <2>2 DEF SendFails, TypeOK, HeldWhileBusy, closing, NodePcs
  <2>3. CASE SendReported
    BY <2>3 DEF SendReported, Settle, TypeOK, HeldWhileBusy, closing,
                counters, NodePcs, Fates
  <2> QED
    BY <1>3, <2>1, <2>2, <2>3 DEF OutputStep
<1>4. CASE SessionCancel
  BY <1>4, TypeOKQuiet DEF SessionCancel, TypeOK
<1>5. CASE CloseNext
  <2>1. CASE SessionCloseBegin
    BY <2>1, TypeOKQuiet DEF SessionCloseBegin, TypeOK, Phases
  <2>2. CASE CloseCancel
    BY <2>2, TypeOKQuiet DEF CloseCancel, TypeOK, Phases
  <2>3. CASE CloseSignal
    BY <2>3, TypeOKQuiet DEF CloseSignal, TypeOK, Phases
  <2>4. CASE CloseStage
    BY <2>4, TypeOKQuiet DEF CloseStage, TypeOK, Phases
  <2> QED
    BY <1>5, <2>1, <2>2, <2>3, <2>4 DEF CloseNext
<1>6. CASE UNCHANGED vars
  BY <1>6 DEF vars, TypeOK, HeldWhileBusy
<1> QED
  BY <1>1, <1>2, <1>3, <1>4, <1>5, <1>6 DEF Next

(* TypeOK holds in every reachable state of every pipeline. *)
THEOREM TypeCorrect == Spec => []TypeOK
BY InitTypeOK, NextTypeOK, PTL DEF Spec

-----------------------------------------------------------------------------
(* Order.  FifoOrder is inductive together with TypeOK.  Most steps add no  *)
(* frame anywhere: they at most take one out of a node's hands.  The four   *)
(* that move a frame (Push, Take, Forward, SendAudio) have a lemma each.    *)

(* What the queue of a node holds is a set of frames, and so are the rest.  *)
LEMMA PlacesTyped ==
  ASSUME TypeOK
  PROVE  /\ \A n \in Nodes : At(n) \subseteq Frames
         /\ \A n \in Nodes : Queued(n) \subseteq Frames
         /\ \A n \in Nodes : Queued(n) \subseteq At(n)
         /\ \A n \in Nodes : held[n] # NoFrame => held[n] \in At(n)
         /\ InFlight \subseteq Frames
<1>1. \A n \in Nodes : Queued(n) \subseteq Frames
  BY DEF TypeOK, Queued
<1>2. \A n \in Nodes : At(n) \subseteq Frames
  BY <1>1 DEF TypeOK, At
<1> QED
  BY <1>1, <1>2 DEF At, InFlight

(* The tail of a queue is the queue without its head, moved up by one. *)
LEMMA TailShifts ==
  ASSUME NEW S, NEW q \in Seq(S), q # << >>
  PROVE  /\ 1 \in DOMAIN q
         /\ \A i \in DOMAIN Tail(q) :
              i + 1 \in DOMAIN q /\ Tail(q)[i] = q[i + 1]
         /\ \A i \in DOMAIN q : i # 1 =>
              i - 1 \in DOMAIN Tail(q) /\ Tail(q)[i - 1] = q[i]
<1>1. /\ Len(q) \in Nat \ {0} /\ DOMAIN q = 1 .. Len(q)
      /\ Tail(q) \in Seq(S) /\ Len(Tail(q)) = Len(q) - 1
      /\ \A i \in 1 .. Len(q) - 1 : Tail(q)[i] = q[i + 1]
  OBVIOUS
<1>2. DOMAIN Tail(q) = 1 .. Len(q) - 1
  BY <1>1
<1> QED
  BY <1>1, <1>2

(* A queue with a frame appended. *)
LEMMA AppendGrows ==
  ASSUME NEW S, NEW q \in Seq(S), NEW e \in S
  PROVE  /\ DOMAIN Append(q, e) = (DOMAIN q) \union {Len(q) + 1}
         /\ \A i \in DOMAIN q : Append(q, e)[i] = q[i]
         /\ Append(q, e)[Len(q) + 1] = e
<1>1. /\ Len(q) \in Nat /\ DOMAIN q = 1 .. Len(q)
      /\ Append(q, e) \in Seq(S) /\ Len(Append(q, e)) = Len(q) + 1
      /\ \A i \in 1 .. Len(q) : Append(q, e)[i] = q[i]
      /\ Append(q, e)[Len(q) + 1] = e
  OBVIOUS
<1>2. DOMAIN Append(q, e) = 1 .. Len(q) + 1
  BY <1>1
<1>3. 1 .. Len(q) + 1 = (1 .. Len(q)) \union {Len(q) + 1}
  BY <1>1
<1> QED
  BY <1>1, <1>2, <1>3

(* Taking frames out of the goroutines' hands disturbs no order. *)
LEMMA FifoShrinks ==
  ASSUME TypeOK, FifoOrder,
         accepted' \in Nat, accepted' >= accepted,
         delivered' = delivered, input' = input,
         \A n \in Nodes : held'[n] \in {held[n], NoFrame}
  PROVE  FifoOrder'
<1> USE NodeFacts
<1>1. \A n \in Nodes : Queued(n)' = Queued(n)
  BY DEF Queued
<1>2. \A n \in Nodes : At(n)' \subseteq At(n)
  BY <1>1 DEF At
<1>3. InFlight' \subseteq InFlight
  BY <1>2 DEF InFlight
<1>4. QueuesSorted'
  BY DEF FifoOrder, QueuesSorted
<1>5. HeldIsOldest'
  BY <1>1 DEF FifoOrder, HeldIsOldest
<1>6. DownstreamIsOlder'
  BY <1>2 DEF FifoOrder, DownstreamIsOlder
<1>7. DeliveredInOrder'
  BY <1>3 DEF FifoOrder, DeliveredInOrder
<1>8. OnlyAccepted'
  <2>1. InFlight \subseteq Nat /\ accepted \in Nat
    BY PlacesTyped DEF TypeOK
  <2>2. \A i \in DOMAIN delivered : delivered[i] \in Nat
    BY DEF TypeOK
  <2> QED
    BY <1>3, <2>1, <2>2 DEF FifoOrder, OnlyAccepted
<1> QED
  BY <1>4, <1>5, <1>6, <1>7, <1>8 DEF FifoOrder

(* A new frame is younger than everything accepted before. *)
LEMMA FifoEnqueue ==
  ASSUME TypeOK, TypeOK', FifoOrder, NEW p \in Producers, PushEnqueue(p)
  PROVE  FifoOrder'
<1> USE NodeFacts
<1> DEFINE new == accepted + 1
<1>1. /\ accepted \in Nat
      /\ input' = [input EXCEPT ![1] = Append(@, new)]
      /\ input[1] \in Seq(Frames)
      /\ held' = held /\ delivered' = delivered /\ accepted' = new
      /\ new \in Frames
  BY DEF PushEnqueue, TypeOK, Frames
<1>2. /\ \A n \in Nodes : n # 1 => input'[n] = input[n]
      /\ input'[1] = Append(input[1], new)
  BY <1>1 DEF TypeOK
<1>3. /\ \A n \in Nodes : n # 1 => Queued(n)' = Queued(n)
      /\ Queued(1)' = Queued(1) \union {new}
  <2>1. \A n \in Nodes : n # 1 => Queued(n)' = Queued(n)
    BY <1>2 DEF Queued
  <2>2. /\ DOMAIN input'[1] = (DOMAIN input[1]) \union {Len(input[1]) + 1}
        /\ \A i \in DOMAIN input[1] : input'[1][i] = input[1][i]
        /\ input'[1][Len(input[1]) + 1] = new
    BY <1>1, <1>2, AppendGrows
  <2>3. Queued(1)' = Queued(1) \union {new}
    BY <2>2 DEF Queued
  <2> QED
    BY <2>1, <2>3
<1>4. \A n \in Nodes : \A f \in At(n)' : f \in At(n) \/ (n = 1 /\ f = new)
  <2> SUFFICES ASSUME NEW n \in Nodes, NEW f \in At(n)'
               PROVE  f \in At(n) \/ (n = 1 /\ f = new)
    OBVIOUS
  <2>1. held'[n] = held[n]
    BY <1>1
  <2>2. CASE n # 1
    BY <1>3, <2>1, <2>2 DEF At
  <2>3. CASE n = 1
    <3>1. f \in Queued(1)' \/ (f = held[1] /\ f # NoFrame)
      BY <2>1, <2>3 DEF At, Queued
    <3>2. f \in Queued(1) \/ f = new \/ (f = held[1] /\ f # NoFrame)
      BY <1>3, <3>1
    <3> QED
      BY <2>3, <3>2 DEF At
  <2> QED
    BY <2>2, <2>3
<1>5. InFlight' \subseteq InFlight \union {new}
  BY <1>4 DEF InFlight
<1>6. /\ \A f \in InFlight : f \in Nat /\ f < new
      /\ \A i \in DOMAIN delivered : delivered[i] \in Nat /\ delivered[i] < new
  <2>1. \A i \in DOMAIN delivered : delivered[i] \in Nat
    BY DEF TypeOK
  <2>2. \A f \in InFlight : f \in Nat
    BY PlacesTyped
  <2> QED
    BY <1>1, <2>1, <2>2 DEF FifoOrder, OnlyAccepted
<1>7. QueuesSorted'
  <2> SUFFICES ASSUME NEW n \in Nodes,
                      NEW i \in DOMAIN input'[n], NEW j \in DOMAIN input'[n],
                      i < j
               PROVE  input'[n][i] < input'[n][j]
    BY DEF QueuesSorted
  <2>1. CASE n # 1
    BY <2>1, <1>2 DEF FifoOrder, QueuesSorted
  <2>2. CASE n = 1
    <3>1. /\ i \in Nat /\ j \in Nat /\ i >= 1 /\ j <= Len(input[1]) + 1
          /\ i \in DOMAIN input[1]
          /\ input'[1][i] = input[1][i]
      BY <1>1, <1>2, <2>2
    <3>2. input[1][i] \in InFlight
      BY <3>1 DEF InFlight, At, Queued
    <3>3. CASE j = Len(input[1]) + 1
      BY <1>1, <1>2, <1>6, <2>2, <3>1, <3>2, <3>3
    <3>4. CASE j # Len(input[1]) + 1
      <4>1. j \in DOMAIN input[1] /\ input'[1][j] = input[1][j]
        BY <1>1, <1>2, <2>2, <3>1, <3>4
      <4> QED
        BY <2>2, <3>1, <4>1 DEF FifoOrder, QueuesSorted
    <3> QED
      BY <3>3, <3>4
  <2> QED
    BY <2>1, <2>2
<1>8. HeldIsOldest'
  <2>1. \A n \in Nodes : held[n] # NoFrame => held[n] \in InFlight
    BY DEF InFlight, At
  <2> QED
    BY <1>1, <1>3, <1>6, <2>1 DEF FifoOrder, HeldIsOldest
<1>9. DownstreamIsOlder'
  <2>1. \A n \in Nodes : At(n) \subseteq InFlight
    BY DEF InFlight
  <2> QED
    BY <1>4, <1>6, <2>1 DEF FifoOrder, DownstreamIsOlder
<1>10. DeliveredInOrder'
  BY <1>1, <1>5, <1>6 DEF FifoOrder, DeliveredInOrder
<1>11. OnlyAccepted'
  <2>1. \A f \in InFlight' : f <= new
    BY <1>1, <1>5, <1>6
  <2>2. \A i \in DOMAIN delivered : delivered[i] <= new
    BY <1>1, <1>6
  <2> QED
    BY <1>1, <2>1, <2>2 DEF OnlyAccepted
<1> QED
  BY <1>7, <1>8, <1>9, <1>10, <1>11 DEF FifoOrder

(* Taking the head of the queue keeps the frames of the node the same. *)
LEMMA FifoTake ==
  ASSUME TypeOK, FifoOrder, NEW n \in Nodes, Take(n)
  PROVE  FifoOrder'
<1> USE NodeFacts
<1>1. /\ input[n] \in Seq(Frames) /\ input[n] # << >>
      /\ input'[n] = Tail(input[n])
      /\ \A m \in Nodes : m # n => input'[m] = input[m]
      /\ held[n] = NoFrame /\ held'[n] = input[n][1]
      /\ \A m \in Nodes : m # n => held'[m] = held[m]
      /\ delivered' = delivered /\ accepted' = accepted
  BY DEF Take, TypeOK, HeldWhileBusy
<1>2. /\ 1 \in DOMAIN input[n]
      /\ \A i \in DOMAIN input'[n] :
           /\ i \in Nat /\ i >= 1
           /\ i + 1 \in DOMAIN input[n]
           /\ input'[n][i] = input[n][i + 1]
  BY <1>1, TailShifts
<1>3. \A m \in Nodes : m # n => Queued(m)' = Queued(m)
  BY <1>1 DEF Queued
<1>4. Queued(n)' \subseteq Queued(n)
  BY <1>2 DEF Queued
<1>5. held'[n] \in Queued(n)
  BY <1>1, <1>2 DEF Queued
<1>6. \A m \in Nodes : At(m)' \subseteq At(m)
  BY <1>1, <1>3, <1>4, <1>5 DEF At
<1>7. InFlight' \subseteq InFlight
  BY <1>6 DEF InFlight
<1>8. QueuesSorted'
  <2> SUFFICES ASSUME NEW m \in Nodes,
                      NEW i \in DOMAIN input'[m], NEW j \in DOMAIN input'[m],
                      i < j
               PROVE  input'[m][i] < input'[m][j]
    BY DEF QueuesSorted
  <2>1. CASE m # n
    BY <1>1, <2>1 DEF FifoOrder, QueuesSorted
  <2>2. CASE m = n
    <3>1. i \in Nat /\ j \in Nat /\ i + 1 < j + 1
      BY <1>2, <2>2
    <3> QED
      BY <1>2, <2>2, <3>1 DEF FifoOrder, QueuesSorted
  <2> QED
    BY <2>1, <2>2
<1>9. HeldIsOldest'
  <2> SUFFICES ASSUME NEW m \in Nodes, held'[m] # NoFrame,
                      NEW f \in Queued(m)'
               PROVE  held'[m] < f
    BY DEF HeldIsOldest
  <2>1. CASE m # n
    BY <1>1, <1>3, <2>1 DEF FifoOrder, HeldIsOldest
  <2>2. CASE m = n
    <3>1. PICK i \in DOMAIN input'[n] : f = input'[n][i]
      BY <2>2 DEF Queued
    <3>2. 1 < i + 1 /\ i + 1 \in DOMAIN input[n] /\ f = input[n][i + 1]
      BY <1>2, <3>1
    <3> QED
      BY <1>1, <1>2, <2>2, <3>2 DEF FifoOrder, QueuesSorted
  <2> QED
    BY <2>1, <2>2
<1>10. DownstreamIsOlder'
  BY <1>6 DEF FifoOrder, DownstreamIsOlder
<1>11. DeliveredInOrder' /\ OnlyAccepted'
  BY <1>1, <1>7 DEF FifoOrder, DeliveredInOrder, OnlyAccepted
<1> QED
  BY <1>8, <1>9, <1>10, <1>11 DEF FifoOrder

(* A forwarded frame is the oldest of its node and joins older ones. *)
LEMMA FifoForward ==
  ASSUME TypeOK, FifoOrder, NEW n \in Nodes, Forward(n)
  PROVE  FifoOrder'
<1> USE NodeFacts
<1> DEFINE f0 == held[n]
<1>1. /\ n # Out /\ n + 1 \in Nodes /\ n \in Nat
      /\ f0 \in Frames /\ f0 # NoFrame
  BY DEF Forward, TypeOK, HeldWhileBusy
<1>2. /\ input[n + 1] \in Seq(Frames)
      /\ input'[n + 1] = Append(input[n + 1], f0)
      /\ \A m \in Nodes : m # n + 1 => input'[m] = input[m]
      /\ held'[n] = NoFrame
      /\ \A m \in Nodes : m # n => held'[m] = held[m]
      /\ delivered' = delivered /\ accepted' = accepted
  BY <1>1 DEF Forward, TypeOK
<1>3. /\ DOMAIN input'[n + 1] =
           (DOMAIN input[n + 1]) \union {Len(input[n + 1]) + 1}
      /\ \A i \in DOMAIN input[n + 1] : input'[n + 1][i] = input[n + 1][i]
      /\ input'[n + 1][Len(input[n + 1]) + 1] = f0
  BY <1>1, <1>2, AppendGrows
<1>4. /\ \A m \in Nodes : m # n + 1 => Queued(m)' = Queued(m)
      /\ Queued(n + 1)' = Queued(n + 1) \union {f0}
  <2>1. \A m \in Nodes : m # n + 1 => Queued(m)' = Queued(m)
    BY <1>2 DEF Queued
  <2>2. Queued(n + 1)' = Queued(n + 1) \union {f0}
    BY <1>3 DEF Queued
  <2> QED
    BY <2>1, <2>2
<1>5. f0 \in At(n) /\ \A g \in At(n + 1) : g < f0
  <2>1. f0 \in At(n)
    BY <1>1, PlacesTyped
  <2>2. n < n + 1
    BY <1>1
  <2> QED
    BY <1>1, <2>1, <2>2 DEF FifoOrder, DownstreamIsOlder
<1>6. /\ \A m \in Nodes : m # n /\ m # n + 1 => At(m)' = At(m)
      /\ At(n)' = Queued(n)
      /\ At(n + 1)' = At(n + 1) \union {f0}
  <2>1. n # n + 1
    BY <1>1
  <2> QED
    BY <1>1, <1>2, <1>4, <2>1 DEF At
<1>7. InFlight' \subseteq InFlight
  <2>1. Queued(n) \subseteq At(n)
    BY DEF At
  <2> QED
    BY <1>1, <1>5, <1>6, <2>1 DEF InFlight
<1>8. QueuesSorted'
  <2> SUFFICES ASSUME NEW m \in Nodes,
                      NEW i \in DOMAIN input'[m], NEW j \in DOMAIN input'[m],
                      i < j
               PROVE  input'[m][i] < input'[m][j]
    BY DEF QueuesSorted
  <2>1. CASE m # n + 1
    BY <1>2, <2>1 DEF FifoOrder, QueuesSorted
  <2>2. CASE m = n + 1
    <3>1. /\ i \in DOMAIN input[n + 1]
          /\ input'[n + 1][i] = input[n + 1][i]
      <4>1. i \in Nat /\ j \in Nat /\ j <= Len(input[n + 1]) + 1
        <5>1. /\ Len(input[n + 1]) \in Nat
              /\ DOMAIN input[n + 1] = 1 .. Len(input[n + 1])
          BY <1>2
        <5> QED
          BY <1>3, <2>2, <5>1
      <4>2. i # Len(input[n + 1]) + 1
        BY <1>2, <4>1
      <4> QED
        BY <1>3, <2>2, <4>2
    <3>2. input[n + 1][i] \in At(n + 1)
      BY <3>1 DEF At, Queued
    <3>3. CASE j = Len(input[n + 1]) + 1
      BY <1>3, <1>5, <2>2, <3>1, <3>2, <3>3
    <3>4. CASE j \in DOMAIN input[n + 1]
      BY <1>1, <1>3, <2>2, <3>1, <3>4 DEF FifoOrder, QueuesSorted
    <3> QED
      BY <1>3, <2>2, <3>3, <3>4
  <2> QED
    BY <2>1, <2>2
<1>9. HeldIsOldest'
  <2> SUFFICES ASSUME NEW m \in Nodes, held'[m] # NoFrame,
                      NEW f \in Queued(m)'
               PROVE  held'[m] < f
    BY DEF HeldIsOldest
  <2>1. m # n /\ held'[m] = held[m] /\ held[m] # NoFrame
    BY <1>2
  <2>2. CASE f \in Queued(m)
    BY <2>1, <2>2 DEF FifoOrder, HeldIsOldest
  <2>3. CASE m = n + 1 /\ f = f0
    BY <1>1, <1>5, <2>1, <2>3, PlacesTyped
  <2> QED
    BY <1>4, <2>2, <2>3
<1>10. DownstreamIsOlder'
  <2> SUFFICES ASSUME NEW l \in Nodes, NEW m \in Nodes, l < m,
                      NEW f \in At(l)', NEW g \in At(m)'
               PROVE  g < f
    BY DEF DownstreamIsOlder
  <2>1. f \in At(l) \/ (l = n + 1 /\ f = f0)
    BY <1>1, <1>6 DEF At
  <2>2. g \in At(m) \/ (m = n + 1 /\ g = f0)
    BY <1>1, <1>6 DEF At
  <2>3. CASE f \in At(l) /\ g \in At(m)
    BY <2>3 DEF FifoOrder, DownstreamIsOlder
  <2>4. CASE l = n + 1 /\ f = f0 /\ g \in At(m)
    <3>1. n < m
      BY <1>1, <2>4
    <3> QED
      BY <1>5, <2>4, <3>1 DEF FifoOrder, DownstreamIsOlder
  <2>5. CASE f \in At(l) /\ m = n + 1 /\ g = f0 /\ l # n
    <3>1. l < n
      BY <1>1, <2>5
    <3> QED
      BY <1>5, <2>5, <3>1 DEF FifoOrder, DownstreamIsOlder
  <2>6. CASE m = n + 1 /\ g = f0 /\ l = n
    BY <1>1, <1>6, <2>6 DEF FifoOrder, HeldIsOldest
  <2>7. ~(l = n + 1 /\ m = n + 1)
    BY <1>1
  <2> QED
    BY <2>1, <2>2, <2>3, <2>4, <2>5, <2>6, <2>7
<1>11. DeliveredInOrder' /\ OnlyAccepted'
  BY <1>2, <1>7 DEF FifoOrder, DeliveredInOrder, OnlyAccepted
<1> QED
  BY <1>8, <1>9, <1>10, <1>11 DEF FifoOrder

(* The frame the output node hands over is the oldest of all in flight. *)
LEMMA FifoSend ==
  ASSUME TypeOK, FifoOrder, SendOK
  PROVE  FifoOrder'
<1> USE NodeFacts
<1> DEFINE f0 == held[Out]
<1>1. /\ f0 \in Frames /\ f0 # NoFrame
      /\ held'[Out] = NoFrame
      /\ \A m \in Nodes : m # Out => held'[m] = held[m]
      /\ input' = input /\ accepted' = accepted
      /\ delivered \in Seq(Frames)
      /\ delivered' = Append(delivered, f0)
  BY DEF SendOK, Settle, TypeOK, HeldWhileBusy
<1>2. \A n \in Nodes : Queued(n)' = Queued(n)
  BY <1>1 DEF Queued
<1>3. \A n \in Nodes : At(n)' \subseteq At(n)
  BY <1>1, <1>2 DEF At
<1>4. InFlight' \subseteq InFlight
  BY <1>3 DEF InFlight
<1>5. f0 \in At(Out) /\ f0 \in InFlight
  BY <1>1, PlacesTyped DEF InFlight
<1>6. At(Out)' = Queued(Out)
  BY <1>1, <1>2 DEF At
<1>7. \A f \in InFlight' : f0 < f
  <2> SUFFICES ASSUME NEW n \in Nodes, NEW f \in At(n)' PROVE f0 < f
    BY DEF InFlight
  <2>1. CASE n = Out
    BY <1>1, <1>6, <2>1 DEF FifoOrder, HeldIsOldest
  <2>2. CASE n # Out
    <3>1. n < Out
      BY <2>2
    <3> QED
      BY <1>3, <1>5, <3>1 DEF FifoOrder, DownstreamIsOlder
  <2> QED
    BY <2>1, <2>2
<1>8. /\ DOMAIN delivered' = (DOMAIN delivered) \union {Len(delivered) + 1}
      /\ \A i \in DOMAIN delivered : delivered'[i] = delivered[i]
      /\ delivered'[Len(delivered) + 1] = f0
      /\ \A i \in DOMAIN delivered : i < Len(delivered) + 1
      /\ \A i \in DOMAIN delivered : ~(Len(delivered) + 1 < i)
      /\ ~(Len(delivered) + 1 < Len(delivered) + 1)
  BY <1>1
<1>9. \A i \in DOMAIN delivered : delivered[i] < f0
  BY <1>5 DEF FifoOrder, DeliveredInOrder
<1>10. DeliveredInOrder'
  BY <1>4, <1>7, <1>8, <1>9 DEF FifoOrder, DeliveredInOrder
<1>11. OnlyAccepted'
  BY <1>1, <1>4, <1>5, <1>8 DEF FifoOrder, OnlyAccepted
<1>12. QueuesSorted'
  BY <1>1 DEF FifoOrder, QueuesSorted
<1>13. HeldIsOldest'
  BY <1>1, <1>2 DEF FifoOrder, HeldIsOldest
<1>14. DownstreamIsOlder'
  BY <1>3 DEF FifoOrder, DownstreamIsOlder
<1> QED
  BY <1>10, <1>11, <1>12, <1>13, <1>14 DEF FifoOrder

(* At the start nothing is anywhere. *)
LEMMA InitFifo == Init => FifoOrder
<1> SUFFICES ASSUME Init PROVE FifoOrder
  OBVIOUS
<1>1. \A n \in Nodes : At(n) = {} /\ Queued(n) = {} /\ input[n] = << >>
  BY DEF Init, At, Queued
<1>2. InFlight = {} /\ delivered = << >>
  BY <1>1 DEF InFlight, Init
<1> QED
  BY <1>1, <1>2 DEF FifoOrder, QueuesSorted, HeldIsOldest,
     DownstreamIsOlder, DeliveredInOrder, OnlyAccepted

LEMMA NextFifo == TypeOK /\ TypeOK' /\ FifoOrder /\ [Next]_vars => FifoOrder'
<1> SUFFICES ASSUME TypeOK, TypeOK', FifoOrder, [Next]_vars
             PROVE  FifoOrder'
  OBVIOUS
<1> DEFINE Keeps == /\ input' = input /\ delivered' = delivered
                    /\ accepted' = accepted
                    /\ \A n \in Nodes : held'[n] \in {held[n], NoFrame}
<1>1. Keeps => FifoOrder'
  <2>1. accepted \in Nat
    BY DEF TypeOK
  <2> QED
    BY <2>1, FifoShrinks
<1> HIDE DEF Keeps
<1>2. ASSUME NEW p \in Producers, PushStep(p) PROVE FifoOrder'
  <2>1. CASE PushEnqueue(p)
    BY <2>1, FifoEnqueue
  <2>2. CASE PushCheck(p) \/ PushDone(p) \/ PushCallerCancelled(p)
    BY <2>2, <1>1
    DEF PushCheck, PushDone, PushCallerCancelled, Keeps
  <2> QED
    BY <1>2, <2>1, <2>2 DEF PushStep
<1>3. ASSUME NEW n \in Nodes, NodeStep(n) PROVE FifoOrder'
  <2>1. CASE Take(n)
    BY <2>1, FifoTake
  <2>2. CASE Forward(n)
    BY <2>2, FifoForward
  <2>3. CASE Exit(n) \/ StageOK(n) \/ StageFails(n) \/ StageContinues(n)
             \/ NodeCloseBegin(n) \/ NodeCloseReturn(n)
    BY <2>3, <1>1 DEF Exit, StageOK, StageFails, StageContinues,
       NodeCloseBegin, NodeCloseReturn, Keeps
  <2>4. ASSUME NEW end \in Fates, Settle(n, end)
        PROVE  \A m \in Nodes : held'[m] \in {held[m], NoFrame}
    BY <2>4 DEF Settle, TypeOK
  <2>5. CASE StageDrops(n) \/ StageCloses(n) \/ StageSwallows(n)
             \/ ForwardRefused(n)
    <3>1. \E end \in Fates : Settle(n, end)
      BY <2>5 DEF StageDrops, StageCloses, StageSwallows, ForwardRefused,
                  Fates
    <3> QED
      BY <2>4, <2>5, <3>1, <1>1
      DEF StageDrops, StageCloses, StageSwallows, ForwardRefused, Keeps
  <2> QED
    BY <1>3, <2>1, <2>2, <2>3, <2>5 DEF NodeStep, StageStep
<1>4. CASE OutputStep
  <2>1. CASE SendOK
    BY <2>1, FifoSend
  <2>2. CASE SendFails
    BY <2>2, <1>1 DEF SendFails, Keeps
  <2>3. CASE SendReported
    <3>1. \A m \in Nodes : held'[m] \in {held[m], NoFrame}
      BY <2>3, NodeFacts DEF SendReported, Settle, TypeOK
    <3> QED
      BY <2>3, <3>1, <1>1 DEF SendReported, Keeps
  <2> QED
    BY <1>4, <2>1, <2>2, <2>3 DEF OutputStep
<1>5. CASE SessionCancel \/ CloseNext
  BY <1>5, <1>1 DEF SessionCancel, CloseNext, SessionCloseBegin,
     CloseCancel, CloseSignal, CloseStage, Keeps
<1>6. CASE UNCHANGED vars
  BY <1>6, <1>1 DEF vars, Keeps
<1> QED
  BY <1>2, <1>3, <1>4, <1>5, <1>6 DEF Next

(* Frames leave every pipeline in the order in which Push took them in,     *)
(* for any number of stages and producers, any queue size, any error        *)
(* strategy, any way Process and SendAudio end, and Close at any moment.    *)
THEOREM OrderPreserved == Spec => []FifoOrder
<1>1. Init => TypeOK /\ FifoOrder
  BY InitTypeOK, InitFifo
<1>2. TypeOK /\ FifoOrder /\ [Next]_vars => (TypeOK /\ FifoOrder)'
  BY NextTypeOK, NextFifo
<1> QED
  BY <1>1, <1>2, PTL DEF Spec

=============================================================================
