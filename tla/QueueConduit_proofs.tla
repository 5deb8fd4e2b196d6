------------------------- MODULE QueueConduit_proofs -------------------------
(* What the order of QueuePipeline_proofs gives: no frame is lost track of, *)
(* the pipeline implements FrameConduit, and its counters agree with what   *)
(* became of the frames, for every number of stages, queue size, set of     *)
(* producers and bound on the frames.                                       *)
EXTENDS QueuePipeline_proofs, FiniteSetTheorems

(* A held frame is in one place only: not in the queue of its node, which   *)
(* holds younger ones, and at no other node.                                *)
LEMMA OnePlace ==
  ASSUME TypeOK, FifoOrder, NEW n \in Nodes, held[n] # NoFrame
  PROVE  /\ held[n] \in Frames
         /\ held[n] \in At(n)
         /\ held[n] \notin Queued(n)
         /\ \A m \in Nodes : m # n => held[n] \notin At(m)
<1> USE NodeFacts
<1>1. held[n] \in Frames /\ held[n] \in Nat
  BY DEF TypeOK
<1>2. held[n] \in At(n)
  BY DEF At
<1>3. held[n] \notin Queued(n)
  BY <1>1 DEF FifoOrder, HeldIsOldest
<1>4. ASSUME NEW m \in Nodes, m # n, held[n] \in At(m) PROVE FALSE
  <2>1. m < n \/ n < m
    BY <1>4
  <2> QED
    BY <1>1, <1>2, <1>4, <2>1 DEF FifoOrder, DownstreamIsOlder
<1> QED
  BY <1>1, <1>2, <1>3, <1>4

(* A frame that ends leaves the pipeline, and nothing else does. *)
LEMMA SettleLeaves ==
  ASSUME TypeOK, FifoOrder, NEW n \in Nodes, held[n] # NoFrame,
         NEW end, Settle(n, end), input' = input
  PROVE  /\ At(n)' = At(n) \ {held[n]}
         /\ \A m \in Nodes : m # n => At(m)' = At(m)
         /\ InFlight' = InFlight \ {held[n]}
<1>1. /\ held'[n] = NoFrame
      /\ \A m \in Nodes : m # n => held'[m] = held[m]
      /\ \A m \in Nodes : Queued(m)' = Queued(m)
  BY DEF Settle, TypeOK, Queued
<1>2. At(n)' = At(n) \ {held[n]}
  <2>1. At(n)' = Queued(n)
    BY <1>1 DEF At
  <2> QED
    BY <2>1, OnePlace DEF At
<1>3. \A m \in Nodes : m # n => At(m)' = At(m) /\ held[n] \notin At(m)
  BY <1>1, OnePlace DEF At
<1> QED
  BY <1>2, <1>3 DEF InFlight

(* What the end of a pending frame does to the sets of frames by fate. *)
LEMMA SettleCounts ==
  ASSUME TypeOK, NEW n \in Nodes, held[n] \in Frames,
         fate[held[n]] = "pending", held[n] \in 1 .. accepted,
         NEW end \in Fates \ {"pending"}, Settle(n, end),
         accepted' = accepted
  PROVE  /\ Pending' = Pending \ {held[n]}
         /\ \A ends \in SUBSET (Fates \ {"pending"}) :
              /\ held[n] \notin Settled(ends)
              /\ end \in ends =>
                   Settled(ends)' = Settled(ends) \union {held[n]}
              /\ end \notin ends => Settled(ends)' = Settled(ends)
<1>1. /\ fate'[held[n]] = end /\ end # "pending"
      /\ \A f \in Frames : f # held[n] => fate'[f] = fate[f]
  BY DEF Settle, TypeOK
<1>2. 1 .. accepted \subseteq Frames
  BY QPAssumption DEF TypeOK, Frames
<1>3. Pending' = Pending \ {held[n]}
  BY <1>1, <1>2 DEF Pending
<1>4. ASSUME NEW ends \in SUBSET (Fates \ {"pending"})
      PROVE  /\ held[n] \notin Settled(ends)
             /\ end \in ends => Settled(ends)' = Settled(ends) \union {held[n]}
             /\ end \notin ends => Settled(ends)' = Settled(ends)
  <2>1. "pending" \notin ends
    OBVIOUS
  <2> QED
    BY <1>1, <2>1 DEF Settled
<1> QED
  BY <1>3, <1>4

(* The steps that move a frame: Push adds the next frame to those in        *)
(* flight, Take and Forward only change the place of one.                   *)
LEMMA EnqueueArrives ==
  ASSUME TypeOK, NEW p \in Producers, PushEnqueue(p)
  PROVE  /\ At(1)' = At(1) \union {accepted + 1}
         /\ \A n \in Nodes : n # 1 => At(n)' = At(n)
         /\ InFlight' = InFlight \union {accepted + 1}
<1> USE NodeFacts
<1> DEFINE new == accepted + 1
<1>1. /\ new \in Frames
      /\ held' = held
      /\ input[1] \in Seq(Frames)
      /\ input'[1] = Append(input[1], new)
      /\ \A n \in Nodes : n # 1 => input'[n] = input[n]
  BY QPAssumption DEF PushEnqueue, TypeOK, Frames
<1>2. \A n \in Nodes : n # 1 => At(n)' = At(n)
  <2>1. ASSUME NEW n \in Nodes, n # 1 PROVE Queued(n)' = Queued(n)
    BY <1>1, <2>1, input'[n] = input[n] DEF Queued
  <2> QED
    BY <1>1, <2>1 DEF At
<1>3. Queued(1)' = Queued(1) \union {new}
  <2>1. /\ DOMAIN input'[1] = (DOMAIN input[1]) \union {Len(input[1]) + 1}
        /\ \A i \in DOMAIN input[1] : input'[1][i] = input[1][i]
        /\ input'[1][Len(input[1]) + 1] = new
    BY <1>1, AppendGrows
  <2> QED
    BY <2>1 DEF Queued
<1>4. At(1)' = At(1) \union {new}
  <2>1. At(1)' = Queued(1)' \union ({held'[1]} \ {NoFrame})
    BY DEF At, Queued
  <2> QED
    BY <1>1, <1>3, <2>1 DEF At
<1> QED
  BY <1>2, <1>4 DEF InFlight

LEMMA TakeKeeps ==
  ASSUME TypeOK, NEW n \in Nodes, Take(n)
  PROVE  /\ \A m \in Nodes : At(m)' = At(m)
         /\ InFlight' = InFlight
<1> USE NodeFacts
<1>1. /\ input[n] \in Seq(Frames) /\ input[n] # << >>
      /\ input'[n] = Tail(input[n])
      /\ \A m \in Nodes : m # n => input'[m] = input[m]
      /\ held[n] = NoFrame /\ held'[n] = input[n][1]
      /\ held'[n] # NoFrame
      /\ \A m \in Nodes : m # n => held'[m] = held[m]
  BY DEF Take, TypeOK, HeldWhileBusy
<1>2. \A m \in Nodes : m # n => At(m)' = At(m)
  <2>1. \A m \in Nodes : m # n => input'[m] = input[m]
    BY <1>1
  <2>2. ASSUME NEW m \in Nodes, m # n PROVE Queued(m)' = Queued(m)
    BY <2>1, <2>2, input'[m] = input[m] DEF Queued
  <2> QED
    BY <1>1, <2>2 DEF At
<1>3. Queued(n) = Queued(n)' \union {input[n][1]}
  <2>1. /\ 1 \in DOMAIN input[n]
        /\ \A i \in DOMAIN input'[n] :
             i + 1 \in DOMAIN input[n] /\ input'[n][i] = input[n][i + 1]
        /\ \A i \in DOMAIN input[n] : i # 1 =>
             i - 1 \in DOMAIN input'[n] /\ input'[n][i - 1] = input[n][i]
    BY <1>1, TailShifts
  <2>2. Queued(n)' \union {input[n][1]} \subseteq Queued(n)
    BY <2>1 DEF Queued
  <2>3. Queued(n) \subseteq Queued(n)' \union {input[n][1]}
    BY <2>1 DEF Queued
  <2> QED
    BY <2>2, <2>3
<1>4. At(n)' = At(n)
  BY <1>1, <1>3 DEF At
<1> QED
  BY <1>2, <1>4 DEF InFlight

LEMMA ForwardKeeps ==
  ASSUME TypeOK, NEW n \in Nodes, Forward(n)
  PROVE  /\ n + 1 \in Nodes
         /\ At(n) = At(n)' \union {held[n]}
         /\ At(n + 1)' = At(n + 1) \union {held[n]}
         /\ \A m \in Nodes : m # n /\ m # n + 1 => At(m)' = At(m)
         /\ InFlight' = InFlight
<1> USE NodeFacts
<1> DEFINE f0 == held[n]
<1>1. /\ n # Out /\ n + 1 \in Nodes /\ n + 1 # n
      /\ f0 \in Frames /\ f0 # NoFrame
  <2>1. n # Out /\ held[n] # NoFrame
    BY DEF Forward, TypeOK, HeldWhileBusy
  <2> QED
    BY <2>1 DEF TypeOK
<1>2. /\ input[n + 1] \in Seq(Frames)
      /\ input'[n + 1] = Append(input[n + 1], f0)
      /\ \A m \in Nodes : m # n + 1 => input'[m] = input[m]
      /\ held'[n] = NoFrame
      /\ \A m \in Nodes : m # n => held'[m] = held[m]
  BY <1>1 DEF Forward, TypeOK
<1>3. Queued(n + 1)' = Queued(n + 1) \union {f0}
  <2>1. /\ DOMAIN input'[n + 1] =
             (DOMAIN input[n + 1]) \union {Len(input[n + 1]) + 1}
        /\ \A i \in DOMAIN input[n + 1] : input'[n + 1][i] = input[n + 1][i]
        /\ input'[n + 1][Len(input[n + 1]) + 1] = f0
    BY <1>1, <1>2, AppendGrows
  <2> QED
    BY <2>1 DEF Queued
<1>4. \A m \in Nodes : m # n /\ m # n + 1 => At(m)' = At(m)
  BY <1>2 DEF At, Queued
<1>5. At(n) = At(n)' \union {f0}
  BY <1>1, <1>2 DEF At, Queued
<1>6. At(n + 1)' = At(n + 1) \union {f0}
  BY <1>1, <1>2, <1>3 DEF At
<1> QED
  BY <1>1, <1>4, <1>5, <1>6 DEF InFlight

-----------------------------------------------------------------------------
(* Conservation.  It is inductive together with TypeOK and FifoOrder: the   *)
(* order is what shows that a frame that ends is in no second place.        *)

LEMMA InitConserved == Init => Conservation
<1> SUFFICES ASSUME Init PROVE Conservation
  OBVIOUS
<1>1. \A n \in Nodes : At(n) = {}
  BY DEF Init, At, Queued
<1>2. InFlight = {} /\ Pending = {}
  BY <1>1 DEF Init, InFlight, Pending
<1>3. \A ends \in SUBSET (Fates \ {"pending"}) : Settled(ends) = {}
  BY DEF Init, Settled
<1>4. /\ {"delivered"} \in SUBSET (Fates \ {"pending"})
      /\ Fates \ {"pending"} \in SUBSET (Fates \ {"pending"})
  BY DEF Fates
<1>5. {delivered[i] : i \in DOMAIN delivered} = {}
  BY DEF Init
<1> QED
  BY <1>2, <1>3, <1>4, <1>5 DEF Conservation

(* A step that moves no frame and settles none. *)
LEMMA ConservedQuiet ==
  ASSUME Conservation,
         UNCHANGED <<input, held, accepted, fate, delivered>>
  PROVE  Conservation' /\ Pending' = Pending
<1>1. \A n \in Nodes : At(n)' = At(n)
  BY DEF At, Queued
<1>2. InFlight' = InFlight /\ Pending' = Pending
  BY <1>1 DEF InFlight, Pending
<1>3. \A ends : Settled(ends)' = Settled(ends)
  BY DEF Settled
<1> QED
  BY <1>2, <1>3 DEF Conservation

(* A step that moves a frame and settles none. *)
LEMMA ConservedMove ==
  ASSUME Conservation, InFlight' = InFlight,
         UNCHANGED <<accepted, fate, delivered>>
  PROVE  Conservation' /\ Pending' = Pending
<1>1. Pending' = Pending
  BY DEF Pending
<1>2. \A ends : Settled(ends)' = Settled(ends)
  BY DEF Settled
<1> QED
  BY <1>1, <1>2 DEF Conservation

(* A frame that is taken in is pending and in the first queue. *)
LEMMA ConservedEnqueue ==
  ASSUME TypeOK, Conservation, NEW p \in Producers, PushEnqueue(p)
  PROVE  Conservation' /\ Pending' = Pending \union {accepted + 1}
<1> DEFINE new == accepted + 1
<1>1. /\ accepted \in Nat /\ new \in Frames
      /\ accepted' = new /\ fate' = fate /\ delivered' = delivered
  BY QPAssumption DEF PushEnqueue, TypeOK, Frames
<1>2. 1 .. new = (1 .. accepted) \union {new}
  BY <1>1
<1>3. fate[new] = "pending"
  <2>1. new \notin 1 .. accepted
    BY <1>1
  <2>2. fate[new] \in Fates
    BY <1>1 DEF TypeOK
  <2> QED
    BY <1>1, <2>1, <2>2 DEF Conservation, Settled
<1>4. Pending' = Pending \union {new}
  BY <1>1, <1>2, <1>3 DEF Pending
<1>5. \A ends : Settled(ends)' = Settled(ends)
  BY <1>1 DEF Settled
<1>6. InFlight' = InFlight \union {new}
  BY EnqueueArrives
<1>7. 1 .. accepted \subseteq 1 .. accepted'
  BY <1>1
<1> QED
  BY <1>1, <1>4, <1>5, <1>6, <1>7 DEF Conservation

(* A frame a node holds is accepted and pending. *)
LEMMA HeldPending ==
  ASSUME TypeOK, Conservation, NEW n \in Nodes, held[n] # NoFrame
  PROVE  /\ held[n] \in Frames /\ held[n] \in Pending
         /\ held[n] \in 1 .. accepted
         /\ fate[held[n]] = "pending"
<1>1. held[n] \in InFlight
  BY DEF InFlight, At
<1>2. held[n] \in Pending
  BY <1>1 DEF Conservation
<1> QED
  BY <1>2 DEF Pending, TypeOK

(* A frame that ends otherwise than by SendAudio. *)
LEMMA ConservedSettle ==
  ASSUME TypeOK, FifoOrder, Conservation,
         NEW n \in Nodes, held[n] # NoFrame,
         NEW end \in Fates \ {"pending", "delivered"}, Settle(n, end),
         UNCHANGED <<input, accepted, delivered>>
  PROVE  Conservation' /\ Pending' = Pending \ {held[n]}
<1>1. InFlight' = InFlight \ {held[n]}
  BY SettleLeaves
<1>2. end \in Fates \ {"pending"}
  OBVIOUS
<1>3. /\ Pending' = Pending \ {held[n]}
      /\ \A ends \in SUBSET (Fates \ {"pending"}) :
           /\ end \in ends => Settled(ends)' = Settled(ends) \union {held[n]}
           /\ end \notin ends => Settled(ends)' = Settled(ends)
  BY <1>2, HeldPending, SettleCounts
<1>4. Settled({"delivered"})' = Settled({"delivered"})
  <2>1. {"delivered"} \in SUBSET (Fates \ {"pending"})
    BY DEF Fates
  <2>2. end \notin {"delivered"}
    OBVIOUS
  <2> QED
    BY <1>3, <2>1, <2>2
<1>5. Settled(Fates \ {"pending"})'
        = Settled(Fates \ {"pending"}) \union {held[n]}
  BY <1>2, <1>3
<1> QED
  BY <1>1, <1>3, <1>4, <1>5, HeldPending DEF Conservation

(* SendAudio took the frame: it is delivered and recorded as such. *)
LEMMA ConservedSend ==
  ASSUME TypeOK, FifoOrder, Conservation, SendOK
  PROVE  Conservation' /\ Pending' = Pending \ {held[Out]}
<1> DEFINE f0 == held[Out]
<1>1. /\ Out \in Nodes /\ f0 # NoFrame /\ f0 \in Frames
      /\ Settle(Out, "delivered")
      /\ input' = input /\ accepted' = accepted
      /\ delivered \in Seq(Frames)
      /\ delivered' = Append(delivered, f0)
  BY NodeFacts DEF SendOK, TypeOK, HeldWhileBusy
<1>2. InFlight' = InFlight \ {f0}
  BY <1>1, SettleLeaves
<1>3. "delivered" \in Fates \ {"pending"}
  BY DEF Fates
<1>4. /\ Pending' = Pending \ {f0}
      /\ \A ends \in SUBSET (Fates \ {"pending"}) :
           "delivered" \in ends => Settled(ends)' = Settled(ends) \union {f0}
  BY <1>1, <1>3, HeldPending, SettleCounts
<1>5. Settled({"delivered"})' = Settled({"delivered"}) \union {f0}
  <2>1. {"delivered"} \in SUBSET (Fates \ {"pending"})
    BY <1>3
  <2> QED
    BY <1>4, <2>1
<1>6. Settled(Fates \ {"pending"})'
        = Settled(Fates \ {"pending"}) \union {f0}
  BY <1>3, <1>4
<1>7. {delivered'[i] : i \in DOMAIN delivered'}
        = {delivered[i] : i \in DOMAIN delivered} \union {f0}
  <2>1. /\ DOMAIN delivered' = (DOMAIN delivered) \union {Len(delivered) + 1}
        /\ \A i \in DOMAIN delivered : delivered'[i] = delivered[i]
        /\ delivered'[Len(delivered) + 1] = f0
    BY <1>1
  <2> QED
    BY <2>1
<1> QED
  BY <1>1, <1>2, <1>4, <1>5, <1>6, <1>7, HeldPending DEF Conservation

(* Node n ends the frame it holds, in one of the ways that are no delivery. *)
SettleStep(n) ==
  StageDrops(n) \/ StageCloses(n) \/ StageSwallows(n) \/ ForwardRefused(n)

(* Each of the steps that lose a frame is a Settle of a node that holds one. *)
LEMMA LosingSteps ==
  ASSUME TypeOK, NEW n \in Nodes,
         SettleStep(n) \/ (n = Out /\ SendReported)
  PROVE  /\ held[n] # NoFrame
         /\ \E end \in Fates \ {"pending", "delivered"} : Settle(n, end)
         /\ UNCHANGED <<phase, caller, input, accepted, delivered>>
<1>1. CASE SettleStep(n)
  <2>1. held[n] # NoFrame
    BY <1>1 DEF SettleStep, StageDrops, StageCloses, StageSwallows,
                ForwardRefused, TypeOK, HeldWhileBusy
  <2>2. \E end \in {"dropped", "lost", "failed"} : Settle(n, end)
    BY <1>1 DEF SettleStep, StageDrops, StageCloses, StageSwallows,
                ForwardRefused
  <2>3. UNCHANGED <<phase, caller, input, accepted, delivered>>
    BY <1>1 DEF SettleStep, StageDrops, StageCloses, StageSwallows,
                ForwardRefused, closing
  <2> QED
    BY <2>1, <2>2, <2>3 DEF Fates
<1>2. CASE n = Out /\ SendReported
  <2>1. held[n] # NoFrame
    BY <1>2 DEF SendReported, TypeOK, HeldWhileBusy
  <2>2. Settle(n, "lost")
    BY <1>2 DEF SendReported
  <2>3. UNCHANGED <<phase, caller, input, accepted, delivered>>
    BY <1>2 DEF SendReported, closing
  <2> QED
    BY <2>1, <2>2, <2>3 DEF Fates
<1> QED
  BY <1>1, <1>2

(* The steps that leave the frames alone. *)
QuietStep ==
  \/ \E p \in Producers : PushCheck(p) \/ PushDone(p) \/ PushCallerCancelled(p)
  \/ \E n \in Nodes : \/ Exit(n) \/ StageOK(n) \/ StageFails(n)
                      \/ StageContinues(n) \/ NodeCloseBegin(n)
                      \/ NodeCloseReturn(n)
  \/ SendFails
  \/ SessionCancel
  \/ CloseNext

LEMMA QuietSteps ==
  ASSUME QuietStep
  PROVE  UNCHANGED <<input, held, accepted, fate, delivered>>
BY DEF QuietStep, PushCheck, PushDone, PushCallerCancelled, Exit, StageOK,
   StageFails, StageContinues, NodeCloseBegin, NodeCloseReturn, SendFails,
   SessionCancel, CloseNext, SessionCloseBegin, CloseCancel, CloseSignal,
   CloseStage

(* Seen from the frames, every step is one of seven kinds. *)
LEMMA KindsOfStep ==
  ASSUME Next
  PROVE  \/ \E p \in Producers : PushEnqueue(p)
         \/ \E n \in Nodes : Take(n)
         \/ \E n \in Nodes : Forward(n)
         \/ SendOK
         \/ \E n \in Nodes : SettleStep(n) \/ (n = Out /\ SendReported)
         \/ QuietStep
<1>1. CASE \E p \in Producers : PushStep(p)
  BY <1>1 DEF PushStep, QuietStep
<1>2. CASE \E n \in Nodes : NodeStep(n)
  BY <1>2 DEF NodeStep, StageStep, SettleStep, QuietStep
<1>3. CASE OutputStep
  BY <1>3, NodeFacts DEF OutputStep, QuietStep
<1>4. CASE SessionCancel \/ CloseNext
  BY <1>4 DEF QuietStep
<1> QED
  BY <1>1, <1>2, <1>3, <1>4 DEF Next

LEMMA NextConserved ==
  TypeOK /\ FifoOrder /\ Conservation /\ [Next]_vars => Conservation'
<1> SUFFICES ASSUME TypeOK, FifoOrder, Conservation, [Next]_vars
             PROVE  Conservation'
  OBVIOUS
<1>1. CASE \E p \in Producers : PushEnqueue(p)
  BY <1>1, ConservedEnqueue
<1>2. ASSUME NEW n \in Nodes, Take(n) PROVE Conservation'
  BY <1>2, TakeKeeps, ConservedMove DEF Take
<1>3. ASSUME NEW n \in Nodes, Forward(n) PROVE Conservation'
  BY <1>3, ForwardKeeps, ConservedMove DEF Forward
<1>4. CASE SendOK
  BY <1>4, ConservedSend
<1>5. ASSUME NEW n \in Nodes, SettleStep(n) \/ (n = Out /\ SendReported)
      PROVE  Conservation'
  BY <1>5, LosingSteps, ConservedSettle
<1>6. CASE QuietStep
  BY <1>6, QuietSteps, ConservedQuiet
<1>7. CASE UNCHANGED vars
  BY <1>7, ConservedQuiet DEF vars
<1> QED
  BY <1>1, <1>2, <1>3, <1>4, <1>5, <1>6, <1>7, KindsOfStep

(* The invariant the theorems below rest on. *)
QInv == TypeOK /\ FifoOrder /\ Conservation

LEMMA QInvHolds == Spec => []QInv
<1>1. Init => QInv
  BY InitTypeOK, InitFifo, InitConserved DEF QInv
<1>2. QInv /\ [Next]_vars => QInv'
  BY NextTypeOK, NextFifo, NextConserved DEF QInv
<1> QED
  BY <1>1, <1>2, PTL DEF Spec

(* No path through the pipeline loses track of a frame or has it in two     *)
(* places, for any number of stages and producers, any queue size, any      *)
(* error strategy, and Close at any moment (queue.go:245-287 and 348-370).  *)
THEOREM NothingLost == Spec => []Conservation
<1>1. QInv => Conservation
  BY DEF QInv
<1> QED
  BY <1>1, QInvHolds, PTL

-----------------------------------------------------------------------------
(* Refinement.  A Push call is a Call and then an Accept or a TurnAway; a   *)
(* SendAudio that takes its frame is a Deliver, every other end of a frame  *)
(* a Lose; the first step of Close is the Shut.                             *)

LEMMA InitConduit == Init => Conduit!Init
<1> SUFFICES ASSUME Init PROVE Conduit!Init
  OBVIOUS
<1>1. Waiting = {} /\ Pending = {}
  BY DEF Init, Waiting, Pending
<1> QED
  BY <1>1 DEF Init, Conduit!Init

(* The frame SendAudio took is the oldest of those pending. *)
LEMMA SendDelivers ==
  ASSUME QInv, SendOK
  PROVE  Conduit!Deliver(held[Out]) /\ held[Out] \in Pending
<1> DEFINE f0 == held[Out]
<1> USE NodeFacts
<1>1. /\ f0 # NoFrame
      /\ UNCHANGED <<phase, caller, accepted>>
      /\ delivered' = Append(delivered, f0)
  BY DEF SendOK, closing, QInv, TypeOK, HeldWhileBusy
<1>2. Pending' = Pending \ {f0}
  BY ConservedSend DEF QInv
<1>3. f0 \in Pending
  BY <1>1, HeldPending DEF QInv
<1>4. ASSUME NEW g \in Pending PROVE f0 <= g
  <2>1. f0 \in Nat /\ g \in Nat
    BY <1>3, <1>4 DEF Pending
  <2>2. PICK n \in Nodes : g \in At(n)
    BY <1>4 DEF QInv, Conservation, InFlight
  <2>3. CASE n = Out
    BY <1>1, <2>1, <2>2, <2>3 DEF At, QInv, FifoOrder, HeldIsOldest
  <2>4. CASE n # Out
    <3>1. n < Out /\ f0 \in At(Out)
      BY <1>1, <2>4 DEF At
    <3> QED
      BY <2>1, <2>2, <3>1 DEF QInv, FifoOrder, DownstreamIsOlder
  <2> QED
    BY <2>3, <2>4
<1>5. Waiting' = Waiting /\ (phase = "open")' = (phase = "open")
  BY <1>1 DEF Waiting
<1> QED
  BY <1>1, <1>2, <1>3, <1>4, <1>5 DEF Conduit!Deliver

(* A step that adds no frame, settles none and neither begins nor ends a    *)
(* Push is no step of the conduit, unless it is the first of Close.         *)
LEMMA QuietConduit ==
  ASSUME QInv, QuietStep, caller' = caller
  PROVE  Conduit!Shut \/ UNCHANGED Conduit!conduitVars
<1>1. UNCHANGED <<Waiting, Pending, accepted, delivered>>
  BY QuietSteps, ConservedQuiet DEF QInv, Waiting
<1>2. \/ (phase = "open")' = (phase = "open")
      \/ phase = "open" /\ phase' # "open"
  BY DEF QuietStep, PushCheck, PushDone, PushCallerCancelled, Exit, StageOK,
     StageFails, StageContinues, NodeCloseBegin, NodeCloseReturn, SendFails,
     SessionCancel, CloseNext, SessionCloseBegin, CloseCancel, CloseSignal,
     CloseStage, closing
<1> QED
  BY <1>1, <1>2 DEF Conduit!Shut, Conduit!conduitVars

(* What Push does to the set of calls that wait for an answer. *)
LEMMA CallersMove ==
  ASSUME TypeOK, NEW p \in Producers, NEW at \in {"idle", "waiting"},
         caller' = [caller EXCEPT ![p] = at]
  PROVE  Waiting' = IF at = "waiting" THEN Waiting \union {p}
                                      ELSE Waiting \ {p}
<1>1. /\ caller'[p] = at
      /\ \A q \in Producers : q # p => caller'[q] = caller[q]
  BY DEF TypeOK
<1> QED
  BY <1>1 DEF Waiting

LEMMA PushIsCall ==
  ASSUME QInv, NEW p \in Producers, PushStep(p)
  PROVE  Conduit!Call(p) \/ Conduit!Accept(p) \/ Conduit!TurnAway(p)
<1> USE DEF QInv
<1>1. CASE PushCheck(p)
  <2>1. /\ phase = "open" /\ phase' = phase
        /\ p \notin Waiting
        /\ Waiting' = Waiting \union {p}
    BY <1>1, CallersMove DEF PushCheck, closing, Waiting
  <2>2. UNCHANGED <<Pending, accepted, delivered>>
    BY <1>1, ConservedQuiet DEF PushCheck
  <2> QED
    BY <2>1, <2>2 DEF Conduit!Call
<1>2. CASE PushEnqueue(p)
  <2>1. /\ p \in Waiting
        /\ Waiting' = Waiting \ {p}
        /\ UNCHANGED <<phase, delivered>>
        /\ accepted' = accepted + 1
    BY <1>2, CallersMove DEF PushEnqueue, closing, Waiting
  <2>2. Pending' = Pending \union {accepted + 1}
    BY <1>2, ConservedEnqueue
  <2> QED
    BY <2>1, <2>2 DEF Conduit!Accept
<1>3. CASE PushDone(p) \/ PushCallerCancelled(p)
  <2>1. /\ p \in Waiting
        /\ Waiting' = Waiting \ {p}
        /\ phase' = phase
    BY <1>3, CallersMove DEF PushDone, PushCallerCancelled, closing, Waiting
  <2>2. UNCHANGED <<Pending, accepted, delivered>>
    BY <1>3, ConservedQuiet DEF PushDone, PushCallerCancelled
  <2> QED
    BY <2>1, <2>2 DEF Conduit!TurnAway
<1> QED
  BY <1>1, <1>2, <1>3 DEF PushStep

LEMMA ConduitStep ==
  ASSUME QInv, [Next]_vars
  PROVE  [Conduit!Next]_(Conduit!conduitVars)
<1>1. CASE \E p \in Producers : PushStep(p)
  BY <1>1, PushIsCall DEF Conduit!Next
<1>2. ASSUME NEW n \in Nodes, Take(n) \/ Forward(n)
      PROVE  UNCHANGED Conduit!conduitVars
  <2>1. UNCHANGED <<phase, caller, accepted, fate, delivered>>
    BY <1>2 DEF Take, Forward, closing
  <2> QED
    BY <2>1 DEF Conduit!conduitVars, Waiting, Pending
<1>3. CASE SendOK
  BY <1>3, SendDelivers DEF Conduit!Next
<1>4. ASSUME NEW n \in Nodes, SettleStep(n) \/ (n = Out /\ SendReported)
      PROVE  Conduit!Next
  <2>1. /\ held[n] # NoFrame
        /\ UNCHANGED <<phase, caller, input, accepted, delivered>>
    BY <1>4, LosingSteps DEF QInv
  <2>2. Pending' = Pending \ {held[n]}
    BY <1>4, LosingSteps, ConservedSettle DEF QInv
  <2>3. held[n] \in Pending
    BY <2>1, HeldPending DEF QInv
  <2>4. Conduit!Lose(held[n])
    BY <2>1, <2>2, <2>3 DEF Conduit!Lose, Waiting
  <2> QED
    BY <2>3, <2>4 DEF Conduit!Next
<1>5. CASE QuietStep /\ caller' = caller
  BY <1>5, QuietConduit DEF Conduit!Next
<1>6. CASE UNCHANGED vars
  BY <1>6 DEF vars, Conduit!conduitVars, Waiting, Pending
<1>7. QuietStep => \/ caller' = caller
                   \/ \E p \in Producers : PushStep(p)
  BY DEF QuietStep, PushStep, Exit, StageOK, StageFails, StageContinues,
     NodeCloseBegin, NodeCloseReturn, SendFails, SessionCancel, CloseNext,
     SessionCloseBegin, CloseCancel, CloseSignal, CloseStage
<1>8. (\E p \in Producers : PushEnqueue(p))
        => \E p \in Producers : PushStep(p)
  BY DEF PushStep
<1> QED
  BY <1>1, <1>2, <1>3, <1>4, <1>5, <1>6, <1>7, <1>8, KindsOfStep

(* Every pipeline keeps the promise of a conduit to the two sides of it:    *)
(* frames in order and each at most once, only the oldest pending one       *)
(* delivered, and no call let in once Close has set the flag                *)
(* (queue.go:105-132, 224-287, 327-370).                                    *)
THEOREM PipelineIsConduit == Spec => ConduitSpec
<1>1. QInv /\ [Next]_vars => [Conduit!Next]_(Conduit!conduitVars)
  BY ConduitStep
<1> QED
  BY <1>1, InitConduit, QInvHolds, PTL DEF Spec, ConduitSpec, Conduit!Spec

-----------------------------------------------------------------------------
(* Accounting.  Its bound on `errors` is no sum over the frames: every      *)
(* error belongs to a pair of a frame and a node that this frame cannot     *)
(* fail at again, and there are accepted * (NStages + 1) pairs.             *)

Reporting == {n \in Nodes : pc[n] \in {"report", "reportFatal"}}

(* The frames and nodes that are done with each other: the frame is past    *)
(* the node or gone, or the node holds it and its Process has returned.     *)
Tried ==
  {w \in (1 .. accepted) \X Nodes :
     \A m \in 1 .. w[2] :
       w[1] \in At(m) =>
         /\ m = w[2] /\ held[m] = w[1]
         /\ pc[m] \in {"forward", "report", "reportFatal"}}

Wrong == Cardinality(Settled({"failed", "lost"}))
Done == Cardinality(Settled({"delivered", "dropped", "failed"}))

AccountInv ==
  /\ processed = Done
  /\ errors >= Wrong + Cardinality(Reporting)
  /\ strategy # "continue" => errors = Wrong + Cardinality(Reporting)
  /\ errors <= Cardinality(Tried)

LEMMA PairsFinite ==
  ASSUME NEW a \in Nat, NEW T \in SUBSET ((1 .. a) \X Nodes)
  PROVE  /\ IsFiniteSet(T) /\ Cardinality(T) \in Nat
         /\ Cardinality(T) <= a * Out
<1>1. IsFiniteSet(Nodes) /\ Cardinality(Nodes) = Out
  <2>1. 1 \in Int /\ Out \in Int /\ Out >= 1
    BY NodeFacts
  <2> QED
    BY <2>1, FS_Interval DEF Nodes
<1>2. IsFiniteSet(1 .. a) /\ Cardinality(1 .. a) = a
  <2>1. 1 \in Int /\ a \in Int
    OBVIOUS
  <2> QED
    BY <2>1, FS_Interval
<1>3. /\ IsFiniteSet((1 .. a) \X Nodes)
      /\ Cardinality((1 .. a) \X Nodes) = a * Out
  BY <1>1, <1>2, FS_Product
<1> QED
  BY <1>3, FS_Subset, FS_CardinalityType

LEMMA FiniteSets ==
  IsFiniteSet(Reporting) /\ \A ends : IsFiniteSet(Settled(ends))
<1>1. IsFiniteSet(Nodes)
  <2>1. 1 \in Int /\ Out \in Int
    BY NodeFacts
  <2> QED
    BY <2>1, FS_Interval DEF Nodes
<1>2. IsFiniteSet(Frames)
  <2>1. 1 \in Int /\ MaxFrames \in Int
    BY QPAssumption
  <2> QED
    BY <2>1, FS_Interval DEF Frames
<1>3. /\ Reporting \in SUBSET Nodes
      /\ \A ends : Settled(ends) \in SUBSET Frames
  BY DEF Reporting, Settled
<1> QED
  BY <1>1, <1>2, <1>3, FS_Subset

(* A node that goes from one step of its loop to another. *)
LEMMA ReportMoves ==
  ASSUME TypeOK, NEW n \in Nodes, NEW to, pc' = [pc EXCEPT ![n] = to]
  PROVE  /\ Cardinality(Reporting) \in Nat
         /\ n \notin Reporting /\ to \notin {"report", "reportFatal"}
              => Cardinality(Reporting)' = Cardinality(Reporting)
         /\ n \notin Reporting /\ to \in {"report", "reportFatal"}
              => Cardinality(Reporting)' = Cardinality(Reporting) + 1
         /\ n \in Reporting /\ to \notin {"report", "reportFatal"}
              => Cardinality(Reporting)' = Cardinality(Reporting) - 1
<1>1. IsFiniteSet(Reporting) /\ Cardinality(Reporting) \in Nat
  BY FiniteSets, FS_CardinalityType
<1>2. pc'[n] = to /\ \A m \in Nodes : m # n => pc'[m] = pc[m]
  BY DEF TypeOK
<1>3. CASE to \in {"report", "reportFatal"}
  <2>1. Reporting' = Reporting \union {n}
    BY <1>2, <1>3 DEF Reporting
  <2>2. Cardinality(Reporting)'
          = IF n \in Reporting THEN Cardinality(Reporting)
                               ELSE Cardinality(Reporting) + 1
    BY <1>1, <2>1, FS_AddElement
  <2> QED
    BY <1>1, <1>3, <2>2
<1>4. CASE to \notin {"report", "reportFatal"}
  <2>1. Reporting' = Reporting \ {n}
    BY <1>2, <1>4 DEF Reporting
  <2>2. Cardinality(Reporting)'
          = IF n \in Reporting THEN Cardinality(Reporting) - 1
                               ELSE Cardinality(Reporting)
    BY <1>1, <2>1, FS_RemoveElement
  <2> QED
    BY <1>1, <1>4, <2>2
<1> QED
  BY <1>3, <1>4

(* A frame that ends is counted once more among the ends of its kind. *)
LEMMA SettledNumbers ==
  ASSUME TypeOK, Conservation, NEW n \in Nodes, held[n] # NoFrame,
         NEW end \in Fates \ {"pending"}, Settle(n, end),
         accepted' = accepted
  PROVE  /\ Wrong \in Nat /\ Done \in Nat
         /\ Wrong' = IF end \in {"failed", "lost"} THEN Wrong + 1 ELSE Wrong
         /\ Done' = IF end \in {"delivered", "dropped", "failed"}
                    THEN Done + 1 ELSE Done
<1>1. ASSUME NEW ends \in SUBSET (Fates \ {"pending"})
      PROVE  /\ Cardinality(Settled(ends)) \in Nat
             /\ Cardinality(Settled(ends))'
                  = IF end \in ends THEN Cardinality(Settled(ends)) + 1
                                    ELSE Cardinality(Settled(ends))
  <2>1. IsFiniteSet(Settled(ends))
    BY FiniteSets
  <2>2. /\ held[n] \notin Settled(ends)
        /\ end \in ends => Settled(ends)' = Settled(ends) \union {held[n]}
        /\ end \notin ends => Settled(ends)' = Settled(ends)
    BY HeldPending, SettleCounts
  <2>3. Cardinality(Settled(ends) \union {held[n]})
          = Cardinality(Settled(ends)) + 1
    BY <2>1, <2>2, FS_AddElement
  <2> QED
    BY <2>1, <2>2, <2>3, FS_CardinalityType
<1>2. /\ {"failed", "lost"} \in SUBSET (Fates \ {"pending"})
      /\ {"delivered", "dropped", "failed"} \in SUBSET (Fates \ {"pending"})
  BY DEF Fates
<1> QED
  BY <1>1, <1>2 DEF Wrong, Done

(* A frame comes to a node only from the node before, or as a new one, and  *)
(* a node whose Process has returned does not call it for this frame again: *)
(* no pair is lost.                                                         *)
LEMMA TriedKept ==
  ASSUME accepted \in Nat, accepted' \in Nat, accepted <= accepted',
         \A m \in Nodes : \A f \in 1 .. accepted :
           f \in At(m)' => \/ f \in At(m)
                           \/ \E k \in Nodes : k < m /\ f \in At(k),
         \A m \in Nodes :
           pc[m] \in {"forward", "report", "reportFatal"} =>
             \/ held[m] \notin At(m)'
             \/ /\ held'[m] = held[m]
                /\ pc'[m] \in {"forward", "report", "reportFatal"}
  PROVE  Tried \subseteq Tried'
<1> SUFFICES ASSUME NEW f \in 1 .. accepted, NEW n \in Nodes,
                    <<f, n>> \in Tried
             PROVE  <<f, n>> \in Tried'
  BY DEF Tried
<1>1. f \in 1 .. accepted'
  OBVIOUS
<1>2. ASSUME NEW m \in 1 .. n, f \in At(m)'
      PROVE  /\ m = n /\ held'[m] = f
             /\ pc'[m] \in {"forward", "report", "reportFatal"}
  <2>1. m \in Nodes /\ \A k \in Nodes : k < m => k \in 1 .. n /\ k # n
    BY NodeFacts DEF Nodes
  <2>2. \A k \in 1 .. n : f \in At(k) =>
          /\ k = n /\ held[k] = f
          /\ pc[k] \in {"forward", "report", "reportFatal"}
    BY DEF Tried
  <2>3. f \in At(m)
    BY <1>2, <2>1, <2>2
  <2> QED
    BY <1>2, <2>1, <2>2, <2>3
<1> QED
  BY <1>1, <1>2 DEF Tried

LEMMA TriedGrows ==
  ASSUME TypeOK, TypeOK', Tried \subseteq Tried'
  PROVE  /\ Cardinality(Tried) \in Nat /\ Cardinality(Tried)' \in Nat
         /\ Cardinality(Tried) <= Cardinality(Tried)'
         /\ Tried # Tried' => Cardinality(Tried) + 1 <= Cardinality(Tried)'
<1>1. accepted \in Nat /\ accepted' \in Nat
  BY QPAssumption DEF TypeOK
<1>2. /\ Tried \in SUBSET ((1 .. accepted) \X Nodes)
      /\ Tried' \in SUBSET ((1 .. accepted') \X Nodes)
  BY DEF Tried, Nodes
<1>3. /\ IsFiniteSet(Tried) /\ Cardinality(Tried) \in Nat
      /\ IsFiniteSet(Tried') /\ Cardinality(Tried') \in Nat
  BY <1>1, <1>2, PairsFinite
<1>4. /\ Cardinality(Tried) <= Cardinality(Tried')
      /\ Cardinality(Tried) = Cardinality(Tried') => Tried = Tried'
  BY <1>3, FS_Subset
<1> QED
  BY <1>3, <1>4

(* The error of a Process or SendAudio: a pair of a frame that is nowhere   *)
(* before the node that holds it, and that has been asked nothing yet.      *)
LEMMA FailTried ==
  ASSUME TypeOK, FifoOrder, Conservation, NEW n \in Nodes, NEW to,
         pc[n] = "process", pc' = [pc EXCEPT ![n] = to],
         to \in {"forward", "report", "reportFatal"},
         UNCHANGED <<input, held, accepted>>
  PROVE  Tried \subseteq Tried' /\ Tried # Tried'
<1> DEFINE f0 == held[n]
<1>1. /\ f0 # NoFrame /\ f0 \in 1 .. accepted
      /\ f0 \in At(n) /\ \A m \in Nodes : m # n => f0 \notin At(m)
  BY OnePlace, HeldPending DEF TypeOK, HeldWhileBusy
<1>2. \A m \in Nodes : At(m)' = At(m)
  BY DEF At, Queued
<1>3. pc'[n] = to /\ \A m \in Nodes : m # n => pc'[m] = pc[m]
  BY DEF TypeOK
<1>4. Tried \subseteq Tried'
  <2>1. accepted \in Nat
    BY QPAssumption DEF TypeOK
  <2> QED
    BY <1>2, <1>3, <2>1, TriedKept
<1>5. <<f0, n>> \notin Tried
  <2>1. n \in 1 .. n
    BY NodeFacts
  <2> QED
    BY <1>1, <2>1 DEF Tried
<1>6. <<f0, n>> \in Tried'
  <2>1. \A m \in 1 .. n : m \in Nodes
    BY NodeFacts DEF Nodes
  <2>2. \A m \in 1 .. n : f0 \in At(m)' =>
          /\ m = n /\ held'[m] = f0
          /\ pc'[m] \in {"forward", "report", "reportFatal"}
    BY <1>1, <1>2, <1>3, <2>1
  <2> QED
    BY <1>1, <2>2 DEF Tried
<1> QED
  BY <1>4, <1>5, <1>6

(* The steps that leave `errors` as it is lose no pair either. *)
LEMMA EnqueueTried ==
  ASSUME TypeOK, NEW p \in Producers, PushEnqueue(p)
  PROVE  Tried \subseteq Tried'
<1>1. /\ accepted \in Nat /\ accepted' = accepted + 1
      /\ held' = held /\ pc' = pc
  BY QPAssumption DEF PushEnqueue, TypeOK
<1>2. accepted + 1 \notin 1 .. accepted
  BY <1>1
<1>3. \A m \in Nodes : \A f \in 1 .. accepted : f \in At(m)' => f \in At(m)
  BY <1>2, EnqueueArrives, NodeFacts
<1> QED
  BY <1>1, <1>3, TriedKept

LEMMA TakeTried ==
  ASSUME TypeOK, NEW n \in Nodes, Take(n)
  PROVE  Tried \subseteq Tried'
<1>1. /\ accepted \in Nat /\ accepted' = accepted
      /\ pc[n] = "recv"
      /\ \A m \in Nodes : m # n => held'[m] = held[m] /\ pc'[m] = pc[m]
  BY QPAssumption DEF Take, TypeOK
<1> QED
  BY <1>1, TakeKeeps, TriedKept

LEMMA ForwardTried ==
  ASSUME TypeOK, FifoOrder, NEW n \in Nodes, Forward(n)
  PROVE  Tried \subseteq Tried'
<1>1. /\ accepted \in Nat /\ accepted' = accepted
      /\ held[n] # NoFrame /\ held'[n] = NoFrame
      /\ \A m \in Nodes : m # n => held'[m] = held[m] /\ pc'[m] = pc[m]
  <2>1. accepted \in Nat /\ accepted' = accepted
    BY QPAssumption DEF Forward, TypeOK
  <2>2. held[n] # NoFrame
    BY DEF Forward, TypeOK, HeldWhileBusy
  <2>3. /\ held'[n] = NoFrame
        /\ \A m \in Nodes : m # n => held'[m] = held[m] /\ pc'[m] = pc[m]
    BY DEF Forward, TypeOK
  <2> QED
    BY <2>1, <2>2, <2>3
<1>2. /\ n + 1 \in Nodes /\ n < n + 1 /\ n + 1 # n
      /\ held[n] \in At(n)
  BY <1>1, OnePlace, ForwardKeeps, NodeFacts
<1>3. held[n] \notin At(n)'
  <2>1. input'[n] = input[n]
    BY <1>2 DEF Forward, TypeOK
  <2>2. Queued(n)' = Queued(n)
    BY <2>1 DEF Queued
  <2>3. held[n] \notin Queued(n)
    BY <1>1, OnePlace
  <2> QED
    BY <1>1, <2>2, <2>3 DEF At
<1>4. \A m \in Nodes : \A f \in 1 .. accepted :
        f \in At(m)' => \/ f \in At(m)
                        \/ \E k \in Nodes : k < m /\ f \in At(k)
  <2> TAKE m \in Nodes
  <2> TAKE f \in 1 .. accepted
  <2>1. CASE m = n
    BY <2>1, ForwardKeeps
  <2>2. CASE m = n + 1
    BY <1>2, <2>2, ForwardKeeps
  <2>3. CASE m # n /\ m # n + 1
    BY <2>3, ForwardKeeps
  <2> QED
    BY <2>1, <2>2, <2>3
<1> QED
  BY <1>1, <1>3, <1>4, TriedKept

LEMMA SettleTried ==
  ASSUME TypeOK, FifoOrder, NEW n \in Nodes, held[n] # NoFrame,
         NEW end, Settle(n, end), NEW to, pc' = [pc EXCEPT ![n] = to],
         UNCHANGED <<input, accepted>>
  PROVE  Tried \subseteq Tried'
<1>1. /\ accepted \in Nat
      /\ \A m \in Nodes : m # n => held'[m] = held[m] /\ pc'[m] = pc[m]
  BY QPAssumption DEF Settle, TypeOK
<1>2. /\ At(n)' = At(n) \ {held[n]}
      /\ \A m \in Nodes : m # n => At(m)' = At(m)
  BY SettleLeaves
<1> QED
  BY <1>1, <1>2, TriedKept

LEMMA QuietTried ==
  ASSUME accepted \in Nat, UNCHANGED <<input, held, accepted>>,
         \A m \in Nodes :
           pc[m] \in {"forward", "report", "reportFatal"} =>
             pc'[m] \in {"forward", "report", "reportFatal"}
  PROVE  Tried \subseteq Tried'
<1>1. \A m \in Nodes : At(m)' = At(m)
  BY DEF At, Queued
<1> QED
  BY <1>1, TriedKept

(* The error of a Push to the next node: the frame ends and so is done with *)
(* the next node, which it has not seen.                                    *)
LEMMA RefusedTried ==
  ASSUME TypeOK, FifoOrder, Conservation, NEW n \in Nodes, ForwardRefused(n)
  PROVE  Tried \subseteq Tried' /\ Tried # Tried'
<1> DEFINE f0 == held[n]
<1>1. /\ n # Out /\ n + 1 \in Nodes /\ f0 # NoFrame
      /\ Settle(n, "lost") /\ pc' = [pc EXCEPT ![n] = "recv"]
      /\ UNCHANGED <<input, accepted>>
  <2>1. n # Out /\ f0 # NoFrame
    BY DEF ForwardRefused, TypeOK, HeldWhileBusy
  <2> QED
    BY <2>1, NodeFacts DEF ForwardRefused
<1>2. /\ f0 \in 1 .. accepted /\ f0 \in At(n)
      /\ \A m \in Nodes : m # n => f0 \notin At(m)
  BY <1>1, OnePlace, HeldPending
<1>3. <<f0, n + 1>> \notin Tried
  <2>1. n \in 1 .. (n + 1) /\ n # n + 1
    BY NodeFacts
  <2> QED
    BY <1>2, <2>1 DEF Tried
<1>4. <<f0, n + 1>> \in Tried'
  <2>1. \A m \in 1 .. (n + 1) : m \in Nodes
    BY <1>1, NodeFacts DEF Nodes
  <2>2. \A m \in Nodes : f0 \notin At(m)'
    BY <1>1, <1>2, SettleLeaves
  <2> QED
    BY <1>1, <1>2, <2>1, <2>2 DEF Tried
<1> QED
  BY <1>1, <1>3, <1>4, SettleTried

LEMMA InitAccounts == Init => AccountInv
<1> SUFFICES ASSUME Init PROVE AccountInv
  OBVIOUS
<1>1. \A ends \in SUBSET (Fates \ {"pending"}) : Settled(ends) = {}
  BY DEF Init, Settled
<1>2. /\ {"failed", "lost"} \in SUBSET (Fates \ {"pending"})
      /\ {"delivered", "dropped", "failed"} \in SUBSET (Fates \ {"pending"})
  BY DEF Fates
<1>3. Reporting = {}
  BY DEF Init, Reporting
<1>4. 1 .. accepted = {}
  BY DEF Init
<1>5. Tried = {}
  BY <1>4 DEF Tried
<1>6. Wrong = 0 /\ Done = 0 /\ Cardinality(Reporting) = 0
      /\ Cardinality(Tried) = 0
  BY <1>1, <1>2, <1>3, <1>5, FS_EmptySet DEF Wrong, Done
<1> QED
  BY <1>6 DEF Init, AccountInv

(* The sets of frames that are counted change with `fate` alone. *)
LEMMA SameFates ==
  ASSUME fate' = fate
  PROVE  /\ Wrong \in Nat /\ Done \in Nat
         /\ Wrong' = Wrong /\ Done' = Done
<1>1. \A ends : /\ Settled(ends)' = Settled(ends)
                /\ Cardinality(Settled(ends)) \in Nat
  BY FiniteSets, FS_CardinalityType DEF Settled
<1> QED
  BY <1>1 DEF Wrong, Done

(* A step that counts nothing, and after which no node is reporting that    *)
(* was not; only under "continue" does a node leave off reporting for       *)
(* another reason than that its frame ends.                                 *)
LEMMA AccountQuiet ==
  ASSUME TypeOK, TypeOK', AccountInv, Tried \subseteq Tried',
         UNCHANGED <<strategy, fate, counters>>,
         \/ pc' = pc
         \/ \E n \in Nodes, to \in NodePcs :
              /\ pc' = [pc EXCEPT ![n] = to]
              /\ to \notin {"report", "reportFatal"}
              /\ n \in Reporting => strategy = "continue"
  PROVE  AccountInv'
<1>1. /\ Wrong \in Nat /\ Done \in Nat
      /\ Wrong' = Wrong /\ Done' = Done
  BY SameFates
<1>2. Cardinality(Reporting) \in Nat
  BY FiniteSets, FS_CardinalityType
<1>3. \/ Cardinality(Reporting)' = Cardinality(Reporting)
      \/ /\ strategy = "continue"
         /\ Cardinality(Reporting)' = Cardinality(Reporting) - 1
  <2>1. CASE pc' = pc
    BY <2>1 DEF Reporting
  <2>2. ASSUME NEW n \in Nodes, NEW to \in NodePcs,
               pc' = [pc EXCEPT ![n] = to],
               to \notin {"report", "reportFatal"},
               n \in Reporting => strategy = "continue"
        PROVE  \/ Cardinality(Reporting)' = Cardinality(Reporting)
               \/ /\ strategy = "continue"
                  /\ Cardinality(Reporting)' = Cardinality(Reporting) - 1
    BY <2>2, ReportMoves
  <2> QED
    BY <2>1, <2>2
<1>4. /\ Cardinality(Tried) \in Nat /\ Cardinality(Tried)' \in Nat
      /\ Cardinality(Tried) <= Cardinality(Tried)'
  BY TriedGrows
<1>5. /\ errors \in Nat /\ processed \in Nat
      /\ errors' = errors /\ processed' = processed /\ strategy' = strategy
  BY DEF counters, TypeOK
<1> QED
  BY <1>1, <1>2, <1>3, <1>4, <1>5 DEF AccountInv

(* An error that is to be reported. *)
LEMMA AccountFails ==
  ASSUME TypeOK, TypeOK', FifoOrder, Conservation, AccountInv,
         NEW n \in Nodes, pc[n] = "process",
         NEW to \in {"report", "reportFatal"}, pc' = [pc EXCEPT ![n] = to],
         errors' = errors + 1,
         UNCHANGED <<strategy, input, held, accepted, fate, processed>>
  PROVE  AccountInv'
<1>1. /\ Wrong \in Nat /\ Done \in Nat
      /\ Wrong' = Wrong /\ Done' = Done
  BY SameFates
<1>2. /\ Cardinality(Reporting) \in Nat
      /\ Cardinality(Reporting)' = Cardinality(Reporting) + 1
  <2>1. n \notin Reporting
    BY DEF Reporting
  <2> QED
    BY <2>1, ReportMoves
<1>3. /\ Cardinality(Tried) \in Nat /\ Cardinality(Tried)' \in Nat
      /\ Cardinality(Tried) + 1 <= Cardinality(Tried)'
  <2>1. Tried \subseteq Tried' /\ Tried # Tried'
    BY FailTried
  <2> QED
    BY <2>1, TriedGrows
<1>4. errors \in Nat /\ processed \in Nat
  BY DEF TypeOK
<1> QED
  BY <1>1, <1>2, <1>3, <1>4 DEF AccountInv

(* Node n ends the frame it holds: with an error that had been counted and  *)
(* is reported, with one that is counted now, or with none.                 *)
Ends(n, end) ==
  /\ held[n] # NoFrame
  /\ Settle(n, end)
  /\ \E to \in {"recv", "closing"} : pc' = [pc EXCEPT ![n] = to]
  /\ UNCHANGED <<strategy, input, accepted>>
  /\ processed' = IF end \in {"delivered", "dropped", "failed"}
                  THEN processed + 1 ELSE processed
  /\ \/ /\ n \in Reporting /\ end \in {"failed", "lost"}
        /\ errors' = errors
     \/ /\ n \notin Reporting /\ end \in {"failed", "lost"}
        /\ errors' = errors + 1 /\ Tried # Tried'
     \/ /\ n \notin Reporting /\ end \notin {"failed", "lost"}
        /\ errors' = errors

LEMMA AccountEnds ==
  ASSUME TypeOK, TypeOK', FifoOrder, Conservation, AccountInv,
         NEW n \in Nodes, NEW end \in Fates \ {"pending"}, Ends(n, end)
  PROVE  AccountInv'
<1>0. PICK to \in {"recv", "closing"} : pc' = [pc EXCEPT ![n] = to]
  BY DEF Ends
<1>1. /\ Wrong \in Nat /\ Done \in Nat
      /\ Wrong' = IF end \in {"failed", "lost"} THEN Wrong + 1 ELSE Wrong
      /\ Done' = IF end \in {"delivered", "dropped", "failed"}
                 THEN Done + 1 ELSE Done
  BY SettledNumbers DEF Ends
<1>2. /\ Cardinality(Reporting) \in Nat
      /\ n \in Reporting =>
           Cardinality(Reporting)' = Cardinality(Reporting) - 1
      /\ n \notin Reporting =>
           Cardinality(Reporting)' = Cardinality(Reporting)
  BY <1>0, ReportMoves
<1>3. /\ Cardinality(Tried) \in Nat /\ Cardinality(Tried)' \in Nat
      /\ Cardinality(Tried) <= Cardinality(Tried)'
      /\ Tried # Tried' => Cardinality(Tried) + 1 <= Cardinality(Tried)'
  <2>1. Tried \subseteq Tried'
    BY <1>0, SettleTried DEF Ends
  <2> QED
    BY <2>1, TriedGrows
<1>4. errors \in Nat /\ processed \in Nat
  BY DEF TypeOK
<1>5. processed' = Done'
  BY <1>1, <1>4 DEF AccountInv, Ends
<1>6. /\ errors' >= Wrong' + Cardinality(Reporting)'
      /\ strategy' # "continue" => errors' = Wrong' + Cardinality(Reporting)'
      /\ errors' <= Cardinality(Tried)'
  <2> DEFINE R == Cardinality(Reporting)
             T == Cardinality(Tried)
  <2>1. /\ errors >= Wrong + R
        /\ strategy # "continue" => errors = Wrong + R
        /\ errors <= T
    BY DEF AccountInv
  <2>2. \/ errors' = errors /\ Wrong' = Wrong + 1 /\ R' = R - 1
        \/ errors' = errors + 1 /\ Wrong' = Wrong + 1 /\ R' = R
                               /\ T + 1 <= T'
        \/ errors' = errors /\ Wrong' = Wrong /\ R' = R
    BY <1>1, <1>2, <1>3 DEF Ends
  <2>3. /\ R \in Nat /\ T \in Nat /\ T' \in Nat /\ T <= T'
        /\ strategy' = strategy
    BY <1>2, <1>3 DEF Ends
  <2> HIDE DEF R, T
  <2>4. /\ errors' >= Wrong' + R' /\ errors' <= T'
        /\ strategy' # "continue" => errors' = Wrong' + R'
    BY <1>1, <1>4, <2>1, <2>2, <2>3
  <2> QED
    BY <2>4 DEF R, T
<1> QED
  BY <1>5, <1>6 DEF AccountInv

(* A step without an error, a frame that ends or a report: QuietStep but    *)
(* for the two failures, and the moves of a frame.                          *)
SilentStep ==
  \/ \E p \in Producers : PushStep(p)
  \/ \E n \in Nodes : \/ Take(n) \/ Exit(n) \/ StageOK(n) \/ StageContinues(n)
                      \/ Forward(n) \/ NodeCloseBegin(n) \/ NodeCloseReturn(n)
  \/ SessionCancel
  \/ CloseNext

LEMMA SilentTried ==
  ASSUME TypeOK, FifoOrder, SilentStep
  PROVE  Tried \subseteq Tried'
<1>0. accepted \in Nat
  BY QPAssumption DEF TypeOK
<1>1. ASSUME NEW p \in Producers, PushStep(p) PROVE Tried \subseteq Tried'
  <2>1. CASE PushEnqueue(p)
    BY <2>1, EnqueueTried
  <2>2. CASE PushCheck(p) \/ PushDone(p) \/ PushCallerCancelled(p)
    <3>1. UNCHANGED <<input, held, accepted, pc>>
      BY <2>2 DEF PushCheck, PushDone, PushCallerCancelled
    <3> QED
      BY <1>0, <3>1, QuietTried
  <2> QED
    BY <1>1, <2>1, <2>2 DEF PushStep
<1>2. ASSUME NEW n \in Nodes, Take(n) \/ Forward(n)
      PROVE  Tried \subseteq Tried'
  BY <1>2, TakeTried, ForwardTried
<1>3. ASSUME NEW n \in Nodes,
             Exit(n) \/ StageOK(n) \/ StageContinues(n) \/ NodeCloseReturn(n)
      PROVE  Tried \subseteq Tried'
  <2>1. UNCHANGED <<input, held, accepted>>
    BY <1>3 DEF Exit, StageOK, StageContinues, NodeCloseReturn
  <2>2. \/ pc[n] \notin {"forward", "report", "reportFatal"}
        \/ pc'[n] = "forward"
    BY <1>3 DEF Exit, StageOK, StageContinues, NodeCloseReturn, TypeOK
  <2>3. \A m \in Nodes : m # n => pc'[m] = pc[m]
    BY <1>3 DEF Exit, StageOK, StageContinues, NodeCloseReturn, TypeOK
  <2> QED
    BY <1>0, <2>1, <2>2, <2>3, QuietTried
<1>4. CASE \/ \E n \in Nodes : NodeCloseBegin(n)
           \/ SessionCancel \/ CloseNext
  <2>1. UNCHANGED <<input, held, accepted, pc>>
    BY <1>4 DEF NodeCloseBegin, SessionCancel, CloseNext, SessionCloseBegin,
                CloseCancel, CloseSignal, CloseStage
  <2> QED
    BY <1>0, <2>1, QuietTried
<1> QED
  BY <1>1, <1>2, <1>3, <1>4 DEF SilentStep

LEMMA SilentAccounts ==
  ASSUME TypeOK, TypeOK', FifoOrder, AccountInv, SilentStep
  PROVE  AccountInv'
<1>1. Tried \subseteq Tried'
  BY SilentTried
<1>2. UNCHANGED <<strategy, fate, counters>>
  BY DEF SilentStep, PushStep, PushCheck, PushEnqueue, PushDone,
     PushCallerCancelled, Take, Exit, StageOK, StageContinues, Forward,
     NodeCloseBegin, NodeCloseReturn, SessionCancel, CloseNext,
     SessionCloseBegin, CloseCancel, CloseSignal, CloseStage
<1>3. CASE \/ \E p \in Producers : PushStep(p)
           \/ \E n \in Nodes : NodeCloseBegin(n)
           \/ SessionCancel \/ CloseNext
  <2>1. pc' = pc
    BY <1>3 DEF PushStep, PushCheck, PushEnqueue, PushDone,
       PushCallerCancelled, NodeCloseBegin, SessionCancel, CloseNext,
       SessionCloseBegin, CloseCancel, CloseSignal, CloseStage
  <2> QED
    BY <1>1, <1>2, <2>1, AccountQuiet
<1>4. ASSUME NEW n \in Nodes,
             \/ Take(n) \/ Exit(n) \/ StageOK(n) \/ StageContinues(n)
             \/ Forward(n) \/ NodeCloseReturn(n)
      PROVE  AccountInv'
  <2>1. \E to \in {"recv", "process", "forward", "exited"} :
          /\ pc' = [pc EXCEPT ![n] = to]
          /\ n \in Reporting => strategy = "continue"
    BY <1>4 DEF Take, Exit, StageOK, StageContinues, Forward,
                NodeCloseReturn, Reporting
  <2>2. PICK to \in NodePcs :
          /\ pc' = [pc EXCEPT ![n] = to]
          /\ to \notin {"report", "reportFatal"}
          /\ n \in Reporting => strategy = "continue"
    BY <2>1 DEF NodePcs
  <2> QED
    BY <1>1, <1>2, <2>2, AccountQuiet
<1> QED
  BY <1>3, <1>4 DEF SilentStep

LEMMA NextAccounts ==
  TypeOK /\ TypeOK' /\ FifoOrder /\ Conservation /\ AccountInv /\ [Next]_vars
    => AccountInv'
<1> SUFFICES ASSUME TypeOK, TypeOK', FifoOrder, Conservation, AccountInv,
                    [Next]_vars
             PROVE  AccountInv'
  OBVIOUS
<1>1. CASE SilentStep
  BY <1>1, SilentAccounts
<1>2. ASSUME NEW n \in Nodes, StageFails(n) \/ (n = Out /\ SendFails)
      PROVE  AccountInv'
  <2>1. /\ pc[n] = "process" /\ errors' = errors + 1
        /\ \E to \in {"report", "reportFatal"} : pc' = [pc EXCEPT ![n] = to]
        /\ UNCHANGED <<strategy, input, held, accepted, fate, processed>>
    BY <1>2 DEF StageFails, SendFails
  <2> QED
    BY <2>1, AccountFails
<1>3. ASSUME NEW n \in Nodes, StageCloses(n) \/ (n = Out /\ SendReported)
      PROVE  Ends(n, "lost")
  <2>1. pc[n] \in {"report", "reportFatal"} /\ held[n] # NoFrame
    BY <1>3 DEF StageCloses, SendReported, TypeOK, HeldWhileBusy
  <2> QED
    BY <1>3, <2>1 DEF StageCloses, SendReported, Ends, Reporting, counters
<1>4. ASSUME NEW n \in Nodes, StageSwallows(n) PROVE Ends(n, "failed")
  <2>1. pc[n] = "report" /\ held[n] # NoFrame
    BY <1>4 DEF StageSwallows, TypeOK, HeldWhileBusy
  <2> QED
    BY <1>4, <2>1 DEF StageSwallows, Ends, Reporting
<1>5. ASSUME NEW n \in Nodes, ForwardRefused(n) PROVE Ends(n, "lost")
  <2>1. pc[n] = "forward" /\ held[n] # NoFrame
    BY <1>5 DEF ForwardRefused, TypeOK, HeldWhileBusy
  <2>2. Tried # Tried'
    BY <1>5, RefusedTried
  <2> QED
    BY <1>5, <2>1, <2>2 DEF ForwardRefused, Ends, Reporting
<1>6. ASSUME NEW n \in Nodes, StageDrops(n) PROVE Ends(n, "dropped")
  <2>1. pc[n] = "process" /\ held[n] # NoFrame
    BY <1>6 DEF StageDrops, TypeOK, HeldWhileBusy
  <2> QED
    BY <1>6, <2>1 DEF StageDrops, Ends, Reporting
<1>7. CASE SendOK
  <2>1. Out \in Nodes /\ pc[Out] = "process" /\ held[Out] # NoFrame
    BY <1>7, NodeFacts DEF SendOK, TypeOK, HeldWhileBusy
  <2>2. Ends(Out, "delivered")
    BY <1>7, <2>1 DEF SendOK, Ends, Reporting
  <2> QED
    BY <2>1, <2>2, AccountEnds DEF Fates
<1>8. CASE UNCHANGED vars
  <2>1. UNCHANGED <<strategy, input, held, accepted, fate, pc, counters>>
    BY <1>8 DEF vars, counters
  <2>2. accepted \in Nat
    BY QPAssumption DEF TypeOK
  <2>3. Tried \subseteq Tried'
    BY <2>1, <2>2, QuietTried
  <2> QED
    BY <2>1, <2>3, AccountQuiet
<1>9. ASSUME NEW n \in Nodes, NEW end \in {"lost", "failed", "dropped"},
             Ends(n, end)
      PROVE  AccountInv'
  BY <1>9, AccountEnds DEF Fates
<1> QED
  BY <1>1, <1>2, <1>3, <1>4, <1>5, <1>6, <1>7, <1>8, <1>9, NodeFacts
     DEF Next, NodeStep, StageStep, OutputStep, SilentStep

(* Stats can be read as what it says, however many stages and frames there  *)
(* are: `processed` counts each frame once, and `errors`, though a frame    *)
(* may fail again at every node under "continue", never more than once for  *)
(* a frame at a node (queue.go:253, 261, 264, 286, 350-369).                *)
THEOREM StatsAgree == Spec => []Accounting
<1>1. Init => QInv /\ AccountInv
  BY InitTypeOK, InitFifo, InitConserved, InitAccounts DEF QInv
<1>2. QInv /\ AccountInv /\ [Next]_vars => QInv' /\ AccountInv'
  BY NextTypeOK, NextFifo, NextConserved, NextAccounts DEF QInv
<1>3. QInv /\ AccountInv => Accounting
  <2> SUFFICES ASSUME TypeOK, AccountInv PROVE Accounting
    BY DEF QInv
  <2>1. /\ Cardinality(Tried) \in Nat
        /\ Cardinality(Tried) <= accepted * (NStages + 1)
    <3>1. /\ accepted \in Nat
          /\ Tried \in SUBSET ((1 .. accepted) \X Nodes)
      BY QPAssumption DEF TypeOK, Tried
    <3> QED
      BY <3>1, PairsFinite DEF Out
  <2>2. accepted * (NStages + 1) \in Nat /\ errors \in Nat
    BY QPAssumption DEF TypeOK
  <2>3. errors <= accepted * (NStages + 1)
    BY <2>1, <2>2 DEF AccountInv
  <2> QED
    BY <2>3 DEF AccountInv, Accounting, Wrong, Done, Reporting
<1> QED
  BY <1>1, <1>2, <1>3, PTL DEF Spec

=============================================================================
