------------------------- MODULE ResponseTurn_proofs -------------------------
(* Proofs about ResponseTurn, for any number of requests and cancellations. *)
EXTENDS ResponseTurn, FiniteSetTheorems, TLAPS

(* The part of TypeOK the argument needs. *)
GenTypes ==
  /\ pc \in [Gens -> GenPcs]
  /\ cancelled \subseteq Gens
  /\ responseID \in 0 .. MaxGen
  /\ cancelFn \in 0 .. MaxGen
  /\ \A g \in Gens : pc[g] = "unborn" <=> g > responseID

Inv == GenTypes /\ CancelReachesLive

LEMMA InitInv == Init => Inv
BY RTAssumption DEF Init, Inv, GenTypes, CancelReachesLive, Live, Gens, GenPcs

(* startMockResponse cancels the one generation that may be live and makes  *)
(* the new one its only successor.                                          *)
LEMMA StartInv == Inv /\ StartMockResponse => Inv'
<1> SUFFICES ASSUME Inv, StartMockResponse PROVE Inv'
  OBVIOUS
<1>1. responseID + 1 \in Gens /\ responseID' = responseID + 1
  BY RTAssumption DEF StartMockResponse, Inv, GenTypes, Gens
<1>2. GenTypes'
  BY <1>1, RTAssumption DEF StartMockResponse, Inv, GenTypes, Gens, GenPcs
<1>3. ASSUME NEW g \in Gens, Live(g)', g # responseID + 1 PROVE FALSE
  <2>1. pc'[g] = pc[g] /\ g \notin cancelled'
    BY <1>1, <1>3 DEF StartMockResponse, Inv, GenTypes, Live
  <2>2. g \notin cancelled /\ g # cancelFn
    BY <2>1 DEF StartMockResponse, Gens
  <2>3. Live(g) /\ g # cancelFn
    BY <1>3, <2>1, <2>2 DEF Live
  <2> QED
    BY <2>3 DEF Inv, CancelReachesLive
<1>4. CancelReachesLive'
  BY <1>1, <1>3 DEF StartMockResponse, CancelReachesLive
<1> QED
  BY <1>2, <1>4 DEF Inv

(* cancelMockResponse leaves no generation live. *)
LEMMA CancelInv == Inv /\ CancelMockResponse /\ pc' = pc => Inv'
<1> SUFFICES ASSUME Inv, CancelMockResponse, pc' = pc PROVE Inv'
  OBVIOUS
<1>1. GenTypes'
  BY RTAssumption DEF CancelMockResponse, Inv, GenTypes, Gens
<1>2. ASSUME NEW g \in Gens, Live(g)' PROVE FALSE
  <2>1. g \notin cancelled /\ g # cancelFn
    BY <1>2 DEF CancelMockResponse, Live, Gens
  <2>2. Live(g) /\ g # cancelFn
    BY <1>2, <2>1 DEF Live
  <2> QED
    BY <2>2 DEF Inv, CancelReachesLive
<1> QED
  BY <1>1, <1>2 DEF Inv, CancelReachesLive, CancelMockResponse

(* A step of one generation that starts nobody and leaves the service alone.*)
LEMMA MoveInv ==
  ASSUME Inv, NEW g \in Gens, pc[g] # "unborn", pc[g] # "ended",
         NEW next \in GenPcs \ {"unborn"}, Goto(g, next), UNCHANGED service
  PROVE  Inv'
<1>1. GenTypes'
  BY DEF Inv, GenTypes, Goto, service
<1>2. \A h \in Gens : Live(h)' => Live(h)
  BY DEF Inv, GenTypes, Goto, service, Live
<1> QED
  BY <1>1, <1>2 DEF Inv, CancelReachesLive, service

(* clearMockResponse drops the cancel function only if it is its own.       *)
LEMMA ClearInv == ASSUME Inv, NEW g \in Gens, Clear(g) PROVE Inv'
<1>1. GenTypes'
  BY RTAssumption DEF Inv, GenTypes, Clear, Goto, GenPcs, Gens
<1>2. \A h \in Gens : Live(h)' => Live(h) /\ h # g
  BY DEF Inv, GenTypes, Clear, Goto, Live
<1>3. ASSUME NEW h \in Gens, Live(h)' PROVE cancelFn' = h
  <2>1. cancelFn = h /\ h # g
    BY <1>2, <1>3 DEF Inv, CancelReachesLive
  <2>2. responseID = h
    BY <2>1 DEF Inv, CancelReachesLive, Gens
  <2> QED
    BY <2>1, <2>2 DEF Clear
<1>4. cancelFn' \in {0, responseID'}
  BY DEF Inv, CancelReachesLive, Clear
<1> QED
  BY <1>1, <1>3, <1>4 DEF Inv, CancelReachesLive

LEMMA NextInv == Inv /\ [Next]_vars => Inv'
<1> SUFFICES ASSUME Inv, [Next]_vars PROVE Inv'
  OBVIOUS
<1>1. CASE ClientRequest \/ VadRequest
  BY <1>1, StartInv DEF ClientRequest, VadRequest
<1>2. CASE ClientCancel \/ CloseService
  BY <1>2, CancelInv DEF ClientCancel, CloseService
<1>3. ASSUME NEW g \in Gens, GenStep(g) PROVE Inv'
  <2> DEFINE Moves == /\ pc[g] \notin {"unborn", "ended"}
                      /\ UNCHANGED service
                      /\ \E next \in GenPcs \ {"unborn"} : Goto(g, next)
  <2>1. Moves => Inv'
    BY MoveInv
  <2> HIDE DEF Moves
  <2>2. CASE Gap(g)
    BY <2>1, <2>2 DEF Gap, After, Moves, GenPcs
  <2>3. CASE Ensure(g)
    BY <2>1, <2>3 DEF Ensure, Moves, GenPcs
  <2>4. CASE WriteFails(g) \/ CheckAudio(g) \/ PushAudioRefused(g)
    BY <2>1, <2>4 DEF WriteFails, CheckAudio, PushAudioRefused, After, Moves,
       GenPcs
  <2>5. CASE WriteCreated(g) \/ WriteText(g) \/ WriteDone(g)
    BY <2>1, <2>5 DEF WriteCreated, WriteText, WriteDone, After, Moves, GenPcs
  <2>6. CASE PushAudio(g) \/ Reset(g)
    BY <2>1, <2>6 DEF PushAudio, Reset, After, Moves, GenPcs
  <2>7. CASE Clear(g)
    BY <2>7, ClearInv
  <2> QED
    BY <1>3, <2>2, <2>3, <2>4, <2>5, <2>6, <2>7 DEF GenStep
<1>4. CASE \/ CancelWritesDone \/ CancelResets
           \/ \E f \in pending : DeliverAudio(f) \/ LoseAudio(f)
           \/ ConnectionDies \/ CloseDownlink \/ CloseClient
           \/ UNCHANGED vars
  BY <1>4 DEF CancelWritesDone, CancelResets, DeliverAudio, LoseAudio,
     ConnectionDies, CloseDownlink, CloseClient, vars, service, Inv, GenTypes,
     CancelReachesLive, Live
<1> QED
  BY <1>1, <1>2, <1>3, <1>4 DEF Next

(* At every moment a cancellation, a newer request or Close reaches the one *)
(* generation that may still be running.                                    *)
THEOREM CancelAlwaysReaches == Spec => []CancelReachesLive
<1>1. Spec => []Inv
  BY InitInv, NextInv, PTL DEF Spec
<1> QED
  BY <1>1, PTL DEF Inv

-----------------------------------------------------------------------------
(* ResponseTurn is composed with the conduit that QueuePipeline implements: *)
(* its steps conjoin those of the conduit.  ConduitStep puts that into a    *)
(* form the argument about HeardOnce can use.                               *)

(* A step that does not begin or end a Push leaves the conduit alone. *)
LEMMA ConduitIdle ==
  ASSUME Inv, UNCHANGED downlink, (closeStep = "open")' = (closeStep = "open"),
         \A h \in Gens : pc'[h] = "pushAudio" <=> pc[h] = "pushAudio"
  PROVE  UNCHANGED Downlink!conduitVars
BY DEF downlink, Downlink!conduitVars

LEMMA GotoElsewhere ==
  ASSUME Inv, NEW g \in Gens, NEW next, Goto(g, next),
         pc[g] # "pushAudio", next # "pushAudio"
  PROVE  \A h \in Gens : pc'[h] = "pushAudio" <=> pc[h] = "pushAudio"
BY DEF Goto, Inv, GenTypes

LEMMA StartElsewhere ==
  ASSUME Inv, StartMockResponse
  PROVE  \A h \in Gens : pc'[h] = "pushAudio" <=> pc[h] = "pushAudio"
<1>1. pc[responseID + 1] = "unborn" /\ responseID + 1 \in Gens
  BY RTAssumption DEF StartMockResponse, Inv, GenTypes, Gens
<1> QED
  BY <1>1 DEF StartMockResponse, Inv, GenTypes

LEMMA ConduitStep ==
  ASSUME Inv, [Next]_vars
  PROVE  [Downlink!Next]_(Downlink!conduitVars)
<1> DEFINE Idle == UNCHANGED Downlink!conduitVars
<1>1. CASE ClientRequest \/ VadRequest
  BY <1>1, ConduitIdle, StartElsewhere DEF ClientRequest, VadRequest
<1>2. CASE \/ ClientCancel \/ CancelWritesDone \/ CancelResets
           \/ ConnectionDies \/ CloseService \/ CloseClient \/ UNCHANGED vars
  <2>1. UNCHANGED <<downlink, pc>>
    BY <1>2 DEF ClientCancel, CancelWritesDone, CancelResets, ConnectionDies,
       CloseService, CloseClient, vars, downlink
  <2>2. (closeStep = "open")' = (closeStep = "open")
    BY <1>2 DEF ClientCancel, CancelWritesDone, CancelResets, ConnectionDies,
       CloseService, CloseClient, vars
  <2> QED
    BY <2>1, <2>2, ConduitIdle
<1>3. ASSUME NEW g \in Gens, GenStep(g)
      PROVE  Idle \/ Downlink!Call(g) \/ Downlink!Accept(g)
                  \/ Downlink!TurnAway(g)
  <2> DEFINE Leaves == /\ UNCHANGED <<downlink, closeStep>>
                       /\ pc[g] # "pushAudio"
                       /\ \E next \in GenPcs \ {"pushAudio"} : Goto(g, next)
  <2>1. Leaves => Idle
    BY GotoElsewhere, ConduitIdle
  <2> HIDE DEF Leaves, Idle
  <2>2. CASE Gap(g) \/ Ensure(g)
    BY <2>1, <2>2 DEF Gap, Ensure, After, Leaves, GenPcs
  <2>3. CASE WriteFails(g) \/ WriteCreated(g) \/ WriteText(g) \/ WriteDone(g)
    BY <2>1, <2>3 DEF WriteFails, WriteCreated, WriteText, WriteDone, After,
       Leaves, GenPcs
  <2>4. CASE Reset(g) \/ Clear(g)
    BY <2>1, <2>4 DEF Reset, Clear, After, Leaves, GenPcs
  <2>5. CASE CheckAudio(g)
    BY <2>1, <2>5 DEF CheckAudio, Leaves, GenPcs
  <2>6. CASE PushAudio(g) \/ PushAudioRefused(g)
    BY <2>6 DEF PushAudio, PushAudioRefused
  <2> QED
    BY <1>3, <2>2, <2>3, <2>4, <2>5, <2>6 DEF GenStep
<1>4. ASSUME NEW f \in pending, DeliverAudio(f) \/ LoseAudio(f)
      PROVE  Downlink!Deliver(f) \/ Downlink!Lose(f)
  BY <1>4 DEF DeliverAudio, LoseAudio
<1>5. CASE CloseDownlink
  BY <1>5 DEF CloseDownlink, Downlink!Next
<1> QED
  BY <1>1, <1>2, <1>3, <1>4, <1>5 DEF Next, Downlink!Next

-----------------------------------------------------------------------------
(* Types: what GenTypes leaves out of TypeOK. *)

RestTypes ==
  /\ responseActive \in BOOLEAN
  /\ reader \in {"idle", "writeDone", "reset"}
  /\ cancels \in 0 .. MaxCancel
  /\ vadFired \in BOOLEAN
  /\ closeStep \in {"open", "downlink", "service", "client"}
  /\ alive \in BOOLEAN

FlowTypes ==
  /\ origin \in Seq(Gens)
  /\ pending \subseteq DOMAIN origin
  /\ Cardinality(pending) <= DownlinkCapacity
  /\ delivered \in Seq(DOMAIN origin)

ClientTypes ==
  /\ nCreated \in Nat /\ nDone \in Nat
  /\ inTurn \in BOOLEAN
  /\ seen \in [Gens -> SUBSET {"text", "audio"}]
  /\ strayText \in BOOLEAN

LEMMA TypesSplit ==
  TypeOK <=> GenTypes /\ RestTypes /\ FlowTypes /\ ClientTypes
BY DEF TypeOK, GenTypes, RestTypes, FlowTypes, ClientTypes

LEMMA InitTypeOK == Init => TypeOK
<1> SUFFICES ASSUME Init PROVE TypeOK
  OBVIOUS
<1>1. GenTypes
  BY InitInv DEF Inv
<1>2. RestTypes
  <2>1. cancels \in 0 .. MaxCancel
    BY RTAssumption DEF Init
  <2> QED
    BY <2>1 DEF Init, RestTypes
<1>4. ClientTypes
  BY DEF Init, ClientTypes
<1>3. FlowTypes
  BY RTAssumption, FS_EmptySet DEF Init, FlowTypes
<1> QED
  BY <1>1, <1>2, <1>3, <1>4, TypesSplit

(* A message the client receives keeps its view well formed. *)
LEMMA TurnTypes ==
  ASSUME ClientTypes,
         ClientSeesCreated \/ ClientSeesDone \/ UNCHANGED client
  PROVE  ClientTypes'
<1>1. CASE ClientSeesCreated
  <2>1. nCreated' \in Nat
    BY <1>1 DEF ClientTypes, ClientSeesCreated
  <2> QED
    BY <1>1, <2>1 DEF ClientTypes, ClientSeesCreated
<1>2. CASE ClientSeesDone
  <2>1. nDone' \in Nat
    BY <1>2 DEF ClientTypes, ClientSeesDone
  <2> QED
    BY <1>2, <2>1 DEF ClientTypes, ClientSeesDone
<1>3. CASE UNCHANGED client
  BY <1>3 DEF ClientTypes, client
<1> QED
  BY <1>1, <1>2, <1>3

LEMMA DeltaTypes ==
  ASSUME ClientTypes, NEW g \in Gens, NEW kind \in {"text", "audio"},
         ClientSeesDelta(g, kind)
  PROVE  ClientTypes'
<1>1. seen' \in [Gens -> SUBSET {"text", "audio"}]
  BY DEF ClientTypes, ClientSeesDelta
<1>2. strayText' \in BOOLEAN
  BY DEF ClientTypes, ClientSeesDelta
<1> QED
  BY <1>1, <1>2 DEF ClientTypes, ClientSeesDelta

LEMMA NextRestTypes == RestTypes /\ [Next]_vars => RestTypes'
<1> SUFFICES ASSUME RestTypes, [Next]_vars PROVE RestTypes'
  OBVIOUS
<1>1. CASE ClientRequest \/ VadRequest
  BY <1>1 DEF ClientRequest, VadRequest, RestTypes
<1>2. CASE ClientCancel
  BY <1>2, RTAssumption DEF ClientCancel, RestTypes
<1>3. CASE CancelWritesDone \/ CancelResets
  BY <1>3 DEF CancelWritesDone, CancelResets, RestTypes
<1>4. ASSUME NEW g \in Gens, GenStep(g) PROVE RestTypes'
  BY <1>4 DEF GenStep, Gap, Ensure, WriteFails, WriteCreated, WriteText,
     CheckAudio, PushAudio, PushAudioRefused, WriteDone, Reset, Clear,
     RestTypes
<1>5. CASE \/ \E f \in pending : DeliverAudio(f) \/ LoseAudio(f)
           \/ ConnectionDies \/ CloseDownlink \/ CloseService \/ CloseClient
           \/ UNCHANGED vars
  BY <1>5 DEF DeliverAudio, LoseAudio, ConnectionDies, CloseDownlink,
     CloseService, CloseClient, vars, RestTypes
<1> QED
  BY <1>1, <1>2, <1>3, <1>4, <1>5 DEF Next

(* The downlink takes a frame only while it has room for it. *)
LEMMA PushFlowTypes ==
  ASSUME FlowTypes, NEW g \in Gens, PushAudio(g)
  PROVE  FlowTypes'
<1> DEFINE f == Len(origin) + 1
<1>1. /\ origin' = Append(origin, g)
      /\ pending' = pending \union {f}
      /\ delivered' = delivered
      /\ Cardinality(pending) < DownlinkCapacity
  BY DEF PushAudio, Downlink!Accept
<1>2. /\ origin' \in Seq(Gens)
      /\ DOMAIN origin = 1 .. Len(origin) /\ Len(origin) \in Nat
      /\ DOMAIN origin' = 1 .. f
      /\ DOMAIN origin \subseteq DOMAIN origin'
  BY <1>1 DEF FlowTypes
<1>3. IsFiniteSet(pending) /\ f \notin pending
  <2>1. IsFiniteSet(1 .. Len(origin))
    BY <1>2, FS_Interval
  <2>2. pending \subseteq 1 .. Len(origin)
    BY <1>2 DEF FlowTypes
  <2>3. f \notin 1 .. Len(origin)
    BY <1>2
  <2>4. IsFiniteSet(pending)
    BY <2>1, <2>2, FS_Subset
  <2> QED
    BY <2>2, <2>3, <2>4
<1>4. Cardinality(pending') <= DownlinkCapacity
  <2>1. Cardinality(pending') = Cardinality(pending) + 1
    BY <1>1, <1>3, FS_AddElement
  <2>2. Cardinality(pending) \in Nat
    BY <1>3, FS_CardinalityType
  <2> QED
    BY <1>1, <2>1, <2>2, RTAssumption
<1>5. pending' \subseteq DOMAIN origin'
  BY <1>1, <1>2 DEF FlowTypes
<1>6. delivered' \in Seq(DOMAIN origin')
  BY <1>1, <1>2 DEF FlowTypes
<1> QED
  BY <1>2, <1>4, <1>5, <1>6 DEF FlowTypes

(* A frame that is delivered or lost leaves the downlink. *)
LEMMA LeaveFlowTypes ==
  ASSUME FlowTypes, NEW f \in pending, origin' = origin,
         pending' = pending \ {f},
         delivered' \in {delivered, Append(delivered, f)}
  PROVE  FlowTypes'
<1>1. f \in DOMAIN origin /\ DOMAIN origin = 1 .. Len(origin)
      /\ Len(origin) \in Nat
  BY DEF FlowTypes
<1>2. IsFiniteSet(pending)
  <2>1. IsFiniteSet(1 .. Len(origin))
    BY <1>1, FS_Interval
  <2>2. pending \subseteq 1 .. Len(origin)
    BY <1>1 DEF FlowTypes
  <2> QED
    BY <2>1, <2>2, FS_Subset
<1>3. Cardinality(pending') <= DownlinkCapacity
  <2>1. Cardinality(pending') = Cardinality(pending) - 1
    BY <1>2, FS_RemoveElement
  <2>2. Cardinality(pending) \in Nat
    BY <1>2, FS_CardinalityType
  <2> QED
    BY <2>1, <2>2, RTAssumption DEF FlowTypes
<1>4. delivered' \in Seq(DOMAIN origin')
  BY <1>1 DEF FlowTypes
<1> QED
  BY <1>3, <1>4 DEF FlowTypes

LEMMA NextFlowTypes == FlowTypes /\ [Next]_vars => FlowTypes'
<1> SUFFICES ASSUME FlowTypes, [Next]_vars PROVE FlowTypes'
  OBVIOUS
<1>1. CASE \/ ClientRequest \/ VadRequest \/ ClientCancel
           \/ CancelWritesDone \/ CancelResets
           \/ ConnectionDies \/ CloseDownlink \/ CloseService \/ CloseClient
           \/ UNCHANGED vars
  <2>1. UNCHANGED downlink
    BY <1>1 DEF ClientRequest, VadRequest, ClientCancel, CancelWritesDone,
       CancelResets, ConnectionDies, CloseDownlink, CloseService, CloseClient,
       vars, downlink, Downlink!Shut
  <2> QED
    BY <2>1 DEF downlink, FlowTypes
<1>2. ASSUME NEW g \in Gens, GenStep(g) PROVE FlowTypes'
  <2>1. CASE PushAudio(g)
    BY <2>1, PushFlowTypes
  <2>2. CASE \/ Gap(g) \/ Ensure(g) \/ WriteFails(g) \/ WriteCreated(g)
             \/ WriteText(g) \/ CheckAudio(g) \/ PushAudioRefused(g)
             \/ WriteDone(g) \/ Reset(g) \/ Clear(g)
    <3>1. UNCHANGED downlink
      BY <2>2 DEF Gap, Ensure, WriteFails, WriteCreated, WriteText,
         CheckAudio, PushAudioRefused, WriteDone, Reset, Clear, downlink,
         Downlink!Call, Downlink!TurnAway
    <3> QED
      BY <3>1 DEF downlink, FlowTypes
  <2> QED
    BY <1>2, <2>1, <2>2 DEF GenStep
<1>3. ASSUME NEW f \in pending, DeliverAudio(f) \/ LoseAudio(f)
      PROVE  FlowTypes'
  BY <1>3, LeaveFlowTypes
  DEF DeliverAudio, LoseAudio, Downlink!Deliver, Downlink!Lose
<1> QED
  BY <1>1, <1>2, <1>3 DEF Next

LEMMA NextClientTypes ==
  FlowTypes /\ ClientTypes /\ [Next]_vars => ClientTypes'
<1> SUFFICES ASSUME FlowTypes, ClientTypes, [Next]_vars PROVE ClientTypes'
  OBVIOUS
<1>1. ASSUME UNCHANGED client PROVE ClientTypes'
  BY <1>1, TurnTypes
<1>2. CASE CancelWritesDone
  BY <1>2, TurnTypes DEF CancelWritesDone
<1>3. ASSUME NEW g \in Gens, GenStep(g) PROVE ClientTypes'
  <2>1. CASE WriteCreated(g) \/ WriteText(g) \/ WriteDone(g)
    BY <2>1, TurnTypes, DeltaTypes DEF WriteCreated, WriteText, WriteDone
  <2>2. CASE \/ Gap(g) \/ Ensure(g) \/ WriteFails(g) \/ CheckAudio(g)
             \/ PushAudio(g) \/ PushAudioRefused(g) \/ Reset(g) \/ Clear(g)
    BY <1>1, <2>2 DEF Gap, Ensure, WriteFails, CheckAudio, PushAudio,
       PushAudioRefused, Reset, Clear
  <2> QED
    BY <1>3, <2>1, <2>2 DEF GenStep
<1>4. ASSUME NEW f \in pending, DeliverAudio(f) \/ LoseAudio(f)
      PROVE  ClientTypes'
  <2>1. origin[f] \in Gens
    BY DEF FlowTypes
  <2> QED
    BY <1>1, <1>4, <2>1, DeltaTypes DEF DeliverAudio, LoseAudio
<1>5. CASE \/ ClientRequest \/ VadRequest \/ ClientCancel \/ CancelResets
           \/ ConnectionDies \/ CloseDownlink \/ CloseService \/ CloseClient
           \/ UNCHANGED vars
  BY <1>1, <1>5 DEF ClientRequest, VadRequest, ClientCancel, CancelResets,
     ConnectionDies, CloseDownlink, CloseService, CloseClient, vars, client
<1> QED
  BY <1>2, <1>3, <1>4, <1>5 DEF Next

LEMMA TypesHold == Spec => [](Inv /\ TypeOK)
<1>1. Init => Inv /\ TypeOK
  BY InitInv, InitTypeOK
<1>2. Inv /\ TypeOK /\ [Next]_vars => (Inv /\ TypeOK)'
  <2> SUFFICES ASSUME Inv, TypeOK, [Next]_vars PROVE Inv' /\ TypeOK'
    OBVIOUS
  <2>1. Inv' /\ RestTypes' /\ FlowTypes' /\ ClientTypes'
    BY NextInv, NextRestTypes, NextFlowTypes, NextClientTypes, TypesSplit
  <2>2. TypeOK'
    BY <2>1 DEF Inv, TypeOK, GenTypes, RestTypes, FlowTypes, ClientTypes
  <2> QED
    BY <2>1, <2>2
<1> QED
  BY <1>1, <1>2, PTL DEF Spec

(* TypeOK holds in every reachable state; in particular the generations are *)
(* numbered without a gap and the downlink never holds more than it can.    *)
THEOREM TypeCorrect == Spec => []TypeOK
BY TypesHold, PTL

-----------------------------------------------------------------------------
(* Turns.  TurnsBalanced follows from an account that every step keeps: a   *)
(* created that is out or about to be written is paid for by a done that is *)
(* out, or by the flag; whoever is about to clear the flag has written a    *)
(* done that is not yet spent.                                              *)

Creating == {g \in Gens : pc[g] \in {"createText", "createAudio"}}
Resetting == {g \in Gens : pc[g] = "reset"}
Counts(b) == IF b THEN 1 ELSE 0

TurnsInv ==
  nCreated + Cardinality(Creating) + Cardinality(Resetting)
      + Counts(reader = "reset")
    <= nDone + Counts(responseActive)

(* Sets of generations are finite, and grow and shrink by one.              *)
LEMMA GenSets ==
  ASSUME NEW S \in SUBSET Gens, NEW g \in Gens
  PROVE  /\ Cardinality(S) \in Nat
         /\ g \notin S => Cardinality(S \union {g}) = Cardinality(S) + 1
         /\ g \in S => Cardinality(S \ {g}) = Cardinality(S) - 1
<1>1. IsFiniteSet(S)
  <2>1. IsFiniteSet(Gens)
    BY FS_Interval, RTAssumption DEF Gens
  <2> QED
    BY <2>1, FS_Subset
<1> QED
  BY <1>1, FS_CardinalityType, FS_AddElement, FS_RemoveElement

(* A set of generations from which only g may have come or gone.            *)
LEMMA GenSetMoves ==
  ASSUME NEW S \in SUBSET Gens, NEW T \in SUBSET Gens, NEW g \in Gens,
         \A h \in Gens : h # g => (h \in T <=> h \in S)
  PROVE  Cardinality(T) + Counts(g \in S) = Cardinality(S) + Counts(g \in T)
<1>1. CASE (g \in S) <=> (g \in T)
  <2>1. S = T
    BY <1>1
  <2> QED
    BY <1>1, <2>1
<1>2. CASE g \in S /\ g \notin T
  <2>1. T = S \ {g}
    BY <1>2
  <2> QED
    BY <1>2, <2>1, GenSets DEF Counts
<1>3. CASE g \notin S /\ g \in T
  <2>1. T = S \union {g}
    BY <1>3
  <2> QED
    BY <1>3, <2>1, GenSets DEF Counts
<1> QED
  BY <1>1, <1>2, <1>3

(* What a step of generation g does to the two sets of the account.         *)
LEMMA AccountMoves ==
  ASSUME GenTypes, NEW g \in Gens, NEW next, Goto(g, next)
  PROVE  /\ Cardinality(Creating) \in Nat /\ Cardinality(Creating') \in Nat
         /\ Cardinality(Resetting) \in Nat /\ Cardinality(Resetting') \in Nat
         /\ Cardinality(Creating')
                + Counts(pc[g] \in {"createText", "createAudio"})
              = Cardinality(Creating)
                  + Counts(next \in {"createText", "createAudio"})
         /\ Cardinality(Resetting') + Counts(pc[g] = "reset")
              = Cardinality(Resetting) + Counts(next = "reset")
<1>1. pc'[g] = next /\ \A h \in Gens : h # g => pc'[h] = pc[h]
  BY DEF GenTypes, Goto
<1>2. /\ Creating \in SUBSET Gens /\ Creating' \in SUBSET Gens
      /\ Resetting \in SUBSET Gens /\ Resetting' \in SUBSET Gens
  BY DEF Creating, Resetting
<1>3. /\ \A h \in Gens : h # g => (h \in Creating' <=> h \in Creating)
      /\ \A h \in Gens : h # g => (h \in Resetting' <=> h \in Resetting)
  BY <1>1 DEF Creating, Resetting
<1>4. /\ Cardinality(Creating') + Counts(g \in Creating)
           = Cardinality(Creating) + Counts(g \in Creating')
      /\ Cardinality(Resetting') + Counts(g \in Resetting)
           = Cardinality(Resetting) + Counts(g \in Resetting')
  BY <1>2, <1>3, GenSetMoves
<1>5. /\ g \in Creating <=> pc[g] \in {"createText", "createAudio"}
      /\ g \in Creating' <=> next \in {"createText", "createAudio"}
      /\ g \in Resetting <=> pc[g] = "reset"
      /\ g \in Resetting' <=> next = "reset"
  BY <1>1 DEF Creating, Resetting
<1>6. /\ Cardinality(Creating) \in Nat /\ Cardinality(Creating') \in Nat
      /\ Cardinality(Resetting) \in Nat /\ Cardinality(Resetting') \in Nat
  BY <1>2, GenSets
<1> QED
  BY <1>4, <1>5, <1>6 DEF Counts

LEMMA InitTurns == Init => TurnsInv
<1> SUFFICES ASSUME Init PROVE TurnsInv
  OBVIOUS
<1>1. Creating = {} /\ Resetting = {}
  BY DEF Init, Creating, Resetting
<1> QED
  BY <1>1, FS_EmptySet DEF Init, TurnsInv, Counts

(* A step that is no part of the account.                                   *)
LEMMA TurnsIdle ==
  ASSUME TurnsInv, UNCHANGED <<nCreated, nDone, responseActive, reader>>,
         Creating' = Creating, Resetting' = Resetting
  PROVE  TurnsInv'
BY DEF TurnsInv

LEMMA GenTurns ==
  ASSUME TypeOK, TurnsInv, NEW g \in Gens, GenStep(g)
  PROVE  TurnsInv'
<1> DEFINE C == Cardinality(Creating)
           R == Cardinality(Resetting)
           Dc == Counts(pc[g] \in {"createText", "createAudio"})
           Dr == Counts(pc[g] = "reset")
<1>1. GenTypes /\ nCreated \in Nat /\ nDone \in Nat
  BY TypesSplit DEF ClientTypes
<1>2. ASSUME NEW next, Goto(g, next),
             next \notin {"createText", "createAudio", "reset"},
             UNCHANGED <<nCreated, nDone, responseActive, reader>>
      PROVE  TurnsInv'
  <2>1. /\ Cardinality(Creating') <= Cardinality(Creating)
        /\ Cardinality(Resetting') <= Cardinality(Resetting)
        /\ Cardinality(Creating) \in Nat /\ Cardinality(Creating') \in Nat
        /\ Cardinality(Resetting) \in Nat /\ Cardinality(Resetting') \in Nat
    BY <1>1, <1>2, AccountMoves DEF Counts
  <2>2. Counts(reader = "reset") \in Nat /\ Counts(responseActive) \in Nat
    BY DEF Counts
  <2> QED
    BY <1>1, <1>2, <2>1, <2>2 DEF TurnsInv
<1>3. CASE Gap(g)
  BY <1>2, <1>3 DEF Gap, After, client
<1>4. CASE WriteFails(g) \/ Clear(g)
  BY <1>2, <1>4 DEF WriteFails, Clear, client
<1>5. CASE \/ WriteText(g) \/ CheckAudio(g) \/ PushAudio(g)
           \/ PushAudioRefused(g)
  BY <1>2, <1>5 DEF WriteText, CheckAudio, PushAudio, PushAudioRefused, After,
     client, ClientSeesDelta
<1>6. CASE Ensure(g)
  <2>1. CASE responseActive
    BY <1>2, <1>6, <2>1 DEF Ensure, client
  <2>2. CASE ~responseActive
    <3>1. /\ \E next \in {"createText", "createAudio"} : Goto(g, next)
          /\ pc[g] \notin {"createText", "createAudio", "reset"}
          /\ responseActive' = TRUE
          /\ UNCHANGED <<nCreated, nDone, reader>>
      BY <1>6, <2>2 DEF Ensure, client
    <3>2. /\ Cardinality(Creating') = Cardinality(Creating) + 1
          /\ Cardinality(Resetting') = Cardinality(Resetting)
          /\ Cardinality(Creating) \in Nat
          /\ Cardinality(Resetting) \in Nat
      BY <1>1, <3>1, AccountMoves DEF Counts
    <3> QED
      BY <1>1, <2>2, <3>1, <3>2 DEF TurnsInv, Counts
  <2> QED
    BY <2>1, <2>2
<1>7. CASE WriteCreated(g)
  <2>1. /\ \E next \in {"writeText", "checkAudio"} : Goto(g, next)
        /\ pc[g] \in {"createText", "createAudio"}
        /\ nCreated' = nCreated + 1
        /\ UNCHANGED <<nDone, responseActive, reader>>
    BY <1>7 DEF WriteCreated, After, ClientSeesCreated
  <2>2. /\ Cardinality(Creating') + 1 = Cardinality(Creating)
        /\ Cardinality(Resetting') = Cardinality(Resetting)
        /\ Cardinality(Creating) \in Nat /\ Cardinality(Creating') \in Nat
        /\ Cardinality(Resetting) \in Nat
    BY <1>1, <2>1, AccountMoves DEF Counts
  <2> QED
    BY <1>1, <2>1, <2>2 DEF TurnsInv, Counts
<1>8. CASE WriteDone(g)
  <2>1. /\ Goto(g, "reset") /\ pc[g] = "writeDone"
        /\ nDone' = nDone + 1
        /\ UNCHANGED <<nCreated, responseActive, reader>>
    BY <1>8 DEF WriteDone, After, ClientSeesDone
  <2>2. /\ Cardinality(Creating') = Cardinality(Creating)
        /\ Cardinality(Resetting') = Cardinality(Resetting) + 1
        /\ Cardinality(Creating) \in Nat
        /\ Cardinality(Resetting) \in Nat
    BY <1>1, <2>1, AccountMoves DEF Counts
  <2> QED
    BY <1>1, <2>1, <2>2 DEF TurnsInv, Counts
<1>9. CASE Reset(g)
  <2>1. /\ Goto(g, "clear") /\ pc[g] = "reset"
        /\ responseActive' = FALSE
        /\ UNCHANGED <<nCreated, nDone, reader>>
    BY <1>9 DEF Reset, After, client
  <2>2. /\ Cardinality(Creating') = Cardinality(Creating)
        /\ Cardinality(Resetting') + 1 = Cardinality(Resetting)
        /\ Cardinality(Creating) \in Nat
        /\ Cardinality(Resetting) \in Nat /\ Cardinality(Resetting') \in Nat
    BY <1>1, <2>1, AccountMoves DEF Counts
  <2> QED
    BY <1>1, <2>1, <2>2 DEF TurnsInv, Counts
<1> QED
  BY <1>3, <1>4, <1>5, <1>6, <1>7, <1>8, <1>9 DEF GenStep

LEMMA NextTurns == TypeOK /\ TurnsInv /\ [Next]_vars => TurnsInv'
<1> SUFFICES ASSUME TypeOK, TurnsInv, [Next]_vars PROVE TurnsInv'
  OBVIOUS
<1>1. GenTypes /\ nCreated \in Nat /\ nDone \in Nat
  BY TypesSplit DEF ClientTypes
<1>2. CASE ClientRequest \/ VadRequest
  <2>1. /\ pc[responseID + 1] = "unborn" /\ responseID + 1 \in Gens
        /\ pc' = [pc EXCEPT ![responseID + 1] = "gap1"]
        /\ UNCHANGED <<nCreated, nDone, responseActive, reader>>
    BY <1>1, <1>2, RTAssumption
    DEF ClientRequest, VadRequest, StartMockResponse, GenTypes, Gens, client
  <2>2. Creating' = Creating /\ Resetting' = Resetting
    BY <1>1, <2>1 DEF Creating, Resetting, GenTypes
  <2> QED
    BY <2>1, <2>2, TurnsIdle
<1>3. CASE ClientCancel
  BY <1>3 DEF ClientCancel, TurnsInv, Creating, Resetting, Counts, client
<1>4. CASE CancelWritesDone
  <2>1. /\ Creating' = Creating /\ Resetting' = Resetting
        /\ Cardinality(Creating) \in Nat /\ Cardinality(Resetting) \in Nat
        /\ UNCHANGED <<nCreated, responseActive>>
    <3>1. /\ Creating \in SUBSET Gens /\ Resetting \in SUBSET Gens
          /\ IsFiniteSet(Gens)
      BY FS_Interval, RTAssumption DEF Creating, Resetting, Gens
    <3>2. UNCHANGED <<pc, nCreated, responseActive>>
      BY <1>4 DEF CancelWritesDone, ClientSeesDone, client
    <3> QED
      BY <3>1, <3>2, FS_Subset, FS_CardinalityType DEF Creating, Resetting
  <2>2. reader = "writeDone" /\ \/ reader' = "reset" /\ nDone' = nDone + 1
                                \/ reader' = "idle" /\ nDone' = nDone
    BY <1>4 DEF CancelWritesDone, ClientSeesDone, client
  <2> QED
    BY <1>1, <2>1, <2>2 DEF TurnsInv, Counts
<1>5. CASE CancelResets
  <2>1. /\ Creating' = Creating /\ Resetting' = Resetting
        /\ Cardinality(Creating) \in Nat /\ Cardinality(Resetting) \in Nat
        /\ UNCHANGED <<nCreated, nDone>>
    <3>1. /\ Creating \in SUBSET Gens /\ Resetting \in SUBSET Gens
          /\ IsFiniteSet(Gens)
      BY FS_Interval, RTAssumption DEF Creating, Resetting, Gens
    <3>2. UNCHANGED <<pc, nCreated, nDone>>
      BY <1>5 DEF CancelResets, client
    <3> QED
      BY <3>1, <3>2, FS_Subset, FS_CardinalityType DEF Creating, Resetting
  <2>2. reader = "reset" /\ reader' = "idle" /\ responseActive' = FALSE
    BY <1>5 DEF CancelResets
  <2> QED
    BY <1>1, <2>1, <2>2 DEF TurnsInv, Counts
<1>6. ASSUME NEW g \in Gens, GenStep(g) PROVE TurnsInv'
  BY <1>6, GenTurns
<1>7. CASE \/ \E f \in pending : DeliverAudio(f) \/ LoseAudio(f)
           \/ ConnectionDies \/ CloseDownlink \/ CloseService \/ CloseClient
           \/ UNCHANGED vars
  <2>1. UNCHANGED <<pc, nCreated, nDone, responseActive, reader>>
    BY <1>7 DEF DeliverAudio, LoseAudio, ConnectionDies, CloseDownlink,
       CloseService, CloseClient, vars, client, ClientSeesDelta
  <2> QED
    BY <2>1, TurnsIdle DEF Creating, Resetting
<1> QED
  BY <1>2, <1>3, <1>4, <1>5, <1>6, <1>7 DEF Next

(* The client never sees more turns opened than closed, but for the current *)
(* one, for any number of requests and cancellations and however their      *)
(* writes interleave and fail (session.go:415-437, 452-478).                *)
THEOREM TurnsNeverPileUp == Spec => []TurnsBalanced
<1>1. Init => TurnsInv
  BY InitTurns
<1>2. TypeOK /\ TurnsInv /\ [Next]_vars => TurnsInv'
  BY NextTurns
<1>3. TypeOK /\ TurnsInv => TurnsBalanced
  <2> SUFFICES ASSUME TypeOK, TurnsInv PROVE TurnsBalanced
    OBVIOUS
  <2>1. IsFiniteSet(Gens) /\ Creating \subseteq Gens /\ Resetting \subseteq Gens
    BY FS_Interval, RTAssumption DEF Gens, Creating, Resetting
  <2>2. Cardinality(Creating) \in Nat /\ Cardinality(Resetting) \in Nat
    BY <2>1, FS_Subset, FS_CardinalityType
  <2>3. nCreated \in Nat /\ nDone \in Nat
    BY DEF TypeOK
  <2> QED
    BY <2>2, <2>3 DEF TurnsInv, Counts, TurnsBalanced
<1> QED
  BY <1>1, <1>2, <1>3, TypeCorrect, PTL DEF Spec

-----------------------------------------------------------------------------
(* Text before audio.  A generation past its text delta, and the origin of  *)
(* every frame ever pushed, has had its text delta out.                     *)

PastText == {"gap2", "ensureAudio", "createAudio", "checkAudio", "pushAudio",
             "gap3", "writeDone", "reset"}

TextInv ==
  /\ \A g \in Gens : pc[g] \in PastText => "text" \in seen[g]
  /\ \A f \in DOMAIN origin : "text" \in seen[origin[f]]
  /\ TextBeforeAudio

(* A step that pushes no frame, shows the client no delta and brings no     *)
(* generation past its text.                                                *)
LEMMA TextIdle ==
  ASSUME TextInv, UNCHANGED <<origin, seen>>,
         \A g \in Gens : pc'[g] \in PastText => pc[g] \in PastText
  PROVE  TextInv'
BY DEF TextInv, TextBeforeAudio

LEMMA NextText == TypeOK /\ TextInv /\ [Next]_vars => TextInv'
<1> SUFFICES ASSUME TypeOK, TextInv, [Next]_vars PROVE TextInv'
  OBVIOUS
<1>1. /\ pc \in [Gens -> GenPcs] /\ origin \in Seq(Gens)
      /\ seen \in [Gens -> SUBSET {"text", "audio"}]
      /\ pending \subseteq DOMAIN origin
  BY DEF TypeOK
<1>2. CASE ClientRequest \/ VadRequest
  <2>1. /\ pc' = [pc EXCEPT ![responseID + 1] = "gap1"]
        /\ UNCHANGED <<origin, seen>>
    BY <1>2 DEF ClientRequest, VadRequest, StartMockResponse, client, downlink
  <2> QED
    BY <1>1, <2>1, TextIdle DEF PastText
<1>3. CASE \/ ClientCancel \/ CancelWritesDone \/ CancelResets
           \/ \E f \in pending : LoseAudio(f)
           \/ ConnectionDies \/ CloseDownlink \/ CloseService \/ CloseClient
           \/ UNCHANGED vars
  <2>1. UNCHANGED <<pc, origin, seen>>
    BY <1>3 DEF ClientCancel, CancelWritesDone, CancelResets, LoseAudio,
       ConnectionDies, CloseDownlink, CloseService, CloseClient, vars,
       client, downlink, ClientSeesDone
  <2> QED
    BY <2>1, TextIdle
<1>4. ASSUME NEW f \in pending, DeliverAudio(f) PROVE TextInv'
  <2>1. /\ UNCHANGED <<pc, origin>>
        /\ seen' = [seen EXCEPT ![origin[f]] = @ \union {"audio"}]
    BY <1>4 DEF DeliverAudio, ClientSeesDelta
  <2>2. origin[f] \in Gens /\ "text" \in seen[origin[f]]
    BY <1>1 DEF TextInv
  <2>3. /\ \A g \in Gens : seen[g] \subseteq seen'[g]
        /\ \A g \in Gens : "audio" \in seen'[g] /\ "audio" \notin seen[g]
                              => g = origin[f]
    BY <1>1, <2>1
  <2>4. \A h \in DOMAIN origin : origin[h] \in Gens
    BY <1>1
  <2> QED
    BY <2>1, <2>2, <2>3, <2>4 DEF TextInv, TextBeforeAudio
<1>5. ASSUME NEW g \in Gens, GenStep(g) PROVE TextInv'
  <2>1. ASSUME NEW next, Goto(g, next), UNCHANGED <<origin, seen>>,
               next \in PastText => pc[g] \in PastText
        PROVE  TextInv'
    BY <1>1, <2>1, TextIdle DEF Goto
  <2>2. CASE Gap(g)
    BY <2>1, <2>2 DEF Gap, After, client, downlink, PastText
  <2>3. CASE Ensure(g)
    BY <2>1, <2>3 DEF Ensure, client, downlink, PastText
  <2>4. CASE WriteFails(g) \/ Reset(g) \/ Clear(g) \/ PushAudioRefused(g)
    BY <2>1, <2>4 DEF WriteFails, Reset, Clear, PushAudioRefused, After,
       client, downlink, PastText
  <2>5. CASE WriteCreated(g) \/ CheckAudio(g) \/ WriteDone(g)
    BY <2>1, <2>5 DEF WriteCreated, CheckAudio, WriteDone, After, client,
       downlink, PastText, ClientSeesCreated, ClientSeesDone
  <2>6. CASE WriteText(g)
    <3>1. /\ pc' = [pc EXCEPT ![g] = "gap2"]
          /\ seen' = [seen EXCEPT ![g] = @ \union {"text"}]
          /\ origin' = origin
      BY <2>6 DEF WriteText, After, Goto, ClientSeesDelta, downlink
    <3>2. /\ \A h \in Gens : h # g => pc'[h] = pc[h]
          /\ \A h \in Gens : seen[h] \subseteq seen'[h]
          /\ \A h \in Gens : "audio" \in seen'[h] => "audio" \in seen[h]
          /\ "text" \in seen'[g]
      BY <1>1, <3>1
    <3>3. \A h \in DOMAIN origin : origin[h] \in Gens
      BY <1>1
    <3> QED
      BY <3>1, <3>2, <3>3 DEF TextInv, TextBeforeAudio
  <2>7. CASE PushAudio(g)
    <3>1. /\ pc[g] = "pushAudio" /\ pc' = [pc EXCEPT ![g] = "gap3"]
          /\ seen' = seen
          /\ origin' = Append(origin, g)
      BY <2>7 DEF PushAudio, After, Goto, client
    <3>2. "text" \in seen[g]
      BY <3>1 DEF TextInv, PastText
    <3>3. /\ DOMAIN origin' = (DOMAIN origin) \union {Len(origin) + 1}
          /\ \A f \in DOMAIN origin : origin'[f] = origin[f]
          /\ origin'[Len(origin) + 1] = g
      BY <1>1, <3>1
    <3>4. \A h \in Gens : pc'[h] \in PastText => pc[h] \in PastText
      BY <1>1, <3>1 DEF PastText
    <3> QED
      BY <3>1, <3>2, <3>3, <3>4 DEF TextInv, TextBeforeAudio
  <2> QED
    BY <1>5, <2>2, <2>3, <2>4, <2>5, <2>6, <2>7 DEF GenStep
<1> QED
  BY <1>2, <1>3, <1>4, <1>5 DEF Next

(* No reply is heard before its text, or without it, although text and      *)
(* audio take different ways to the client and either may fail.             *)
THEOREM TextLeads == Spec => []TextBeforeAudio
<1>1. Init => TextInv
  BY DEF Init, TextInv, TextBeforeAudio, PastText
<1>2. TextInv => TextBeforeAudio
  BY DEF TextInv
<1> QED
  BY <1>1, <1>2, NextText, TypeCorrect, PTL DEF Spec

-----------------------------------------------------------------------------
(* What the client hears.  The order of the hand-overs is the conduit's     *)
(* promise; that a reply is heard once needs that it pushes once.           *)

(* Frames are delivered in the order of their pushes, each once, and what   *)
(* still waits was pushed later.                                            *)
HeardInOrder ==
  /\ \A i, j \in DOMAIN delivered : i < j => delivered[i] < delivered[j]
  /\ \A i \in DOMAIN delivered : \A g \in pending : delivered[i] < g

(* No generation pushes a second frame: whoever has pushed one is past the  *)
(* push, and no step of it leads back.                                      *)
PastPush == {"gap3", "writeDone", "reset", "clear", "ended"}
PushedOnce ==
  /\ \A f \in DOMAIN origin : pc[origin[f]] \in PastPush
  /\ \A f, h \in DOMAIN origin : origin[f] = origin[h] => f = h

(* The client hears at most one frame of a reply, and never one twice.      *)
HeardOnce ==
  \A i, j \in DOMAIN delivered :
    i # j => origin[delivered[i]] # origin[delivered[j]]

LEMMA FlowNumbers ==
  ASSUME FlowTypes
  PROVE  /\ Len(origin) \in Nat /\ DOMAIN origin = 1 .. Len(origin)
         /\ delivered \in Seq(Nat)
         /\ \A i \in DOMAIN delivered :
              /\ delivered[i] \in DOMAIN origin
              /\ delivered[i] \in Nat /\ delivered[i] <= Len(origin)
         /\ \A g \in pending : g \in Nat
<1>1. /\ origin \in Seq(Gens) /\ delivered \in Seq(DOMAIN origin)
      /\ pending \subseteq DOMAIN origin
  BY DEF FlowTypes
<1>2. /\ Len(origin) \in Nat /\ DOMAIN origin = 1 .. Len(origin)
      /\ \A f \in DOMAIN origin : f \in Nat /\ f <= Len(origin)
  BY <1>1
<1>3. \A i \in DOMAIN delivered : delivered[i] \in DOMAIN origin
  BY <1>1
<1>4. delivered \in Seq(Nat)
  BY <1>1, <1>2
<1> QED
  BY <1>1, <1>2, <1>3, <1>4

(* Only the oldest pending frame is delivered, and a new one is younger     *)
(* than all before it.                                                      *)
LEMMA NextHeard ==
  ASSUME GenTypes, FlowTypes, HeardInOrder, Inv, [Next]_vars
  PROVE  HeardInOrder'
<1>1. [Downlink!Next]_(Downlink!conduitVars)
  BY ConduitStep
<1>2. CASE \E g \in Gens : Downlink!Accept(g)
  <2>1. delivered' = delivered /\ pending' = pending \union {Len(origin) + 1}
    BY <1>2 DEF Downlink!Accept
  <2> QED
    BY <2>1, FlowNumbers DEF HeardInOrder
<1>3. ASSUME NEW f \in pending, Downlink!Deliver(f) PROVE HeardInOrder'
  <2>1. /\ \A g \in pending : f <= g
        /\ pending' = pending \ {f}
        /\ delivered' = Append(delivered, f)
    BY <1>3 DEF Downlink!Deliver
  <2>2. /\ DOMAIN delivered = 1 .. Len(delivered) /\ Len(delivered) \in Nat
        /\ DOMAIN delivered' = 1 .. Len(delivered) + 1
        /\ \A i \in DOMAIN delivered : delivered'[i] = delivered[i]
        /\ delivered'[Len(delivered) + 1] = f
    BY <2>1, FlowNumbers
  <2>3. \A g \in pending' : f < g
    BY <2>1, FlowNumbers
  <2> QED
    BY <2>1, <2>2, <2>3 DEF HeardInOrder
<1>4. CASE \/ \E g \in Gens : Downlink!Call(g) \/ Downlink!TurnAway(g)
           \/ \E f \in pending : Downlink!Lose(f)
           \/ Downlink!Shut \/ UNCHANGED Downlink!conduitVars
  <2>1. delivered' = delivered /\ pending' \subseteq pending
    BY <1>4 DEF Downlink!Call, Downlink!TurnAway, Downlink!Lose,
       Downlink!Shut, Downlink!conduitVars
  <2> QED
    BY <2>1 DEF HeardInOrder
<1> QED
  BY <1>1, <1>2, <1>3, <1>4 DEF Downlink!Next

(* A step that pushes nothing and leads no generation back.                 *)
LEMMA OnceIdle ==
  ASSUME PushedOnce, origin \in Seq(Gens), origin' = origin,
         \A g \in Gens : pc[g] \in PastPush => pc'[g] \in PastPush
  PROVE  PushedOnce'
<1>1. \A f \in DOMAIN origin : origin[f] \in Gens
  OBVIOUS
<1> QED
  BY <1>1 DEF PushedOnce

LEMMA NextOnce ==
  ASSUME GenTypes, FlowTypes, PushedOnce, [Next]_vars
  PROVE  PushedOnce'
<1>1. pc \in [Gens -> GenPcs] /\ origin \in Seq(Gens)
  BY DEF GenTypes, FlowTypes
<1>2. CASE ClientRequest \/ VadRequest
  <2>1. /\ pc[responseID + 1] = "unborn" /\ responseID + 1 \in Gens
        /\ pc' = [pc EXCEPT ![responseID + 1] = "gap1"]
        /\ origin' = origin
    BY <1>2, RTAssumption
    DEF ClientRequest, VadRequest, StartMockResponse, GenTypes, Gens, downlink
  <2> QED
    BY <1>1, <2>1, OnceIdle DEF PastPush
<1>3. CASE \/ ClientCancel \/ CancelWritesDone \/ CancelResets
           \/ \E f \in pending : DeliverAudio(f) \/ LoseAudio(f)
           \/ ConnectionDies \/ CloseDownlink \/ CloseService \/ CloseClient
           \/ UNCHANGED vars
  <2>1. UNCHANGED <<pc, origin>>
    BY <1>3 DEF ClientCancel, CancelWritesDone, CancelResets, DeliverAudio,
       LoseAudio, ConnectionDies, CloseDownlink, CloseService, CloseClient,
       vars, downlink
  <2> QED
    BY <1>1, <2>1, OnceIdle
<1>4. ASSUME NEW g \in Gens, GenStep(g) PROVE PushedOnce'
  <2>1. ASSUME NEW next, Goto(g, next), origin' = origin,
               pc[g] \in PastPush => next \in PastPush
        PROVE  PushedOnce'
    BY <1>1, <2>1, OnceIdle DEF Goto
  <2>2. CASE Gap(g)
    BY <2>1, <2>2 DEF Gap, After, downlink, PastPush
  <2>3. CASE Ensure(g)
    BY <2>1, <2>3 DEF Ensure, downlink, PastPush
  <2>4. CASE WriteFails(g) \/ Reset(g) \/ Clear(g) \/ PushAudioRefused(g)
    BY <2>1, <2>4 DEF WriteFails, Reset, Clear, PushAudioRefused, After,
       downlink, PastPush
  <2>5. CASE \/ WriteCreated(g) \/ WriteText(g) \/ CheckAudio(g)
             \/ WriteDone(g)
    BY <2>1, <2>5 DEF WriteCreated, WriteText, CheckAudio, WriteDone, After,
       downlink, PastPush
  <2>6. CASE PushAudio(g)
    <3>1. /\ pc[g] = "pushAudio" /\ pc' = [pc EXCEPT ![g] = "gap3"]
          /\ origin' = Append(origin, g)
      BY <2>6 DEF PushAudio, After, Goto
    <3>2. /\ DOMAIN origin' = (DOMAIN origin) \union {Len(origin) + 1}
          /\ Len(origin) + 1 \notin DOMAIN origin
          /\ \A f \in DOMAIN origin : origin'[f] = origin[f]
          /\ origin'[Len(origin) + 1] = g
      BY <1>1, <3>1
    <3>3. \A f \in DOMAIN origin : origin[f] \in Gens /\ origin[f] # g
      BY <1>1, <3>1 DEF PushedOnce, PastPush
    <3>4. \A f \in DOMAIN origin' : pc'[origin'[f]] \in PastPush
      BY <1>1, <3>1, <3>2, <3>3 DEF PushedOnce, PastPush
    <3>5. \A f, h \in DOMAIN origin' : origin'[f] = origin'[h] => f = h
      BY <3>2, <3>3 DEF PushedOnce
    <3> QED
      BY <3>4, <3>5 DEF PushedOnce
  <2> QED
    BY <1>4, <2>2, <2>3, <2>4, <2>5, <2>6 DEF GenStep
<1> QED
  BY <1>2, <1>3, <1>4 DEF Next

(* However requests, cancellations, failed writes and Close interleave, the *)
(* client hears the audio of a reply at most once, never a frame twice: a   *)
(* generation that is superseded or cancelled cannot push again, and the    *)
(* downlink repeats nothing (mock.go:160-183, session.go:301-311).          *)
THEOREM RepliesHeardOnce == Spec => []HeardOnce
<1>1. Init => HeardInOrder /\ PushedOnce
  BY DEF Init, HeardInOrder, PushedOnce
<1>2. TypeOK /\ Inv /\ HeardInOrder /\ PushedOnce /\ [Next]_vars
        => HeardInOrder' /\ PushedOnce'
  BY NextHeard, NextOnce, TypesSplit
<1>3. TypeOK /\ HeardInOrder /\ PushedOnce => HeardOnce
  <2> SUFFICES ASSUME TypeOK, HeardInOrder, PushedOnce PROVE HeardOnce
    OBVIOUS
  <2>1. \A i, j \in DOMAIN delivered :
          /\ delivered[i] \in DOMAIN origin
          /\ i # j => delivered[i] # delivered[j]
    <3>1. \A i \in DOMAIN delivered :
            i \in Nat /\ delivered[i] \in DOMAIN origin /\ delivered[i] \in Nat
      BY FlowNumbers, TypesSplit
    <3> QED
      BY <3>1 DEF HeardInOrder
  <2> QED
    BY <2>1 DEF PushedOnce, HeardOnce
<1>4. Spec => []Inv
  BY InitInv, NextInv, PTL DEF Spec
<1> QED
  BY <1>1, <1>2, <1>3, <1>4, TypeCorrect, PTL DEF Spec

=============================================================================
