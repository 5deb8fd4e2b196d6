------------------------- MODULE ConnRegistry_proofs -------------------------
(* Proofs about ConnRegistry, for any number of connection attempts. *)
EXTENDS ConnRegistry, TLAPS

Inv == TypeOK /\ HandlerOwnsEntry /\ RegisteredHasRemover

LEMMA InitInv == Init => Inv
BY CRAssumption DEF Init, Inv, TypeOK, HandlerOwnsEntry, RegisteredHasRemover,
   Active, HandlerPcs

LEMMA NextTypeOK == TypeOK /\ [Next]_vars => TypeOK'
<1> SUFFICES ASSUME TypeOK, [Next]_vars PROVE TypeOK'
  OBVIOUS
<1> USE CRAssumption DEF TypeOK, HandlerPcs, Goto
<1>1. ASSUME NEW c \in Conns, HandlerStep(c) PROVE TypeOK'
  <2>1. CASE Reserve(c)
    <3>1. CASE clients = None \/ stream[clients] = None
      <4>1. PICK k \in Conns :
              /\ clients' = k
              /\ using' = [using EXCEPT ![c] = k]
              /\ stream' = [stream EXCEPT ![k] = Pending]
              /\ pc' = [pc EXCEPT ![c] = "handshake"]
        BY <2>1, <3>1 DEF Reserve
      <4> QED
        BY <2>1, <4>1 DEF Reserve
    <3>2. CASE ~(clients = None \/ stream[clients] = None)
      BY <2>1, <3>2 DEF Reserve
    <3> QED
      BY <3>1, <3>2
  <2>2. CASE Handshake(c) \/ HandshakeFails(c)
    BY <2>2 DEF Handshake, HandshakeFails
  <2>3. CASE Attach(c) \/ AttachFails(c)
    BY <2>3 DEF Attach, AttachFails
  <2>4. CASE ReadEnds(c)
    BY <2>4 DEF ReadEnds
  <2>5. CASE Unregister(c)
    <3>1. CASE clients = None
      BY <2>5, <3>1 DEF Unregister
    <3>2. CASE clients # None
      BY <2>5, <3>2 DEF Unregister
    <3> QED
      BY <3>1, <3>2
  <2>7. CASE ClearOutputs(c)
    BY <2>7 DEF ClearOutputs
  <2>6. CASE Remove(c) \/ CloseBegin(c) \/ CloseReturns(c)
    BY <2>6 DEF Remove, CloseBegin, CloseReturns
  <2> QED
    BY <1>1, <2>1, <2>2, <2>3, <2>4, <2>5, <2>6, <2>7 DEF HandlerStep
<1>2. ASSUME NEW s \in Conns, SessionTimesOut(s) \/ SessionCloses(s)
      PROVE  TypeOK'
  BY <1>2 DEF SessionTimesOut, SessionCloses, CloseConnector
<1>3. CASE ShutdownStarts
  BY <1>3 DEF ShutdownStarts
<1>4. CASE ShutdownStep
  BY <1>4 DEF ShutdownStep, Snapshot, ShutdownCloses, ListenerCloses,
              ShutdownReturns, CloseConnector
<1>5. CASE UNCHANGED vars
  BY <1>5 DEF vars
<1> QED
  BY <1>1, <1>2, <1>3, <1>4, <1>5 DEF Next

(* reserveClient lets a handler in only when the id is free: an entry in    *)
(* the registry always has a stream or a handshake under way.               *)
LEMMA NextOwner ==
  TypeOK /\ HandlerOwnsEntry /\ [Next]_vars => HandlerOwnsEntry'
<1> SUFFICES ASSUME TypeOK, HandlerOwnsEntry, [Next]_vars
             PROVE  HandlerOwnsEntry'
  OBVIOUS
<1> USE CRAssumption DEF TypeOK, HandlerOwnsEntry, Active, Goto
<1>1. ASSUME NEW c \in Conns, HandlerStep(c) PROVE HandlerOwnsEntry'
  <2>1. CASE Reserve(c)
    <3>1. CASE clients = None
      BY <2>1, <3>1 DEF Reserve
    <3>2. CASE clients # None
      BY <2>1, <3>2 DEF Reserve
    <3> QED
      BY <3>1, <3>2
  <2>2. CASE Handshake(c) \/ HandshakeFails(c)
    BY <2>2 DEF Handshake, HandshakeFails
  <2>3. CASE Attach(c) \/ AttachFails(c)
    BY <2>3 DEF Attach, AttachFails
  <2>4. CASE ReadEnds(c)
    BY <2>4 DEF ReadEnds
  <2>5. CASE Unregister(c)
    BY <2>5 DEF Unregister
  <2>6. CASE ClearOutputs(c)
    BY <2>6 DEF ClearOutputs
  <2>7. CASE Remove(c) \/ CloseBegin(c) \/ CloseReturns(c)
    BY <2>7 DEF Remove, CloseBegin, CloseReturns
  <2> QED
    BY <1>1, <2>1, <2>2, <2>3, <2>4, <2>5, <2>6, <2>7 DEF HandlerStep
<1>2. CASE \/ \E s \in Conns : SessionTimesOut(s) \/ SessionCloses(s)
           \/ ShutdownStarts \/ ShutdownStep \/ UNCHANGED vars
  BY <1>2 DEF SessionTimesOut, SessionCloses, ShutdownStarts, ShutdownStep,
              Snapshot, ShutdownCloses, ListenerCloses, ShutdownReturns, vars
<1> QED
  BY <1>1, <1>2 DEF Next

(* The handler that creates a Session owns the entry at the id until its    *)
(* own unregisterClient, so it cannot leave by the early return there.      *)
LEMMA NextRemover == Inv /\ [Next]_vars => RegisteredHasRemover'
<1> SUFFICES ASSUME Inv, [Next]_vars PROVE RegisteredHasRemover'
  OBVIOUS
<1> USE CRAssumption DEF Inv, TypeOK, RegisteredHasRemover, Goto
<1>1. ASSUME NEW c \in Conns, HandlerStep(c) PROVE RegisteredHasRemover'
  <2>1. CASE Reserve(c)
    BY <2>1 DEF Reserve
  <2>2. CASE Handshake(c) \/ HandshakeFails(c)
    BY <2>2 DEF Handshake, HandshakeFails
  <2>3. CASE Attach(c) \/ AttachFails(c)
    BY <2>3 DEF Attach, AttachFails
  <2>4. CASE ReadEnds(c)
    BY <2>4 DEF ReadEnds
  <2>5. CASE Unregister(c)
    BY <2>5 DEF Unregister, HandlerOwnsEntry, Active
  <2>6. CASE ClearOutputs(c)
    BY <2>6 DEF ClearOutputs
  <2>7. CASE Remove(c) \/ CloseBegin(c) \/ CloseReturns(c)
    BY <2>7 DEF Remove, CloseBegin, CloseReturns
  <2> QED
    BY <1>1, <2>1, <2>2, <2>3, <2>4, <2>5, <2>6, <2>7 DEF HandlerStep
<1>2. CASE \/ \E s \in Conns : SessionTimesOut(s) \/ SessionCloses(s)
           \/ ShutdownStarts \/ ShutdownStep \/ UNCHANGED vars
  BY <1>2 DEF SessionTimesOut, SessionCloses, ShutdownStarts, ShutdownStep,
              Snapshot, ShutdownCloses, ListenerCloses, ShutdownReturns, vars
<1> QED
  BY <1>1, <1>2 DEF Next

LEMMA InvHolds == Spec => []Inv
<1>1. Inv /\ [Next]_vars => Inv'
  BY NextTypeOK, NextOwner, NextRemover DEF Inv
<1> QED
  BY InitInv, <1>1, PTL DEF Spec

(* TypeOK holds in every reachable state; in particular a handler that      *)
(* closes a Session has one: Remove goes on to the Close only if it took a  *)
(* Session out of the registry (session.go:230-241).                        *)
THEOREM TypeCorrect == Spec => []TypeOK
BY InvHolds, PTL DEF Inv

(* However many connections with the same client id race, one handler at a  *)
(* time is in charge and it removes its own entry only.                     *)
THEOREM SingleOwner == Spec => []HandlerOwnsEntry
BY InvHolds, PTL DEF Inv

(* A Session in the Manager always has the Remove of its creator ahead.     *)
THEOREM NoForgottenSession == Spec => []RegisteredHasRemover
BY InvHolds, PTL DEF Inv

=============================================================================
