---------------------------- MODULE FrameConduit ----------------------------
(***************************************************************************)
(* What a media pipeline (media.Pipeline, src/internal/media/media.go)     *)
(* promises its two users, the caller of Push and the output behind it,    *)
(* whatever stages, queues and error strategy are inside:                  *)
(*                                                                         *)
(*   - frames come out in the order in which they were taken in, each at   *)
(*     most once: only the oldest pending frame may be delivered;          *)
(*   - a frame may be lost on the way, but a lost or delivered frame never *)
(*     comes back;                                                         *)
(*   - once the conduit is shut no new call is let in; a call already let  *)
(*     in may still be taken or turned away.                               *)
(*                                                                         *)
(* Frames are named by the order in which they were taken in: 1, 2, ...    *)
(***************************************************************************)
EXTENDS Naturals, Sequences

CONSTANT Producers

VARIABLES
  open,        \* the conduit has not been shut
  calls,       \* the producers whose Push call was let in and not answered
  accepted,    \* number of frames taken in so far
  pending,     \* frames taken in and neither delivered nor lost
  delivered    \* frames handed to the output, in the order of the hand-over

conduitVars == <<open, calls, accepted, pending, delivered>>

Init ==
  /\ open = TRUE
  /\ calls = {}
  /\ accepted = 0
  /\ pending = {}
  /\ delivered = << >>

Call(p) ==
  /\ open
  /\ p \notin calls
  /\ calls' = calls \union {p}
  /\ UNCHANGED <<open, accepted, pending, delivered>>

Accept(p) ==
  /\ p \in calls
  /\ calls' = calls \ {p}
  /\ accepted' = accepted + 1
  /\ pending' = pending \union {accepted + 1}
  /\ UNCHANGED <<open, delivered>>

TurnAway(p) ==
  /\ p \in calls
  /\ calls' = calls \ {p}
  /\ UNCHANGED <<open, accepted, pending, delivered>>

Deliver(f) ==
  /\ f \in pending
  /\ \A g \in pending : f <= g
  /\ pending' = pending \ {f}
  /\ delivered' = Append(delivered, f)
  /\ UNCHANGED <<open, calls, accepted>>

Lose(f) ==
  /\ f \in pending
  /\ pending' = pending \ {f}
  /\ UNCHANGED <<open, calls, accepted, delivered>>

Shut ==
  /\ open
  /\ open' = FALSE
  /\ UNCHANGED <<calls, accepted, pending, delivered>>

Next ==
  \/ \E p \in Producers : Call(p) \/ Accept(p) \/ TurnAway(p)
  \/ \E f \in pending : Deliver(f) \/ Lose(f)
  \/ Shut

Spec == Init /\ [][Next]_conduitVars

(***************************************************************************)
(* A weaker promise, for a conduit that does not look at the closed flag    *)
(* before it lets a call in: order and at most once stay, but a call may    *)
(* begin after Shut, and its frame may be taken in like any other.          *)
(***************************************************************************)
CallLate(p) ==
  /\ ~open
  /\ p \notin calls
  /\ calls' = calls \union {p}
  /\ UNCHANGED <<open, accepted, pending, delivered>>

LateSpec ==
  Init /\ [][Next \/ \E p \in Producers : CallLate(p)]_conduitVars

=============================================================================
