------------------------------- MODULE RxFifo -------------------------------
(***************************************************************************)
(* What the receive path promises: frames come out in the order they came  *)
(* in, each once; the bad ones are dropped and all others handed up.       *)
(* Nothing is promised once it is broken.                                  *)
(***************************************************************************)
EXTENDS Sequences

CONSTANTS
  Frames,   \* what can be received
  Bad       \* the frames among them that nobody wants

VARIABLES
  queue,    \* frames received and not yet dealt with
  up,       \* the frame handed up last
  broken

vars == <<queue, up, broken>>

Init == queue = <<>> /\ broken = FALSE

Receive(f) == queue' = Append(queue, f) /\ UNCHANGED <<up, broken>>

HandUp ==
  /\ queue # <<>> /\ Head(queue) \notin Bad
  /\ up' = Head(queue) /\ queue' = Tail(queue)
  /\ UNCHANGED broken

Drop ==
  /\ queue # <<>> /\ Head(queue) \in Bad
  /\ queue' = Tail(queue)
  /\ UNCHANGED <<up, broken>>

Next == (\E f \in Frames : Receive(f)) \/ HandUp \/ Drop \/ broken'
Spec == Init /\ [][Next]_vars
=============================================================================
