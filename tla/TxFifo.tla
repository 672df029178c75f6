------------------------------- MODULE TxFifo -------------------------------
(***************************************************************************)
(* What the transmit path promises: a queue.  Packets are transmitted in   *)
(* the order they were accepted, and a packet leaves the queue - is given  *)
(* back to the network stack - at its head, once, after it has been        *)
(* transmitted.  The order is told by who is ahead of whom.                *)
(***************************************************************************)
CONSTANT Packets

VARIABLES
  ahead,  \* a packet in the queue -> those accepted before it and still there
  sent    \* the packets in the queue that have been transmitted

vars == <<ahead, sent>>
Accepted == DOMAIN ahead

Init == ahead = [p \in {} |-> {}] /\ sent = {}

Accept(p) == /\ p \notin Accepted
             /\ ahead' = [q \in Accepted \cup {p} |-> IF q = p THEN Accepted ELSE ahead[q]]
             /\ UNCHANGED sent

Transmit(p) == /\ p \in Accepted \ sent /\ ahead[p] \subseteq sent
               /\ sent' = sent \cup {p}
               /\ UNCHANGED ahead

Release(p) == /\ p \in sent /\ p \in Accepted /\ ahead[p] = {}
              /\ ahead' = [q \in Accepted \ {p} |-> ahead[q] \ {p}]
              /\ sent' = sent \ {p}

Next == \E p \in Packets : Accept(p) \/ Transmit(p) \/ Release(p)
Spec == Init /\ [][Next]_vars
=============================================================================
