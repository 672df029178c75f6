---------------------------- MODULE MCInterrupts ----------------------------
(***************************************************************************)
(* Interrupts with a link that is down, at no speed the driver knows, up   *)
(* at a speed with a port mode of its own and half duplex, or up at full   *)
(* speed.                                                                  *)
(***************************************************************************)
EXTENDS Interrupts

MCPhyStates == { [up |-> FALSE, speed |-> "other"], [up |-> TRUE, speed |-> "10HD"],
                 [up |-> TRUE, speed |-> "1000FD"] }
=============================================================================
