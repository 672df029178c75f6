----------------------------- MODULE Lifecycle ------------------------------
(***************************************************************************)
(* How the driver comes up and goes away: start, enable, stop and free of  *)
(* AzulNX2Ethernet.cpp with prepareController, resetController,            *)
(* initControllerChip, startController and stopController of               *)
(* Controller.cpp and initEventSources, allocDmaBuffer, freeDmaBuffer and  *)
(* firmwareSync of Private.cpp.                                            *)
(*                                                                         *)
(* start() and enable() both reset the chip and set it up, in an order the *)
(* bootcode is told of; anything on the way may fail.  An instance of the  *)
(* driver that is freed may be followed by another, on the same device.    *)
(***************************************************************************)
EXTENDS FirmwareSync, Sequences, SequencesExt

CONSTANT Loads   \* bound: how often the driver is loaded
ASSUME LoadsAssumption == Loads \in Nat \ {0}

VARIABLES
  is5709,      \* NX2_CHIP_NUM, which the chip itself tells
  op,          \* the call under way: "start" or "enable"
  pc,          \* where it is
  buffers,     \* the DMA buffers that are allocated
  nubOpen,     \* pciNub has been opened
  source,      \* interruptSource is on the work loop
  chip,        \* "stopped", "reset", "ready" or "running"
  masked,      \* the device's interrupts
  isEnabled

envVars == <<load, firstLeft, is5709>>
osVars == <<buffers, nubOpen, source>>
chipVars == <<chip, masked>>
vars == <<envVars, syncVars, op, pc, osVars, chipVars, isEnabled>>

Busy == {"open", "alloc", "wait0", "reset", "wait1", "init", "setup", "wait2", "finish"}

\* The buffers in the order they are allocated; only the 5709 needs memory of
\* the host for its context.
Needed == IF is5709 THEN <<"status", "stats", "tx", "rx", "context">>
                    ELSE <<"status", "stats", "tx", "rx">>

Init ==
  /\ SyncInit /\ is5709 \in BOOLEAN
  /\ op = "start" /\ pc = "unloaded"
  /\ buffers = {} /\ nubOpen = FALSE /\ source = FALSE
  /\ chip = "stopped" /\ masked = TRUE /\ isEnabled = FALSE
-----------------------------------------------------------------------------
(***************************************************************************)
(* start() up to the reset.                                                *)
(***************************************************************************)
Load ==
  /\ pc = "unloaded" /\ load < Loads
  /\ load' = load + 1 /\ firstLeft' = FirstIsLeft
  /\ fwSyncSeq' = 0 /\ isEnabled' = FALSE
  /\ op' = "start" /\ pc' = "open" /\ source' = FALSE
  /\ UNCHANGED <<is5709, sync, polls, drvMb, fwVars, buffers, nubOpen, chipVars>>

\* The nub is opened, its registers mapped, the interrupt source installed.
\* Nobody closes the nub of a driver that was enabled: it then stays open.
Open ==
  /\ pc = "open" /\ ~nubOpen
  /\ nubOpen' = TRUE /\ source' = TRUE
  /\ pc' = "alloc"
  /\ UNCHANGED <<envVars, syncVars, op, buffers, chipVars, isEnabled>>

OpenFails ==
  /\ pc = "open"
  /\ pc' = "failed"
  /\ UNCHANGED <<envVars, syncVars, op, osVars, chipVars, isEnabled>>

\* prepareController.
Alloc ==
  /\ pc = "alloc"
  /\ LET i == Cardinality(buffers) + 1
     IN  /\ buffers' = buffers \cup {Needed[i]}
         /\ pc' = IF i = Len(Needed) THEN "wait0" ELSE "alloc"
  /\ UNCHANGED <<envVars, syncVars, op, nubOpen, source, chipVars, isEnabled>>

\* A mutant: the buffers allocated before are kept when one fails.
AllocFailsKeeping ==
  /\ pc = "alloc"
  /\ nubOpen' = FALSE
  /\ pc' = "failed"
  /\ UNCHANGED <<envVars, syncVars, op, buffers, source, chipVars, isEnabled>>

\* A revision that is not supported, no memory cursor, or no memory for a
\* buffer: those already allocated are freed.
AllocFails ==
  /\ pc = "alloc"
  /\ buffers' = {} /\ nubOpen' = FALSE
  /\ pc' = "failed"
  /\ UNCHANGED <<envVars, syncVars, op, source, chipVars, isEnabled>>
-----------------------------------------------------------------------------
(***************************************************************************)
(* resetController and initControllerChip, in start() and in enable().     *)
(***************************************************************************)

\* start() closes the nub and stops; enable() leaves it open and reports the
\* error.
GiveUp ==
  IF op = "start" THEN pc' = "failed" /\ nubOpen' = FALSE
                  ELSE pc' = "idle" /\ UNCHANGED nubOpen

\* resetController stops the DMA engines before it asks for the reset.
SyncReset ==
  /\ pc = "wait0" /\ SyncSend("WAIT0")
  /\ chip' = "stopped"
  /\ UNCHANGED <<envVars, op, pc, osVars, masked, isEnabled>>

Sync(at, w) ==
  /\ pc = at /\ SyncSend(w)
  /\ UNCHANGED <<envVars, op, pc, osVars, chipVars, isEnabled>>

Answered(at, next) ==
  /\ pc = at /\ SyncReturn("ok")
  /\ pc' = next
  /\ UNCHANGED <<envVars, op, osVars, chipVars, isEnabled>>

\* A mutant: nobody looks at what firmwareSync returns.
NotAnsweredIgnored(at) ==
  /\ pc = at /\ SyncReturn("failed")
  /\ pc' = IF at = "wait0" THEN "reset" ELSE "init"
  /\ UNCHANGED <<envVars, op, osVars, chipVars, isEnabled>>

NotAnswered(at) ==
  /\ pc = at /\ SyncReturn("failed")
  /\ GiveUp
  /\ UNCHANGED <<envVars, op, buffers, source, chipVars, isEnabled>>

\* What the reset makes of the interrupt mask the code does not tell.
ResetChip ==
  /\ pc = "reset"
  /\ FwRestart
  /\ chip' = "reset" /\ masked' \in {masked, TRUE}
  /\ pc' = "wait1"
  /\ UNCHANGED <<envVars, op, osVars, isEnabled>>

\* The reset, asked for, is not seen to end in time (which a 5709 is not asked):
\* it may or may not have taken place.
ResetStuck ==
  /\ pc = "reset" /\ ~is5709
  /\ \/ FwRestart /\ chip' = "reset" /\ masked' \in {masked, TRUE}
     \/ UNCHANGED <<syncVars, chipVars>>
  /\ GiveUp
  /\ UNCHANGED <<envVars, op, buffers, source, isEnabled>>

\* The byte order is wrong after the reset.
ResetBadSwap ==
  /\ pc = "reset"
  /\ FwRestart
  /\ chip' = "reset" /\ masked' \in {masked, TRUE}
  /\ GiveUp
  /\ UNCHANGED <<envVars, op, buffers, source, isEnabled>>

\* initControllerChip masks the interrupts first of all.
InitMask ==
  /\ pc = "init"
  /\ masked' = TRUE
  /\ pc' = "setup"
  /\ UNCHANGED <<envVars, syncVars, op, osVars, chip, isEnabled>>

InitChip ==
  /\ pc = "setup"
  /\ chip' = "ready"
  /\ pc' = "wait2"
  /\ UNCHANGED <<envVars, syncVars, op, osVars, masked, isEnabled>>

\* The 5709 does not take its context memory.
InitChipFails ==
  /\ pc = "setup" /\ is5709
  /\ GiveUp
  /\ UNCHANGED <<envVars, syncVars, op, buffers, source, chipVars, isEnabled>>

\* What the last firmwareSync returns is not looked at.
Wait2Over ==
  /\ pc = "wait2" /\ (SyncReturn("ok") \/ SyncReturn("failed"))
  /\ pc' = "finish"
  /\ UNCHANGED <<envVars, op, osVars, chipVars, isEnabled>>
-----------------------------------------------------------------------------
\* The end of start(): the interface is attached, or is not.
Attach ==
  /\ pc = "finish" /\ op = "start"
  /\ nubOpen' = FALSE
  /\ pc' \in {"idle", "failed"}
  /\ UNCHANGED <<envVars, syncVars, op, buffers, source, chipVars, isEnabled>>

\* enable(): refused when the driver is enabled or the nub is open already.
Enable ==
  /\ pc = "idle" /\ ~isEnabled /\ ~nubOpen
  /\ nubOpen' = TRUE
  /\ chip' = "stopped" /\ masked' = TRUE
  /\ op' = "enable" /\ pc' = "wait0"
  /\ UNCHANGED <<envVars, syncVars, buffers, source, isEnabled>>

\* A mutant: enable() forgets to start the controller.
EnabledOnly ==
  /\ pc = "finish" /\ op = "enable"
  /\ isEnabled' = TRUE
  /\ pc' = "idle"
  /\ UNCHANGED <<envVars, syncVars, op, osVars, chipVars>>

\* startController and the end of enable().
Enabled ==
  /\ pc = "finish" /\ op = "enable"
  /\ chip' = "running" /\ masked' = FALSE
  /\ isEnabled' = TRUE
  /\ pc' = "idle"
  /\ UNCHANGED <<envVars, syncVars, op, osVars>>

\* stop() leaves the chip as it is.
Stop ==
  /\ pc = "idle"
  /\ source' = FALSE
  /\ pc' = "stopped"
  /\ UNCHANGED <<envVars, syncVars, op, buffers, nubOpen, chipVars, isEnabled>>

\* free() takes for granted that every buffer is there: the memory of one that
\* was never allocated, or freed before, is released through NULL.
Free ==
  /\ pc \in {"stopped", "failed"}
  /\ IF ToSet(Needed) \subseteq buffers
     THEN pc' = "unloaded" /\ buffers' = {}
     ELSE pc' = "panic" /\ UNCHANGED buffers
  /\ UNCHANGED <<envVars, syncVars, op, nubOpen, source, chipVars, isEnabled>>

SyncSteps == /\ SyncPoll \/ SyncTimeout
             /\ UNCHANGED <<envVars, op, pc, osVars, chipVars, isEnabled>>
Firmware == /\ pc # "panic" /\ (FwTake \/ FwAnswer)
            /\ UNCHANGED <<envVars, op, pc, osVars, chipVars, isEnabled>>

\* What a call of start() or enable() does once it has begun.
Call ==
  \/ Open \/ OpenFails \/ Alloc \/ AllocFails
  \/ SyncReset \/ Answered("wait0", "reset") \/ NotAnswered("wait0")
  \/ ResetChip \/ ResetStuck \/ ResetBadSwap
  \/ Sync("wait1", "WAIT1") \/ Answered("wait1", "init") \/ NotAnswered("wait1")
  \/ InitMask \/ InitChip \/ InitChipFails
  \/ Sync("wait2", "WAIT2") \/ Wait2Over
  \/ Attach \/ Enabled
  \/ SyncSteps
Next == Load \/ Call \/ Enable \/ Stop \/ Free \/ Firmware

\* A call that has begun is executed; the bootcode need not do anything.
Spec == Init /\ [][Next]_vars
FairSpec == Spec /\ WF_vars(Call)
-----------------------------------------------------------------------------
TypeOK ==
  /\ SyncTypeOK
  /\ load \in 0 .. Loads /\ firstLeft \in BOOLEAN
  /\ is5709 \in BOOLEAN /\ op \in {"start", "enable"}
  /\ pc \in Busy \cup {"unloaded", "idle", "failed", "stopped", "panic"}
  /\ buffers \subseteq ToSet(Needed)
  /\ nubOpen \in BOOLEAN /\ source \in BOOLEAN /\ masked \in BOOLEAN
  /\ isEnabled \in BOOLEAN
  /\ chip \in {"stopped", "reset", "ready", "running"}

\* "Prepare firmware for software reset" (Controller.cpp:168), "Wait for
\* firmware to initialize again" (:225): the chip is reset only when the
\* bootcode has agreed to this very reset, and set up only when it has come
\* back, unless the driver found the number of its first message in the
\* mailboxes.
FirmwareAgrees == ~firstLeft =>
  /\ pc = "reset" => fwMb.load = load /\ fwMb.wait = "WAIT0" /\ fwMb.seq = fwSyncSeq
  /\ pc \in {"init", "setup"} =>
       fwMb.load = load /\ fwMb.wait = "WAIT1" /\ fwMb.seq = fwSyncSeq

\* Whoever finds isEnabled set - the interrupt handler, the output thread -
\* finds the buffers allocated, the nub open and the controller running,
\* through failed calls of start() and enable() and repeated ones; and nothing
\* resets the chip under them.
EnabledReady ==
  isEnabled /\ pc \in Busy \cup {"idle"} =>
    /\ pc = "idle" /\ source /\ nubOpen
    /\ buffers = ToSet(Needed)
    /\ chip = "running" /\ ~masked

\* A driver whose start() succeeded, or failed once the buffers were
\* allocated, is freed without a trace; free() hits buffers that are not there
\* only after a start() that failed before, and which closed the nub again
\* unless a driver before it had left it open.
FreeComplete ==
  /\ pc = "unloaded" => buffers = {}
  /\ pc = "stopped" => buffers = ToSet(Needed) /\ ~source
  /\ pc = "panic" => buffers = {} /\ ~isEnabled /\ (nubOpen => load > 1)

\* start() and enable() hold the work loop; they end even if the bootcode
\* hangs.
CallsEnd == pc \in Busy ~> pc \notin Busy
=============================================================================
