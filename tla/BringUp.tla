------------------------------ MODULE BringUp -------------------------------
(***************************************************************************)
(* Lifecycle with what is inside its steps: each buffer's allocation       *)
(* (DmaBuffers), the chip's context memory (ContextInit), its processors   *)
(* (FirmwareLoad), its blocks and addresses (ChipSetup).                   *)
(***************************************************************************)
EXTENDS Lifecycle, ContextInit, FirmwareLoad, DmaBuffers, ChipSetup,
        DeviceNames

\* The contexts of the rings are within the chips' own memory.
ASSUME ContextWordsAssumption == 34 < VirtPages

partVars == <<ctxVars, cpuVars, bufVars, setupVars>>
allVars == <<vars, partVars>>

InitAll ==
  /\ Init /\ ContextInit /\ FirmwareInit /\ BuffersInit /\ SetupInit
  /\ is5709 = (chipId.num = 5709)

fw == Images(chipId)
ThisBuffer == Needed[Cardinality(buffers) + 1]
-----------------------------------------------------------------------------
\* prepareController: a buffer is the driver's when its last step is done.
BufferBegin ==
  /\ pc = "alloc" /\ chipId \notin Unsupported
  /\ AllocBegin
  /\ UNCHANGED <<vars, ctxVars, cpuVars, setupVars>>

BufferStep ==
  /\ pc = "alloc"
  /\ AllocStep(ThisBuffer)
  /\ IF allocStep = "segment" /\ allocStep' = "ok" THEN Alloc ELSE UNCHANGED vars
  /\ UNCHANGED <<ctxVars, cpuVars, setupVars>>

\* The revision or the cursors at the beginning, or a buffer.
PrepareFails ==
  /\ allocStep = "failed" \/ (allocStep = "ok" /\ buffers = {})
  /\ AllocFails
  /\ FreeBuffers(buffers)
  /\ UNCHANGED <<ctxVars, cpuVars, setupVars>>

\* resetController, up to its first message and at its end.
Hold == SyncReset /\ HoldDma /\ UNCHANGED <<ctxVars, cpuVars, bufVars>>

Reset ==
  /\ ResetChip \/ ResetBadSwap \/ (ResetStuck /\ chip' = "reset")
  /\ SetupReset /\ ContextReset /\ CpusReset
  /\ UNCHANGED bufVars

\* initControllerChip.
SetupBegin ==
  /\ InitMask
  /\ EnableContext /\ ContextBegin(is5709)
  /\ UNCHANGED <<cpuVars, bufVars>>

SetupContext ==
  /\ pc = "setup" /\ ContextNext
  /\ UNCHANGED <<vars, cpuVars, bufVars, setupVars>>

SetupFails == InitChipFails /\ ctxStep = "failed" /\ UNCHANGED partVars

SetupCpus ==
  /\ pc = "setup" /\ ctxStep = "ready"
  /\ LoadBegin \/ LoadNext(fw)
  /\ UNCHANGED <<vars, ctxVars, bufVars, setupVars>>

SetupEnd ==
  /\ InitChip /\ fwStep = "done"
  /\ GiveBlocks
  /\ UNCHANGED <<ctxVars, cpuVars, bufVars>>

\* enable() and its startController, up to the interrupts.
EnableBegin == Enable /\ StopController /\ UNCHANGED <<ctxVars, cpuVars, bufVars>>

Starting ==
  /\ pc = "finish" /\ op = "enable" /\ StartStep
  /\ UNCHANGED <<vars, ctxVars, cpuVars, bufVars>>

EnableEnd == Enabled /\ startStep = "up" /\ UNCHANGED partVars

Promiscuous(active) ==
  /\ pc = "idle" /\ SetPromiscuous(active)
  /\ UNCHANGED <<vars, ctxVars, cpuVars, bufVars>>

FreeAll ==
  /\ Free
  /\ IF pc' = "unloaded" THEN FreeBuffers(buffers) /\ TakeBack
                          ELSE UNCHANGED <<bufVars, setupVars>>
  /\ UNCHANGED <<ctxVars, cpuVars>>

\* The steps of a call in which the parts above have no share.
CallOnly ==
  /\ \/ Open \/ OpenFails
     \/ Answered("wait0", "reset") \/ NotAnswered("wait0")
     \/ (ResetStuck /\ UNCHANGED chip)
     \/ Sync("wait1", "WAIT1") \/ Answered("wait1", "init") \/ NotAnswered("wait1")
     \/ Sync("wait2", "WAIT2") \/ Wait2Over
     \/ Attach \/ SyncSteps
  /\ UNCHANGED partVars

CallAll ==
  \/ BufferBegin \/ BufferStep \/ PrepareFails
  \/ Hold \/ Reset
  \/ SetupBegin \/ SetupContext \/ SetupFails \/ SetupCpus \/ SetupEnd
  \/ Starting \/ EnableEnd
  \/ CallOnly

NextAll ==
  \/ CallAll \/ EnableBegin \/ FreeAll
  \/ \E active \in BOOLEAN : Promiscuous(active)
  \/ (Load \/ Stop \/ Firmware) /\ UNCHANGED partVars

\* A call that has begun is executed, however long the chip's registers stay
\* busy and whatever the bootcode does.
SpecAll == InitAll /\ [][NextAll]_allVars /\ WF_allVars(CallAll)
-----------------------------------------------------------------------------
TypeOKAll ==
  /\ TypeOK /\ ContextTypeOK /\ FirmwareTypeOK /\ SetupTypeOK
  /\ BuffersTypeOK({"status", "stats", "tx", "rx", "context"})

\* startController has begun, and no later call of start() or enable().
Started == op = "enable" /\ startStep # "none"

\* See NoneLeft: holds of the driver at any time, a failed start() included.
NoBufferLeft == NoneLeft(buffers)

ContextComplete == ContextReady(is5709)

FirmwareRuns == RunningWhole(fw)

\* The chip is told the size of the rings' pages three times, in three units,
\* one of which is an instruction of its firmware: once it is set up, the
\* registers have the 2^PAGE_BITS bytes of both and the RV2P processors the
\* descriptors of the receive ring but the chain pointer.
PageSizeAgrees ==
  /\ PageSizePatched(2^PAGE_BITS \div 16 - 1)
  /\ chip \in {"ready", "running"} =>
       /\ fwStep = "done"
       /\ TBDR_CONFIG_PAGE_SIZE[regs.txPage] = 2^PAGE_BITS
       /\ RV2P_CONFIG_PAGE_SIZE[regs.rxPage] = 2^PAGE_BITS

\* From the moment startController enables the blocks until enable() returns
\* the chip takes no frame but the driver's own and broadcasts, whatever other
\* software left in the filter and whatever the system asked for before; and an
\* enabled driver's filter has the address that the shared memory holds.
FilterOwn ==
  /\ Started /\ pc = "finish" => ~regs.promiscuous
  /\ Started \/ isEnabled =>
       /\ regs.match0 = PORT_HW_CFG_MAC_UPPER % 65536
       /\ regs.match1 = PORT_HW_CFG_MAC_LOWER

\* When the rings are set up, each word that is written to their contexts goes
\* to memory that initContext has cleared, or to the page of the host it is
\* meant for, and to a word of its own.
ContextsHold ==
  /\ ContextWords("tx") \cap ContextWords("rx") = {}
  /\ Started =>
       \A word \in ContextWords("tx") \cup ContextWords("rx") :
         IF is5709
         THEN LET page == word \div CTX_COMMAND_PAGE_SIZE[PageSizeCode]
              IN  page \in HostPages /\ hostTable[page] # {}
         ELSE /\ pageTable[word \div 64] = word \div 64
              /\ word \div 64 \in cleared

\* A controller that is brought up is called by its own board's name if the
\* table has it, else by its chip's, whatever the order of the rows.
Identified == pc = "alloc" /\ chipId \notin Unsupported => NamedBest(chipId.num)

\* "Ensure all pending PCI transactions are completed" (Controller.cpp:147):
\* from the message that asks for the reset until the chip is set up nothing
\* moves data to or from the host, whoever has used the device before and
\* wherever an earlier call gave up.
QuietReset ==
  pc \in {"reset", "wait1", "init", "setup"} \/ (pc = "wait0" /\ sync # "none") => Quiet

\* Once startController has let the chip's DMA loose, the addresses the chip has
\* for the status and statistics blocks, for the pages of the 5709's context and,
\* when the transmit ring has been set up, for the ring of any other chip, are
\* those of buffers the driver still has.  Nothing is said of what the code does
\* not look after: the receive ring, for which there may be no packets; the
\* rings of a 5709, which may be too slow for the words of a context; and the
\* time before the rings are set up.
DmaIntoBuffers ==
  pc \in {"finish", "idle"} /\ ~Quiet /\ Started =>
    /\ given["status"] \in buffers /\ given["stats"] \in buffers
    /\ is5709 => "context" \in buffers /\ ctxStep = "ready"
    /\ fwStep = "done"
    /\ startStep \in {"rx", "up"} /\ ~is5709 => given["tx"] = "tx" /\ "tx" \in buffers
-----------------------------------------------------------------------------
(***************************************************************************)
(* How far a call of start() or enable() is from its end: the stage it has *)
(* come to; what is left to do there; and the turns left of the loop that  *)
(* does it.                                                                *)
(***************************************************************************)
StagesLeft == [open |-> 9, alloc |-> 8, wait0 |-> 7, reset |-> 6, wait1 |-> 5, init |-> 4,
               setup |-> 3, wait2 |-> 2, finish |-> 1]
Stage == IF pc \in Busy THEN StagesLeft[pc] ELSE 0

BufferLeft == [ok |-> 4, desc |-> 3, cmd |-> 2, segment |-> 1, failed |-> 0]
SyncLeft == [none |-> 2, poll |-> 1, ok |-> 0, failed |-> 0]
StartLeft == [none |-> 3, tx |-> 2, rx |-> 1, up |-> 0]
CpuLeft == [stop |-> 6, text |-> 5, data |-> 4, roData |-> 3, pc |-> 2, start |-> 1]

PagesLeft == CASE ctxStep = "mem" -> CtxPages + 1
               [] ctxStep \in {"page", "pageWait"} -> CtxPages - ctxPage
               [] ctxStep = "virt" -> ctxPage
               [] OTHER -> 0

\* Of the two RV2P processors and the five others.
CpusLeft == CASE fwStep = "none" -> 34
              [] fwStep = "rv2p" -> IF fwAt = 1 THEN 33 ELSE 32
              [] fwStep = "done" -> 0
              [] OTHER -> 6 * (5 - fwAt) + CpuLeft[fwStep]

Work == CASE pc = "alloc" -> Len(Needed) - Cardinality(buffers)
          [] pc \in {"wait0", "wait1", "wait2"} -> SyncLeft[sync]
          [] pc = "setup" -> PagesLeft
          [] pc = "finish" -> StartLeft[startStep]
          [] OTHER -> 0

Turns == CASE pc = "alloc" -> BufferLeft[allocStep]
           [] pc \in {"wait0", "wait1", "wait2"} -> MaxPolls - polls
           [] pc = "setup" /\ ctxStep \in {"mem", "pageWait"} -> CtxPolls - ctxTry
           [] pc = "setup" /\ ctxStep = "page" -> CtxPolls + 1
           [] pc = "setup" /\ ctxStep = "ready" -> CpusLeft
           [] OTHER -> 0

Position == <<Stage, Work, Turns>>

Nearer(p, q) == \/ p[1] < q[1]
                \/ p[1] = q[1] /\ p[2] < q[2]
                \/ p[1] = q[1] /\ p[2] = q[2] /\ p[3] < q[3]

\* "FW_ACK_TIME_OUT_MS", "CTX_INIT_RETRY_COUNT": while a call is under way every
\* step of it takes it nearer to its end, in naturals, and nothing the bootcode
\* does takes it back: no sequence of busy registers, late answers and failures
\* makes start() or enable() go round in circles.
CallsProgress ==
  [][(pc \in Busy => \/ Position' \in Nat \X Nat \X Nat /\ Nearer(Position', Position)
                     \/ Firmware /\ UNCHANGED Position)]_allVars
=============================================================================
