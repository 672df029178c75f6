----------------------------- MODULE ChipSetup ------------------------------
(***************************************************************************)
(* Which chip it is, which of its blocks are enabled, and which addresses  *)
(* of the host's memory it has been given: prepareController,              *)
(* resetController, initControllerChip, startController and stopController *)
(* of Controller.cpp with initTxRing and initRxRing of TransmitReceive.cpp.*)
(***************************************************************************)
EXTENDS Naturals

\* The two words of shared memory that hold the controller's address: two bytes
\* and four.
CONSTANTS PORT_HW_CFG_MAC_UPPER, PORT_HW_CFG_MAC_LOWER

ASSUME MacAssumption ==
  /\ PORT_HW_CFG_MAC_UPPER \in Nat /\ PORT_HW_CFG_MAC_LOWER \in Nat
  /\ PORT_HW_CFG_MAC_LOWER \div 256^3 < 256

Id(num, rev, metal) == [num |-> num, rev |-> rev, metal |-> metal]

\* NX2_CHIP_ID: the revisions the driver knows of; the 5716 is a 5709.
Chips ==
  {Id(5706, "A", m) : m \in 0 .. 3}
    \cup {Id(5708, "A", 0)} \cup {Id(5708, "B", m) : m \in 0 .. 2}
    \cup {Id(5709, "A", m) : m \in 0 .. 1} \cup {Id(5709, "B", m) : m \in 0 .. 2}
    \cup {Id(5709, "C", 0)}

Unsupported ==
  {Id(5706, "A", 0), Id(5706, "A", 1), Id(5708, "A", 0), Id(5708, "B", 0),
   Id(5709, "A", 0), Id(5709, "B", 0), Id(5709, "B", 1), Id(5709, "B", 2)}

\* The blocks by their bits in NX2_MISC_ENABLE_*.
TX_DMA == 4
RX_V2P == 15
RX_DMA == 17
HOST_COALESCE == 19
CONTEXT == 21
DMA_ENGINE == 26
MISC_ENABLE_DEFAULT == (0 .. 24) \cup {26}
MISC_ENABLE_DEFAULT_XI == (0 .. 26) \cup {28}
MISC_ENABLE_CLR_DEFAULT == (0 .. 26) \cup {28}

\* Those that move data to and from the host.
DmaBlocks == {TX_DMA, RX_DMA, DMA_ENGINE}

VARIABLES
  chipId,
  blocks,      \* the blocks enabled
  coreDma,     \* the 5709: NX2_MISC_NEW_CORE_CTL_DMA_ENABLE
  given,       \* which of its addresses the chip has: "none" are not this driver's
  regs,        \* the page sizes of the rings, the address and the mode of the filter
  startStep    \* startController: "none", "tx", "rx" or "up"

dmaVars == <<blocks, coreDma>>
setupVars == <<chipId, dmaVars, given, regs, startStep>>

Names == {"status", "stats", "tx", "rx"}
NotGiven == [n \in Names |-> "none"]

fetchMacAddress ==
  LET byte(word, k) == (word \div 256^k) % 256
  IN  << byte(PORT_HW_CFG_MAC_UPPER, 1), byte(PORT_HW_CFG_MAC_UPPER, 0),
         byte(PORT_HW_CFG_MAC_LOWER, 3), byte(PORT_HW_CFG_MAC_LOWER, 2),
         byte(PORT_HW_CFG_MAC_LOWER, 1), byte(PORT_HW_CFG_MAC_LOWER, 0) >>

setMacAddress(r, bytes) ==
  [r EXCEPT !.match0 = bytes[1] * 256 + bytes[2],
            !.match1 = bytes[3] * 256^3 + bytes[4] * 256^2 + bytes[5] * 256 + bytes[6]]

\* The sizes of a ring's page by their codes in the two registers.
TBDR_CONFIG_PAGE_SIZE == [code \in 0 .. 12 |-> 256 * 2^code]
RV2P_CONFIG_PAGE_SIZE == [code \in 0 .. 12 |-> 256 * 2^code]

\* TX_PAGE_BITS and RX_PAGE_BITS.
PAGE_BITS == 14
initTxRxRegs(r) == [r EXCEPT !.txPage = PAGE_BITS - 8, !.rxPage = PAGE_BITS - 8]

setRxMode(r, active) == [r EXCEPT !.promiscuous = active]

\* After a reset, and as other software may leave them.
NoRegs == [txPage |-> 0, rxPage |-> 0, match0 |-> 0, match1 |-> 0, promiscuous |-> FALSE]
OtherRegs == [NoRegs EXCEPT !.match1 = 1, !.promiscuous = TRUE]

\* Other software, or the bootcode, has used the device before.
SetupInit ==
  /\ chipId \in Chips
  /\ blocks \in {{}, MISC_ENABLE_DEFAULT_XI} /\ coreDma \in BOOLEAN
  /\ regs \in {NoRegs, OtherRegs}
  /\ given = NotGiven /\ startStep = "none"

StopController ==
  /\ blocks' = blocks \ MISC_ENABLE_CLR_DEFAULT
  /\ startStep' = "none"
  /\ UNCHANGED <<chipId, coreDma, given, regs>>

\* A mutant: one of the blocks is left enabled.
HoldDmaNotTx ==
  /\ blocks' = blocks \ {DMA_ENGINE, RX_DMA, HOST_COALESCE}
  /\ coreDma' = (coreDma /\ chipId.num # 5709)
  /\ UNCHANGED <<chipId, given, regs, startStep>>

\* "Ensure all pending PCI transactions are completed", "Disable DMA".
HoldDma ==
  /\ blocks' = blocks \ {TX_DMA, DMA_ENGINE, RX_DMA, HOST_COALESCE}
  /\ coreDma' = (coreDma /\ chipId.num # 5709)
  /\ UNCHANGED <<chipId, given, regs, startStep>>

\* The reset: the chip keeps what it had been told, or forgets it.
SetupReset ==
  /\ given' \in {given, NotGiven}
  /\ blocks' \in {blocks, {}} /\ regs' \in {regs, NoRegs}
  /\ UNCHANGED <<chipId, coreDma, startStep>>

\* The beginning of initControllerChip.
EnableContext ==
  /\ blocks' = blocks \cup {HOST_COALESCE, RX_V2P, CONTEXT}
  /\ UNCHANGED <<chipId, coreDma, given, regs, startStep>>

\* A mutant: only the status block's address is given.
GiveBlocksStatus ==
  /\ given' = [given EXCEPT !["status"] = "status"]
  /\ coreDma' = (coreDma \/ chipId.num = 5709)
  /\ regs' = setMacAddress(initTxRxRegs(regs), fetchMacAddress)
  /\ UNCHANGED <<chipId, blocks, startStep>>

\* Its end: the rings' page sizes, the filter's address, the status and
\* statistics blocks, and the 5709's DMA again.
GiveBlocks ==
  /\ given' = [given EXCEPT !["status"] = "status", !["stats"] = "stats"]
  /\ coreDma' = (coreDma \/ chipId.num = 5709)
  /\ regs' = setMacAddress(initTxRxRegs(regs), fetchMacAddress)
  /\ UNCHANGED <<chipId, blocks, startStep>>

\* A mutant: the mode of the filter is left as it is.
EnableBlocksOnly ==
  /\ startStep = "none"
  /\ blocks' = blocks \cup IF chipId.num = 5709 THEN MISC_ENABLE_DEFAULT_XI
                                                ELSE MISC_ENABLE_DEFAULT
  /\ startStep' = "tx"
  /\ UNCHANGED <<chipId, coreDma, given, regs>>

EnableBlocks ==
  /\ startStep = "none"
  /\ regs' = setRxMode(regs, FALSE)
  /\ blocks' = blocks \cup IF chipId.num = 5709 THEN MISC_ENABLE_DEFAULT_XI
                                                ELSE MISC_ENABLE_DEFAULT
  /\ startStep' = "tx"
  /\ UNCHANGED <<chipId, coreDma, given>>

\* setPromiscuousMode, whether or not the driver is enabled.
SetPromiscuous(active) ==
  /\ regs' = setRxMode(regs, active)
  /\ UNCHANGED <<chipId, dmaVars, given, startStep>>

\* The memory behind the addresses is freed.
TakeBack ==
  /\ given' = NotGiven
  /\ UNCHANGED <<chipId, dmaVars, regs, startStep>>

\* The contexts of the rings, and the words of them that are written.
GET_CID_ADDR(cid) == cid * 128
TX_CID == 16
RX_CID == 0
TxWords == IF chipId.num = 5709 THEN {\h80, \h240, \h258, \h25c} ELSE {\h0, \h88, \ha0, \ha4}
RxWords == {\h0, \h10, \h14}
ContextWords(ring) == IF ring = "tx" THEN {GET_CID_ADDR(TX_CID) + w : w \in TxWords}
                                     ELSE {GET_CID_ADDR(RX_CID) + w : w \in RxWords}

\* writeContext32 on the ring's context: the 5709 may not take a word in time,
\* which nobody is told of.
WriteContext(ring) ==
  \/ given' = [given EXCEPT ![ring] = ring]
  \/ chipId.num = 5709 /\ given' = [given EXCEPT ![ring] = "torn"]

InitTxRing ==
  /\ startStep = "tx"
  /\ WriteContext("tx")
  /\ startStep' = "rx"
  /\ UNCHANGED <<chipId, dmaVars, regs>>

\* A packet cannot be had: the context is not written, and startController does
\* not look at the result.
InitRxRing ==
  /\ startStep = "rx"
  /\ WriteContext("rx") \/ UNCHANGED given
  /\ startStep' = "up"
  /\ UNCHANGED <<chipId, dmaVars, regs>>

StartStep == EnableBlocks \/ InitTxRing \/ InitRxRing
-----------------------------------------------------------------------------
SetupTypeOK ==
  /\ chipId \in Chips
  /\ blocks \subseteq 0 .. 31 /\ coreDma \in BOOLEAN
  /\ given \in [Names -> Names \cup {"none", "torn"}]
  /\ DOMAIN regs = DOMAIN NoRegs
  /\ startStep \in {"none", "tx", "rx", "up"}

\* The chip has none of its DMA enabled.
Quiet == /\ blocks \cap DmaBlocks = {}
         /\ chipId.num = 5709 => ~coreDma
=============================================================================
