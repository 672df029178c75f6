# AzulNX2Ethernet in TLA+

AzulNX2Ethernet is a macOS (IOKit) driver for Broadcom NetXtreme II Ethernet controllers.  This
directory holds TLA+ models of the driver, the TLC configurations that check them and the proofs
TLAPS checks.  Paths like `TransmitReceive.cpp:146` are relative to `src/src/AzulNX2Ethernet/`.

## The system

| Component | State it keeps | Operations | What must hold |
|---|---|---|---|
| Ring indexes (`HwBuffers.h`, `readTxCons`, `readRxCons`) | 16-bit producer and consumer indexes over a page of 1024 descriptors whose last one is a chain pointer | `TX_NEXT_BD`, `TX_BD_INDEX`, `readTxCons` and the RX twins | driver and device stay in step through laps and roll-over; the chain pointer is never used for data |
| Transmit path (`TransmitReceive.cpp:61-236`) | `txProd`, `txCons`, `txFreeDescriptors`, `txPackets[]`, the descriptor page | `initTxRing`, `sendTxPacket` (caller's thread), `handleTxInterrupt` (work loop) | no descriptor overwritten, no packet freed while the device reads it, none lost or freed twice, a stalled queue is woken |
| Receive path (`:238-407`) | `rxProd`, `rxCons`, `rxPackets[]`, the descriptor page, the checksum mask | `initRxRing`, `initRxDescriptor`, `handleRxInterrupt` | each posted descriptor has a live packet, each good frame goes up once and in order, bad ones are dropped, the first packet of a burst claims no checks of an earlier one |
| Interrupts (`AzulNX2Ethernet.cpp:222-268`, `Private.cpp:269-284`) | `lastStatusIndex`, the device's mask | `interruptOccurred`, `enableInterrupts`, `disableInterrupts` | nothing the status block reports is forgotten |
| PHY and link (`PHY.cpp`) | `currentMediumIndex`, `mediaState`, the mode of the EMAC | `handlePHYInterrupt`, `readPhyReg16`, `updatePHYMediaState` | the link reported is the link; the EMAC has the mode of the medium reported |
| Life cycle (`AzulNX2Ethernet.cpp`, `Controller.cpp`) | `isEnabled`, `pciNub` open or not, `interruptSource`, the chip | `start`, `enable`, `stop`, `free`, `setPromiscuousMode`, `prepareController`, `resetController`, `initControllerChip`, `startController`, `stopController` | `isEnabled` implies a complete bring-up; what was allocated is freed once; the chip moves no data while it is reset |
| DMA buffers (`Private.cpp:286-349`) | descriptor and command of each buffer | `allocDmaBuffer`, `freeDmaBuffer` | a step that fails leaves nothing behind |
| Firmware synchronisation (`Private.cpp:351-387`) | `fwSyncSeq`, two mailboxes in the device | `firmwareSync` | success means that this message was answered |
| Context memory (`Private.cpp:389-473`) | tables in the device | `initContext` | all of it is cleared or given pages of the host, or the bring-up stops |
| Firmware loading (`Private.cpp:475-761`) | the processors' memories | `initCpus`, `loadRv2pFirmware`, `loadCpuFirmware` | no processor runs without its whole image |
| Blocks, addresses, filter (`Controller.cpp`, `PHY.cpp:404-423`) | the registers of the device | `initControllerChip`, `startController`, `fetchMacAddress`, `setMacAddress`, `setRxMode`, `initTxRxRegs` | the addresses the driver looks after are those of buffers; the filter is the driver's own |
| Identification (`Private.cpp:30-109`, `:245-267`) | none | `getDeviceVendor`, `getDeviceModel` | a board is called by its own row of the table |
| Registers, IOKit glue | none of its own | accessors | - |

How they interact.  The network stack's thread calls `outputPacket` through
`IOBasicOutputQueue`, which lets one call in at a time; `interruptOccurred` runs on the work
loop; `enable` runs inside the gate of that work loop.  The two threads share the transmit ring
without a lock.  The device shares the descriptor pages and the status block by DMA and is told
of new descriptors by mailbox writes.  The PHY is read over MDIO, from `enable` and from the
handler.  `handleTxInterrupt` wakes the queue with `service`.  The bootcode in the device
answers `firmwareSync` through shared memory of the device, which outlives the driver.

What is hard: the interleaving of the two threads on the transmit ring; indexes that roll over
and skip a descriptor; the order in which the handler looks at the status block and acknowledges
it; allocations that fail in the middle of a burst; a link that changes while it is being looked
at; answers of the bootcode that come late; bring-up that fails half way, on a chip that
somebody else has used before.  `PROJECT.json` lists each such place at its line under
"hazards".

The device itself is not in the repository, but for its manual: its actions are modelled from
what the driver relies on and marked external.

## The modules

| Module | Models | Used by |
|---|---|---|
| `RingIndex` | index arithmetic, constants `MaxBD` (1024) and `Pages` (64 laps in 2^16) | all ring modules |
| `RingIndexProofs` | lemmas on it, for all sizes | the other ring proofs |
| `RingWalk` | device and driver walking the ring side by side, by the arithmetic of `RingIndex` | `RingLaps`, `RingWalkProofs` |
| `RingWalkProofs` | that they stay in step, for all sizes | - |
| `RingLaps` | the C macros with their masks, compared with `RingIndex` along that walk through all 2^16 values | - |
| `TxRing` | transmit path: output thread, work loop, device, output queue | `TxRingInv`, `TxInterrupts` |
| `TxInterrupts` | `TxRing` behind the interrupt handshake: what brings the handler to the ring | - |
| `TxRingInv` | the inductive invariant | `TxQueue` |
| `TxFifo` | what the transmit path promises: a queue | `TxQueue` (refinement) |
| `TxQueue` | the refinement mapping from the ring to the queue | `MCTxRing`, `TxRingProofs` |
| `TxRingProofs` | proofs about `TxRing` and the refinement | - |
| `RxRing` | receive path: work loop, device, network stack | `RxRingInv` |
| `RxRingInv` | the inductive invariant | `RxInput`, `MCRxRing`, `RxRingProofs` |
| `RxInput` | `RxRing` with what is in the packets: header, length, errors, checks; its inductive invariant | `MCRxInput`, `RxRingProofs` |
| `RxFifo` | what the receive path promises: a queue with a filter | `RxInput` (refinement) |
| `RxRingProofs` | proofs about `RxRing`, `RxInput` and the refinement | - |
| `PhyLink` | the PHY, MDIO and `updatePHYMediaState` | `Interrupts` |
| `Interrupts` | handler and host coalescing block, with the link | `MCInterrupts`, `InterruptsProofs` |
| `InterruptsProofs` | proofs about both | - |
| `FirmwareSync` | `firmwareSync` and the bootcode | `Lifecycle` |
| `Lifecycle` | `start`, `enable`, `stop`, `free`, with `FirmwareSync` | `BringUp`, `LifecycleProofs` |
| `DmaBuffers`, `ContextInit`, `FirmwareLoad`, `ChipSetup`, `DeviceNames` | what is inside the steps of `Lifecycle`, one part each | `BringUp` |
| `BringUp` | `Lifecycle` composed with those parts | `BringUpProofs` |
| `LifecycleProofs`, `BringUpProofs` | proofs about the two | each by the next |
| `SetupProofs` | proofs about `BringUp`: registers, processors, context words, names, types, progress of the calls | - |

Definitions keep the names of the source where they can; `PROJECT.json` maps each to its lines.
A definition introduced as *a mutant* is a plausible mistake in the code, put in the place of
the definition it precedes to show that a property notices it; it is part of no specification.

**TxRing.** `outPc` is where `sendTxPacket` stands, `irqPc` where `handleTxInterrupt` does; a
step is a stretch of code that touches shared state once.  A packet is an mbuf of the constant
`Packets`, its data are left out; a descriptor is the packet it belongs to and the flags CHAIN,
START and END. The number of segments is chosen freely up to `MaxSeg`, 0 standing for a cursor
that fails.  `held` is the set of packets the driver is responsible for.  The constant
`RacyCounter` says whether `txFreeDescriptors -= n` and `++` are one step each (what the code
means) or a load and a store (what an ordinary C++ member may be compiled to).  Memory is
sequentially consistent: the order in which the device sees descriptors and mailbox is taken to
be program order.  `IOBasicOutputQueue` is external: it retries the packet that met a stall once
`service` has been called, also when that call came while the packet was being refused.

**TxQueue** sees the ring as `TxFifo`: the packets recorded in slots, each with those in slots
nearer to `txCons` ahead of it, and those whose last descriptor the device has passed as sent.
The order is a relation rather than a sequence because a packet of several descriptors occupies
one slot of several, so that the queue's positions are not those of the ring.

**TxInterrupts** conjoins actions of `TxRing` with the steps of `interruptOccurred`: the look at
the transmit index happens only in a handler that an interrupt has started, and `HandlerSample`
takes the status index without another look at the rings.  Of that index only `newer` is kept:
the device has written the status block since.  `WriteOther` is a write for the receive ring or
the link.  A completion that is written between look and sample is `Forgotten` once the handler
is gone.

**RxRing.** `initRxDescriptor(index)` fills the slot `index` but advances `rxProd`, whatever
that names; the model keeps the two apart.  It has the two ways to fail that the code has (no
packet; a packet but no segment).  Good and bad packets are `RxPacket("stack")` and
`RxPacket("free")`.  `failed` only remembers that a call has failed, so that the properties can
tell.

**RxInput** adds the packets' contents to `RxRing`: a header is the length the device writes,
its error bit and the checks it claims to have made.  `packetLength` is the 16-bit difference
the code computes.  `checksumValidMask` is kept as the code keeps it, over a burst.  Once a
refill has failed the model no longer follows which packet holds what, since the descriptors are
no longer right.

**Interrupts** extends **PhyLink**. The status block is the attention bit of the link with its
acknowledgement, the two consumer indexes and the index; each look of the handler is a step.
`IrqAck`/`IrqUnmask` are the two writes of `enableInterrupts`: the second raises an interrupt
when the index given back is not the device's.  An MDIO read (`MdioStart`) is a transaction of
its own, `wire`: the PHY looks at its link at some moment (`MdioSense`), the answer is in the
register some time later (`MdioAnswer`), polled `PhyPolls` times.  A read that is given up goes
on; the next one may find it still there and take what it has seen, however old (`late` marks
both cases).  The PHY may change at any time.  `flaps` only counts, up to two, the changes since
the link was last in order.  Of the device four things are assumed that the code does not tell:
the attention bit is the level of the link, its acknowledgement is clear after a reset, a read
started while another is under way either replaces it or is answered by it, and
`COAL_NOW_WO_INT` writes the status block before the write of the register returns.

**Lifecycle** extends **FirmwareSync**: `pc` walks through `start` or `enable` and at `wait0`,
`wait1` and `wait2` a call of `firmwareSync` runs, poll by poll, while the bootcode (`FwTake`,
`FwAnswer`) works at its own pace.  A reset of the chip makes the bootcode forget the message at
hand and may or may not clear its mailbox; a reset that does not come to its end in time may
have done so or not (`ResetStuck`).  The mailboxes start with whatever another user of the chip
left in them, a number of `LeftSeqs` or nothing, seen by the bootcode or not; `firstLeft`
remembers that the number of a driver's first message was among that when it was loaded.  `load`
counts driver instances; in messages it is only a mark by which the properties tell two
instances' messages apart.

**BringUp** conjoins actions of **Lifecycle** with those of the parts.  `BufferStep` goes
through `allocDmaBuffer`, and the step that ends well is `Alloc`; as in the code, nobody looks
at the result of `prepare()`, so that a descriptor may be wired or not.  The `setup` step
becomes a loop over the pages of the context memory (polled `CtxPolls` times on a 5709), then
over the processors: RV2P code with its patched instruction, and for each MIPS the stop, three
sections, program counter and start.  Sections are ranges of the chip's one address space, with
addresses and lengths read off the images in `firmware/`; writing over one that is there leaves
nothing of it.  `ChipSetup` keeps the enabled blocks by their bits, the page sizes, address and
mode of the filter as the registers have them, and which buffer each address given to the chip
belongs to (`none` is an address that is not of this driver, `torn` the one half written that a
5709 too slow for a context word leaves behind).  The two words of shared memory that hold the
MAC address are constants.  `Started` says that `startController` has begun and no other call
since: `startStep` itself stays as it is when the driver is loaded again, and properties that
read it alone would speak of a driver that is gone.  The chip is any revision the driver knows,
and its blocks, filter and processors start in the state that other software may have left.  A
reset may or may not clear each of them.

## The runs

| Run | Question | Bounds |
|---|---|---|
| `ring_laps` | do the macros do, at full width, what `RingIndex` says, and do both sides stay in step? | the code's sizes: 1024 descriptors, 65536 indexes |
| `tx_ring` | all safety properties of the transmit path, and that it implements `TxFifo` | 4 usable descriptors, 2 laps, packets of up to 2 segments, 3 packets |
| `tx_live` | does a stalled queue resume, does every packet come back, unless its completion is forgotten, and always under other traffic? | 3 usable descriptors, 2 laps, 1 segment, 2 packets |
| `tx_race_types` | do the indexes keep their ranges with load/store updates? | 4 usable descriptors, 1 lap, 1 segment, 2 packets |
| `tx_race` (violation) | is the room test right with load/store updates? | 4 usable descriptors, 2 laps, packets of up to 2 segments, 3 packets |
| `rx_ring` | the receive path with headers and calls that may fail at any time, the inductive invariant, and that it implements `RxFifo` | 3 usable descriptors, 3 laps, 4 mbufs, headers with each kind of length, errors and checks |
| `rx_alloc_fail` (violation) | is each descriptor prepared for its next use? | 3 usable descriptors |
| `interrupts` | acknowledgement, link and EMAC; progress under traffic | ring distances of 2, status index of 4 values, 2 MDIO polls, 3 states of the PHY, a 5706 |
| `interrupts_lost` (violation) | is everything reported handled? | as above |
| `link_flap` (violation) | is every change of the link reported in the end, without exemption? | as above |
| `lifecycle` | bring-up and tear-down with any step failing on any chip, one load; each step of a call takes it nearer to its end; calls end | 2 polls of anything polled, sequence numbers of 8 values, 1 and 2 left in the mailboxes, the code's 2 host pages and 36 of its 192 virtual ones |
| `stale_answer` (violation) | does `firmwareSync` wait for its own answer? | at most 2 loads, 1 left in the mailboxes |

Why the bounds are enough.  Ring sizes only need to let the ring fill, a packet wrap over the
chain pointer and both sides pass the roll-over at different positions: 3 or 4 usable
descriptors and 2 or 3 laps do all of it, and the proofs cover every size of either ring.  The
third packet makes two in the ring and one at the door; in `tx_live` two packets of one segment
fill the ring, and one of them can wait at the door.  In `Lifecycle` a driver sends at most six
messages, so 8 numbers never roll over, as 2^16 do not; of the numbers left by others 1 is that
of the first message and 2 one that a later message bears; two polls give an answer that is
late, in time, or never there.  Of the virtual pages those up to the farthest word of a context
(page 34) and one more are there, and page 0; the firmware's sections are the real ones; the MAC
address is one example, the proofs cover every other; two polls stand for the 10 of a context
page as well as for the 1000 of a message.  The PHY is down and tells a speed the driver does
not know, or it is up at the speed with a port mode of its own at half duplex, or up at full
speed: the cases `updatePHYMediaState` treats apart, but for a link that is up at an unknown
speed, of which no property speaks.  The proofs take any set of states.  `DevUpdate` is bounded
by `(statusIndex + 1) % IndexMax # acked`: 2^16 writes of the block do not fit between two
acknowledgements.  `Loads` bounds how often the driver is loaded.

`CHECK_DEADLOCK FALSE` is set where the system really stops: a kernel panic in `rx_ring` and
`lifecycle`, a driver that is unloaded for good, and a ring whose free counter has lost an
increment (`tx_race_types`, `tx_race`).

Fairness.  `LiveSpec` (`TxInterrupts`) assumes that a thread inside `sendTxPacket` runs on, that
the work loop runs the handler once an interrupt has come, and that the device works off what it
was given and writes its status block; the queue need not ever offer a packet.  It does not
assume that the handler comes whenever there is something to do: a completion can be
acknowledged unhandled (`interrupts_lost`), and a stalled queue causes no other.  So `StallEnds`
and `PacketsComeBack` have two halves: without further assumption the stall ends or the
completion is `Forgotten`; and under `Traffic`, weak fairness of writes of the status block for
other reasons, it ends in any case.  `TrafficSpec` (interrupts) assumes that the driver is
enabled, that the work loop runs a handler that has something to do, and that the device goes on
writing its status block; the answer of the PHY need never come, the polls give up.  `SpecAll`
(life cycle) only says that a call that has begun is executed; the bootcode may hang, and the
chip stay busy.

### What the violation runs show

1. `interrupts_lost`: the handler looks at the consumer indexes and then samples the status
   index (`AzulNX2Ethernet.cpp:253-266`); a block written in between is acknowledged unhandled.
   It is handled with the next event, if there is one.
2. `tx_race`: a lost decrement of `txFreeDescriptors` lets a packet into a full ring
   (`TransmitReceive.cpp:146,199,231`).
3. `rx_alloc_fail`: a failed refill leaves `rxProd` behind the slot
   (`TransmitReceive.cpp:370,396`); later refills prepare slots the device has not been given
   and the device is given slots that are not prepared.
4. `stale_answer`: sequence numbers start from 0 with the driver (`AzulNX2Ethernet.h:126`), the
   device's mailbox does not, and `firmwareSync` neither clears nor reads it before its first
   message (`Private.cpp:357-367`): number 1, left there by an earlier user of the chip, answers
   the first message before it is read, in the first load.  A load that failed following its
   first answer leaves it to the next one in the same way.
5. `link_flap`: `handlePHYInterrupt` acknowledges first and reads the PHY afterwards
   (`PHY.cpp:426`); a link that changes and changes back before the next comparison of bit and
   acknowledgement leaves the wrong state reported for good.  So does a link that `enable`
   reported up and that goes down before the first interrupt.  `LinkAlwaysReported` excuses
   nothing: reads of the PHY that fail, or that take the answer to a read given up on
   (`PHY.cpp:48`, `:303`), violate it too, in longer behaviours.  This rests on the assumptions
   about the device named above.

## The proofs

`RingIndexProofs` proves, for every `MaxBD >= 3` and `Pages >= 1`, that `NextBd` moves one rank
and one slot on (`NextBdStep`), that `Rank` is injective on the driver's indexes, how `Dist`
changes when either end moves, and that distances of indexes and of slots agree within a lap
(`DistIsSlotDist`).

`RingWalkProofs` proves `LockStepTheorem`: `drv = ReadCons(hw)` through all laps and over the
roll-over, for every `MaxBD` and `Pages`.  It is inductive once `hw` is known to be an index
(`InStep`); `ReadConsStep` is the step.

`TxRingProofs` proves, from `RingAssumption` and `TxAssumption`:

- `TypeCorrect`: `Spec => []TypeOK`, with or without `RacyCounter`;
- `WalkTheorem`, with or without it too: the loop of `handleTxInterrupt`, which tests for
  equality, has one slot less to go after each turn and stops at the index it was called with,
  since nobody else moves `txCons` meanwhile;
- `Invariant`: `~RacyCounter => (Spec => []IInv)`, and from it `FreeCountTheorem`,
  `NoOverrunTheorem`, `DmaTheorem`, `OwnershipTheorem`, `CompletionTheorem` and `StallTheorem`
  for the properties of `tx_ring`;
- `TxFifoTheorem`: `~RacyCounter => (Spec => IsFifo)`, the refinement of `TxFifo`.

None of these properties is inductive alone.  `IInv` adds the order of the indexes around the
ring (`OrderInv`: irqCons, statusCons, hwCons, hwProd, txProd), where packets are recorded while
one is being sent (`RecordInv`, `LastIndexInv`), what the descriptors not yet announced hold
(`FilledInv`), that END and a recorded packet coincide from the device's position on (`EndInv`),
that each descriptor's packet is recorded at it or later (`CoverInv`), and why a stall will be
served (`WakeInv`).  The proof has a lemma per action; all positions are expressed as distances
from `txCons`, so that reclaiming a descriptor shifts every distance by one (`SlotShift`).

The refinement needs no more than `IInv`.  `TxStore` is an `Accept` (the new slot is the
farthest from `txCons` that is recorded), `HwSend` a `Transmit` when the descriptor is its
packet's last, `IrqReclaim` a `Release` when a packet is recorded at `txCons`; every other step
leaves the queue as it is.  That nobody overtakes follows from `EndInv`: what lies nearer to
`txCons` is passed by the device earlier.

The invariant also shows that the test of `TransmitReceive.cpp:131` never succeeds: one
descriptor is always left, so the stall always comes from line 146.

`RxRingProofs` proves, from `RingAssumption` and `RxAssumption`:

- `RxTypeCorrect` and `RxOwnershipTheorem`: types and ownership of the mbufs, whether calls of
  `initRxDescriptor` fail or not;
- `WalkTheorem`, failures or not: each turn of the loop of `handleRxInterrupt` has one slot less
  to go, or meets a slot that a failed refill has left empty, where the driver panics;
- `RxInvariant`: `Spec => []IInv`, and from it `PreparedTheorem`, `RefillTheorem` and
  `NoOverwriteTheorem` for `PreparedSoFar`, `RefillInPlace` (the slot emptied is the slot
  refilled, and the whole ring is posted again) and `NoOverwrite`.

Ownership needs to know that `initRxRing` finds the slots ahead of it empty (`EmptyInv`).  The
other three need `OrderInv`: `rxProd` is exactly one lap ahead of `rxCons`, on the same slot,
and the indexes of the device and the argument of the handler lie in between, in order;
`StartInv` leads up to it while `initRxRing` runs, and `FilledInv` says that no slot is ever
left empty.  `RxAssumption` asks for two laps, or an index a lap ahead could not be told from
the one a step behind; the code has 64.

Of the packets' contents it proves, from the same and `InputAssumption` (headers are 16-bit
lengths with flags):

- `InputInvariant`: `SpecInput => []InputInv`, each step of `RxInput` being one of `RxRing`;
- `ClaimsTheorem` for `ClaimsOwnChecks`: the mask is empty while no slot of the burst has been
  taken (`MaskInv`);
- `RxFifoTheorem`: `SpecInput => IsRxFifo`.  The queue is a sequence here, one frame per slot
  from `rxCons` to the device's position.  `ContentInv` says that each of these slots holds one
  header; `InputReceive` appends one (`GrownSeq`), taking a packet moves every slot one position
  down.  `GarbageIsBad` is the arithmetic: the 16-bit `packetLength` is too long exactly for
  frames longer than a packet or shorter than their checksum.

`InterruptsProofs` proves, from `PhyAssumption` and `InterruptsAssumption`, types
(`TypeCorrect`), `IndexAckTheorem`, `MacFollowsTheorem` and `LinkReportedTheorem`.
`IndexAckComplete` is nearly inductive: between sample and acknowledgement the index may move
on, which unmasking sees.  `LinkReported` needs `LinkInv`: `flaps` tells whether the attention
bit differs from its acknowledgement, a read that nobody waits for is marked, and what an
unmarked read has seen is the PHY's state unless something has changed since the
acknowledgement.

`LifecycleProofs` proves, from `SyncAssumption` and `LoadsAssumption`:

- `TypeCorrect`, `EnabledReadyTheorem` and `FreeCompleteTheorem`, however often the driver is
  loaded.  `LifeInv` says which buffers there are at each place (in the order of
  `prepareController`: the `Partial` sets), where nub and interrupt source are there, and that a
  call of `firmwareSync` is under way only where it is waited for.
- `AckTheorem`: `Spec => AckNotLate`, for any number of loads, whatever was left in the
  mailboxes and however late the bootcode.  A late answer to an own message is never taken for
  that to another, and what is taken is the answer to the message just sent, or the driver found
  the number of its first message when it was loaded (`firstLeft`).  Without that exemption it
  is false, which is what `stale_answer` shows; so that is all that can confuse `firmwareSync`.
- `AgreesTheorem`: `Spec => []FirmwareAgrees`, with the same exemption.  `SeqInv` counts the
  messages sent at each place, six at most because a second `enable` never gets past the open
  nub, so that numbers do not roll over.  `LateInv` says that a message of this driver under way
  has no later number than the last one sent, and that number only if it is the message awaited.
  `CleanInv` is for a driver that did not find its first number: from its second message on all
  that is in the bootcode's hands is its own (`OwnInv`), before that nothing there has the
  number 1 (`NoFirstInv`), and once the message awaited is answered nothing else is under way
  (`AnswerInv`).

`BringUpProofs` proves `Refinement`, `SpecAll => Spec`: each step of `BringUp` is a step of
`Lifecycle` or leaves it alone, so that all of the above holds of it (`LifecycleHolds`,
`SyncHolds`).  On top of it, for every chip and every size: `NoBufferLeftTheorem` (`BufInv`: the
parts there are belong to the buffer being allocated), `ContextCompleteTheorem` (`CtxInv`: the
pages the loop has passed are done; the window of virtual page 0 is in order only when the loop
ends there), `QuietResetTheorem`, and `DmaIntoBuffersTheorem` (`DmaInv`: what has been given by
the time the chip is set up, and what `startController` adds).  The last says nothing of three
things the code does not look after: the receive ring, for which there may be no packets; the
rings of a 5709, which may be too slow for the words of their contexts; and the time between
enabling the chip's DMA and setting up the rings.

`SetupProofs` proves the rest of what `lifecycle` checks of `BringUp`, for any number of loads
and polls, any revision of the chip and any state other software left it in:

- `FilterOwnTheorem` (no promiscuous mode from `startController` until `enable` returns,
  whatever was asked for before, and the address of shared memory from there on while the driver
  is enabled), from `MacAssumption` (the two words of the MAC address are naturals, the second
  one of 32 bits).  `SetupInv` says from which point of a call the address, the page sizes and
  the processors are in place; `MacWords` is the arithmetic of `fetchMacAddress`, which takes
  the two words apart into six bytes, and of `setMacAddress`, which puts them together again.
- `FirmwareRunsTheorem`.  `CpuInv` says that the processors before the one being loaded are up,
  that this one is stopped until its last step, and which of its sections are there.  Sections
  of different processors never meet: each image lies within its processor's own 64 KB scratch
  pad, and within an image sections lie side by side and the processor starts in its text
  (`Fit`), which is checked against the numbers of the images.
- `PageSizeAgreesTheorem`, from `SetupInv` for the registers and `PatchInv` for the instruction
  of the RV2P code.
- `ContextsHoldTheorem`, from `SetupInv`, `CtxInv` and the places of the words (`Words`).  It
  needs `ContextWordsAssumption`: a chip has more than 34 virtual pages (the code has 192),
  since the words of the transmit context reach page 34.
- `IdentifiedTheorem`: no two rows of the table are for the same board of the same chip
  (`OneRow`), the row for any board comes after the others of its chip (`AnyBoardLast`), and
  each chip has one (`ChipRow`); so the first row that fits is the one meant.
- `TypesAll`: all variables of all parts keep their types.
- `CallsProgressTheorem`: `SpecAll => CallsProgress`.  `Position` is where a call stands, three
  naturals in lexicographic order: the stages left, the work left in this one (buffers, the
  states of `firmwareSync`, pages, rings) and the turns left of its innermost loop (polls,
  retries, sections).  Every step of `start` and `enable` makes it smaller and no step of the
  bootcode makes it larger.  This is the part of `CallsEnd` that a proof can reach: what is left
  to TLC is only that a call which has not ended has a step to take, and takes it.

Only model-checked: liveness (fairness and ENABLED are beyond the prover), and
`MasksAreRemainders` of `RingLaps`, whose masks come from a module with recursive operators that
the provers cannot take.  It has no parameter to generalise: TLC visits all 65536 indexes of the
code.  Everything else about the indexes is proved of the arithmetic of `RingIndex`, which the
masks are shown to compute.

## Not modelled, and why

- `resetPHY`, `enablePHYLoopback`, `enablePHYAutoMDIX`, `enablePHYAutoNegotiation`,
  `writePhyReg16` and `freeRxRing` have no caller (the calls in `Controller.cpp:367-370` are
  commented out); `freeTxRing` is empty.
- The contents of frames, lengths in transmit descriptors, and the VLAN tag: its 16-bit variable
  is handed to a function that writes 32 bits (`TransmitReceive.cpp:159`), whose effect depends
  on the build.
- Frames longer than their descriptor: what the device does is not told.
- The register windows themselves (`readReg32`, `readRegIndr32`, ...) and registers that are
  written once and read by nobody: DMA configuration, coalescing parameters, kernel bypass.
  Most of `Registers.h` defines registers that no code touches.
- The words of the firmware images; the shell script that makes them C arrays.
- Packets that reach `outputPacket` between `txQueue->start()` and `isEnabled = true`
  (`AzulNX2Ethernet.cpp:206-208`), which the code drops without freeing.
- The checks that a packet inherits from earlier ones of its burst are modelled
  (`checksumValidMask`), but no property speaks of them; nor of what is reported for a speed the
  driver does not know, of the panic of `free` after an early failure, of a receive ring without
  packets, or of a word of a 5709's context that is lost: the code does these things by
  construction.
- DMA of a device that was not stopped into memory that was freed: `stop` and `free` do not
  touch the device.
- Accessors IOKit asks for, logging, and the publication of media: constants and wording.

## Plan

Done: all of the plan's modules; each safety property of a passing run is a theorem, but
`MasksAreRemainders`.

1. Proofs about `TxInterrupts`: that a completion is forgotten only between look and sample.
2. `RefillInPlace` after a refill that failed: which of the promises of the receive path are
   left, beyond ownership.
3. The checks of every packet of a burst, for which the code promises nothing yet.
