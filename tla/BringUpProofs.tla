--------------------------- MODULE BringUpProofs ----------------------------
(***************************************************************************)
(* Proofs about BringUp, for every chip, every size of the context memory  *)
(* and every number of polls.  Each step of BringUp is a step of Lifecycle *)
(* or leaves it alone, so that what is proved of the latter holds; then    *)
(* the context memory, the buffers' parts and the chip's DMA.              *)
(***************************************************************************)
EXTENDS BringUp, LifecycleProofs

\* What is inside the steps of Lifecycle adds none.
LEMMA StepRefines == ASSUME NextAll PROVE [Next]_vars
<1>1. CASE BufferBegin
  BY <1>1 DEF BufferBegin
<1>2. CASE BufferStep
  BY <1>2 DEF BufferStep, Next, Call
<1>3. CASE PrepareFails
  BY <1>3 DEF PrepareFails, Next, Call
<1>4. CASE Hold
  BY <1>4 DEF Hold, Next, Call
<1>5. CASE Reset
  BY <1>5 DEF Reset, Next, Call
<1>6. CASE SetupBegin
  BY <1>6 DEF SetupBegin, Next, Call
<1>7. CASE SetupContext
  BY <1>7 DEF SetupContext
<1>8. CASE SetupFails
  BY <1>8 DEF SetupFails, Next, Call
<1>9. CASE SetupCpus
  BY <1>9 DEF SetupCpus
<1>10. CASE SetupEnd
  BY <1>10 DEF SetupEnd, Next, Call
<1>11. CASE Starting
  BY <1>11 DEF Starting
<1>12. CASE EnableEnd
  BY <1>12 DEF EnableEnd, Next, Call
<1>13. CASE CallOnly
  BY <1>13 DEF CallOnly, Next, Call
<1>14. CASE EnableBegin
  BY <1>14 DEF EnableBegin, Next
<1>15. CASE FreeAll
  BY <1>15 DEF FreeAll, Next
<1>16. CASE \E active \in BOOLEAN : Promiscuous(active)
  BY <1>16 DEF Promiscuous
<1>17. CASE (Load \/ Stop \/ Firmware) /\ UNCHANGED partVars
  BY <1>17 DEF Next
<1>18. QED
  BY <1>1, <1>2, <1>3, <1>4, <1>5, <1>6, <1>7, <1>8, <1>9, <1>10, <1>11, <1>12,
     <1>13, <1>14, <1>15, <1>16, <1>17 DEF NextAll, CallAll

\* BringUp implements the safety part of Lifecycle.
THEOREM Refinement == SpecAll => Spec
<1>1. InitAll => Init
  BY DEF InitAll
<1>2. [NextAll]_allVars => [Next]_vars
  BY StepRefines DEF allVars
<1>3. QED
  BY <1>1, <1>2, PTL DEF SpecAll, Spec

\* Through whatever goes on inside its steps, what is proved of Lifecycle holds.
THEOREM LifecycleHolds == SpecAll => [](TypeOK /\ LifeInv /\ EnabledReady /\ FreeComplete)
<1>1. QED
  BY Refinement, LifeInvariant, EnabledReadyTheorem, FreeCompleteTheorem, PTL

\* Likewise what is proved of firmwareSync (Private.cpp:351).
THEOREM SyncHolds == SpecAll => AckNotLate /\ []FirmwareAgrees
BY Refinement, AckTheorem, AgreesTheorem, PTL
-----------------------------------------------------------------------------
(***************************************************************************)
(* The parts of the buffers.                                               *)
(***************************************************************************)
\* What makes NoBufferLeft inductive: the parts there are of the buffer that is
\* being allocated.
BufInv ==
  /\ allocStep \in {"desc", "cmd", "segment", "ok", "failed"}
  /\ pc # "alloc" => allocStep = "ok"
  /\ allocStep \in {"desc", "ok", "failed"} =>
       descs = buffers /\ cmds = buffers
  /\ allocStep \in {"cmd", "segment"} =>
       descs = buffers \cup {ThisBuffer}
  /\ allocStep = "cmd" => cmds = buffers
  /\ allocStep = "segment" => cmds = buffers \cup {ThisBuffer}

LEMMA BufSame ==
  ASSUME BufInv, UNCHANGED <<bufVars, buffers, is5709>>, pc # "alloc", pc' # "alloc"
  PROVE BufInv'
BY DEF BufInv, bufVars

LEMMA BufStay ==
  ASSUME BufInv, UNCHANGED <<bufVars, buffers, is5709, pc>>
  PROVE BufInv'
<1>1. ThisBuffer' = ThisBuffer
  BY DEF ThisBuffer, Needed
<1>2. QED
  BY <1>1 DEF BufInv, bufVars

\* One step of allocDmaBuffer.
LEMMA BufAlloc ==
  ASSUME LifeInv, BufInv, BufferStep
  PROVE BufInv'
<1>1. pc = "alloc" /\ ThisBuffer \notin buffers
  BY NextBuffer DEF BufferStep, LifeInv, ThisBuffer
<1>2. CASE allocStep = "segment" /\ allocStep' = "ok"
  <2>1. AllocSegment(ThisBuffer) /\ buffers' = buffers \cup {ThisBuffer}
    BY <1>2 DEF BufferStep, AllocStep, AllocDesc, AllocCmd, Alloc, ThisBuffer
  <2>2. UNCHANGED <<descs, cmds>>
    BY <1>2, <2>1 DEF AllocSegment
  <2>3. QED
    BY <1>2, <2>1, <2>2 DEF BufInv
<1>3. CASE ~(allocStep = "segment" /\ allocStep' = "ok")
  <2>1. UNCHANGED <<buffers, is5709, pc>> /\ AllocStep(ThisBuffer)
    BY <1>3 DEF BufferStep, vars, osVars, envVars
  <2>2. ThisBuffer' = ThisBuffer
    BY <2>1 DEF ThisBuffer, Needed
  <2>3. CASE AllocDesc(ThisBuffer)
    BY <1>1, <2>1, <2>2, <2>3 DEF BufInv, AllocDesc
  <2>4. CASE AllocCmd(ThisBuffer)
    BY <1>1, <2>1, <2>2, <2>4 DEF BufInv, AllocCmd, DescGone
  <2>5. CASE AllocSegment(ThisBuffer)
    BY <1>1, <1>3, <2>1, <2>2, <2>5 DEF BufInv, AllocSegment, DescGone
  <2>6. QED
    BY <2>1, <2>3, <2>4, <2>5 DEF AllocStep
<1>4. QED
  BY <1>2, <1>3

LEMMA BufStep ==
  ASSUME LifeInv, BufInv, [NextAll]_allVars
  PROVE BufInv'
<1>1. CASE BufferBegin
  <2>1. /\ UNCHANGED <<buffers, is5709, pc, descs, cmds>>
        /\ pc = "alloc" /\ allocStep = "ok" /\ allocStep' = "desc"
    BY <1>1 DEF BufferBegin, AllocBegin, vars, osVars, envVars
  <2>2. QED
    BY <2>1 DEF BufInv
<1>2. CASE BufferStep
  BY <1>2, BufAlloc
<1>3. CASE PrepareFails
  <2>1. /\ allocStep \in {"ok", "failed"} /\ buffers' = {} /\ FreeBuffers(buffers)
        /\ pc' = "failed"
    BY <1>3 DEF PrepareFails, AllocFails
  <2>2. QED
    BY <2>1 DEF BufInv, FreeBuffers
<1>4. CASE FreeAll
  <2>1. CASE pc' = "unloaded"
    BY <1>4, <2>1 DEF FreeAll, Free, FreeBuffers, BufInv
  <2>2. CASE pc' # "unloaded"
    <3>1. UNCHANGED <<bufVars, buffers, is5709>> /\ pc # "alloc" /\ pc' # "alloc"
      BY <1>4, <2>2 DEF FreeAll, Free, envVars
    <3>2. QED
      BY <3>1, BufSame
  <2>3. QED
    BY <2>1, <2>2
<1>5. CASE Load /\ UNCHANGED partVars
  <2>1. UNCHANGED <<bufVars, buffers, is5709>> /\ pc # "alloc" /\ pc' # "alloc"
    BY <1>5 DEF Load, partVars
  <2>2. QED
    BY <2>1, BufSame
<1>6. CASE Open /\ UNCHANGED partVars
  <2>1. /\ UNCHANGED <<bufVars, buffers, is5709>>
        /\ pc = "open" /\ pc' = "alloc"
    BY <1>6 DEF Open, partVars, envVars
  <2>2. QED
    BY <2>1 DEF BufInv, bufVars
<1>7. CASE CallOnly /\ ~Open
  <2>1. UNCHANGED <<bufVars, buffers, is5709>>
    BY <1>7 DEF CallOnly, partVars, OpenFails, Answered, NotAnswered, ResetStuck, Sync, Wait2Over,
                Attach, SyncSteps, envVars, osVars
  <2>2. UNCHANGED pc \/ (pc # "alloc" /\ pc' # "alloc")
    BY <1>7 DEF CallOnly, OpenFails, Answered, NotAnswered, ResetStuck, Sync, Wait2Over,
                Attach, SyncSteps, GiveUp
  <2>3. QED
    BY <2>1, <2>2, BufSame, BufStay
<1>8. CASE Hold \/ Reset \/ SetupBegin \/ SetupFails \/ SetupEnd \/ EnableEnd \/ EnableBegin
           \/ (Stop /\ UNCHANGED partVars)
  <2>1. UNCHANGED <<bufVars, buffers, is5709>>
    BY <1>8 DEF Hold, Reset, SetupBegin, SetupFails, SetupEnd, EnableEnd, EnableBegin, SyncReset,
                ResetChip, ResetBadSwap, ResetStuck, InitMask, InitChip, InitChipFails, Enabled, Enable, Stop,
                partVars, envVars, osVars
  <2>2. pc # "alloc" /\ pc' # "alloc"
    BY <1>8 DEF Hold, Reset, SetupBegin, SetupFails, SetupEnd, EnableEnd, EnableBegin, SyncReset,
                ResetChip, ResetBadSwap, ResetStuck, InitMask, InitChip, InitChipFails, Enabled, Enable, Stop,
                GiveUp
  <2>3. QED
    BY <2>1, <2>2, BufSame
<1>9. CASE \/ SetupContext \/ SetupCpus \/ Starting \/ (Firmware /\ UNCHANGED partVars)
           \/ (\E active \in BOOLEAN : Promiscuous(active)) \/ UNCHANGED allVars
  <2>1. UNCHANGED <<bufVars, buffers, is5709, pc>>
    BY <1>9 DEF SetupContext, SetupCpus, Starting, Firmware, Promiscuous, allVars, vars, partVars,
                envVars, osVars
  <2>2. QED
    BY <2>1, BufStay
<1>10. QED
  BY <1>1, <1>2, <1>3, <1>4, <1>5, <1>6, <1>7, <1>8, <1>9 DEF NextAll, CallAll, CallOnly

LEMMA BufInvariant == SpecAll => []BufInv
<1>1. InitAll => BufInv
  BY DEF InitAll, Init, BuffersInit, BufInv
<1>2. LifeInv /\ BufInv /\ [NextAll]_allVars => BufInv'
  BY BufStep
<1>3. QED
  BY <1>1, <1>2, LifecycleHolds, PTL DEF SpecAll

\* However allocDmaBuffer (Private.cpp:286) ends, every descriptor and
\* every command belongs to a buffer that is recorded and will be freed.
THEOREM NoBufferLeftTheorem == SpecAll => []NoBufferLeft
<1>1. BufInv => NoBufferLeft
  BY DEF BufInv, NoBufferLeft, NoneLeft
<1>2. QED
  BY <1>1, BufInvariant, PTL
-----------------------------------------------------------------------------
(***************************************************************************)
(* The context memory.                                                     *)
(***************************************************************************)
\* What makes ContextComplete inductive: the pages the loop has passed are done.
CtxInv ==
  /\ hostTable \in [HostPages -> SUBSET Nat] /\ pageTable \in [Pages -> Pages]
  /\ ctxStep = "none" => cleared = {}
  /\ ctxStep = "mem" => is5709 /\ ctxPage = 0
  /\ ctxStep \in {"page", "pageWait"} => is5709 /\ ctxPage \in HostPages
  /\ ctxStep \in {"page", "pageWait"} =>
       \A i \in HostPages : i < ctxPage => hostTable[i] = {i * 4096}
  /\ ctxStep = "virt" =>
       /\ ~is5709 /\ ctxPage \in 1 .. VirtPages
       /\ cleared = {v \in Pages : v >= ctxPage}
       /\ \A v \in Pages : v >= ctxPage => pageTable[v] = v
  /\ ctxStep = "ready" /\ is5709 => \A i \in HostPages : hostTable[i] = {i * 4096}
  /\ ctxStep = "ready" /\ ~is5709 => cleared = Pages /\ \A v \in Pages : pageTable[v] = v

\* The size of a page that the 5709 is told is the one the loop goes by.
LEMMA PageSizes == CTX_PAGE_SIZE = 4096 /\ CTX_COMMAND_PAGE_SIZE[PageSizeCode] = 4096
<1>1. CTX_PAGE_SIZE = 4096
  BY DEF CTX_PAGE_SIZE
<1>2. CTX_COMMAND_PAGE_SIZE[PageSizeCode] = 4096
  BY DEF CTX_COMMAND_PAGE_SIZE, PageSizeCode
<1>3. QED
  BY <1>1, <1>2

LEMMA CtxPositive == CtxPages \in Nat /\ CtxPages > 0 /\ VirtPages \in Nat /\ VirtPages > 0
BY ContextAssumption

LEMMA CtxSame ==
  ASSUME CtxInv, UNCHANGED <<ctxVars, is5709>>
  PROVE CtxInv'
BY DEF CtxInv, ctxVars

LEMMA CtxBegin ==
  ASSUME CtxInv, ContextBegin(is5709), UNCHANGED is5709
  PROVE CtxInv'
<1>1. CASE is5709
  BY <1>1, CtxPositive DEF CtxInv, ContextBegin
<1>2. CASE ~is5709
  <2>1. /\ ctxStep' = "virt" /\ ctxPage' = VirtPages /\ ~is5709'
        /\ UNCHANGED <<hostTable, pageTable>>
    BY <1>2 DEF ContextBegin
  <2>2. cleared' = {}
    BY DEF ContextBegin, CtxInv
  <2>3. QED
    BY <2>1, <2>2, CtxPositive DEF CtxInv, Pages
<1>3. QED
  BY <1>1, <1>2

\* A page of the host.
LEMMA CtxPageDone ==
  ASSUME CtxInv, PageDone, UNCHANGED is5709
  PROVE CtxInv'
<1>1. /\ is5709 /\ ctxPage \in HostPages /\ ctxPage' = ctxPage + 1
      /\ UNCHANGED <<pageTable, cleared>>
  BY DEF CtxInv, PageDone
<1>2. hostTable' = [hostTable EXCEPT ![ctxPage] = {ctxPage * 4096}]
  BY PageSizes DEF PageDone
<1>3. hostTable' \in [HostPages -> SUBSET Nat]
  <2>1. ctxPage * 4096 \in Nat
    BY <1>1, CtxPositive DEF HostPages
  <2>2. {ctxPage * 4096} \in SUBSET Nat /\ hostTable \in [HostPages -> SUBSET Nat]
    BY <2>1 DEF CtxInv
  <2>3. QED
    BY <1>1, <1>2, <2>2
<1>4. \A i \in HostPages : i < ctxPage' => hostTable'[i] = {i * 4096}
  <2> SUFFICES ASSUME NEW i \in HostPages, i < ctxPage' PROVE hostTable'[i] = {i * 4096}
    OBVIOUS
  <2>1. CASE i = ctxPage
    BY <1>2, <2>1 DEF CtxInv
  <2>2. CASE i # ctxPage
    <3>1. i < ctxPage
      BY <1>1, <2>2, CtxPositive DEF HostPages
    <3>2. hostTable[i] = {i * 4096}
      BY <3>1 DEF CtxInv, PageDone
    <3>3. QED
      BY <1>2, <2>2, <3>2 DEF CtxInv
  <2>3. QED
    BY <2>1, <2>2
<1>5. CASE ctxPage' < CtxPages
  <2>1. ctxStep' = "page" /\ ctxPage' \in HostPages
    BY <1>1, <1>5, CtxPositive DEF PageDone, HostPages
  <2>2. QED
    BY <1>1, <1>3, <1>4, <2>1 DEF CtxInv
<1>6. CASE ~(ctxPage' < CtxPages)
  <2>1. ctxStep' = "ready" /\ \A i \in HostPages : i < ctxPage'
    BY <1>1, <1>6, CtxPositive DEF PageDone, HostPages
  <2>2. QED
    BY <1>1, <1>3, <1>4, <2>1 DEF CtxInv
<1>7. QED
  BY <1>5, <1>6

\* A turn of the loop that clears the memory.
LEMMA CtxClearPage ==
  ASSUME CtxInv, ClearPage, UNCHANGED is5709
  PROVE CtxInv'
<1>1. /\ ~is5709 /\ ctxPage \in 1 .. VirtPages /\ ctxPage' = ctxPage - 1
      /\ cleared = {v \in Pages : v >= ctxPage} /\ UNCHANGED hostTable
      /\ \A v \in Pages : v >= ctxPage => pageTable[v] = v
      /\ pageTable \in [Pages -> Pages]
  BY DEF CtxInv, ClearPage
<1>2. ctxPage' \in Pages /\ 0 \in Pages
  BY <1>1, CtxPositive DEF Pages
<1>3. /\ cleared' = cleared \cup {ctxPage'}
      /\ pageTable' = [[pageTable EXCEPT ![0] = ctxPage'] EXCEPT ![ctxPage'] = ctxPage']
  BY <1>1, <1>2 DEF ClearPage
<1>4. pageTable' \in [Pages -> Pages]
  BY <1>1, <1>2, <1>3
<1>5. \A v \in Pages : v >= ctxPage' <=> v >= ctxPage \/ v = ctxPage'
  BY <1>1, <1>2, CtxPositive DEF Pages
<1>6. cleared' = {v \in Pages : v >= ctxPage'}
  BY <1>1, <1>2, <1>3, <1>5
<1>7. \A v \in Pages : v >= ctxPage' => pageTable'[v] = v
  <2> SUFFICES ASSUME NEW v \in Pages, v >= ctxPage' PROVE pageTable'[v] = v
    OBVIOUS
  <2>1. CASE v = ctxPage'
    BY <1>1, <1>2, <1>3, <2>1
  <2>2. CASE v # ctxPage'
    <3>1. v # 0 /\ v >= ctxPage
      BY <1>1, <1>2, <2>2, CtxPositive DEF Pages
    <3>2. QED
      BY <1>1, <1>2, <1>3, <2>2, <3>1
  <2>3. QED
    BY <2>1, <2>2
<1>8. CASE ctxPage' = 0
  <2>0. ctxStep' = "ready"
    BY <1>8 DEF ClearPage
  <2>1. ctxStep' = "ready" /\ \A v \in Pages : v >= ctxPage'
    BY <1>8, <2>0, CtxPositive DEF Pages
  <2>2. cleared' = Pages
    BY <1>6, <2>1
  <2>3. QED
    BY <1>1, <1>4, <1>7, <2>1, <2>2 DEF CtxInv
<1>9. CASE ctxPage' # 0
  <2>1. ctxStep' = "virt" /\ ctxPage' \in 1 .. VirtPages
    BY <1>1, <1>9, CtxPositive DEF ClearPage
  <2>2. QED
    BY <1>1, <1>4, <1>6, <1>7, <2>1 DEF CtxInv
<1>10. QED
  BY <1>8, <1>9

LEMMA CtxNext ==
  ASSUME CtxInv, ContextNext, UNCHANGED is5709
  PROVE CtxInv'
<1>1. CASE ContextBusy
  BY <1>1 DEF ContextBusy, CtxInv
<1>2. CASE MemInitDone
  BY <1>2, CtxPositive DEF MemInitDone, CtxInv, HostPages
<1>3. CASE PageWrite
  BY <1>3 DEF PageWrite, CtxInv
<1>4. QED
  BY <1>1, <1>2, <1>3, CtxPageDone, CtxClearPage DEF ContextNext

LEMMA CtxReset ==
  ASSUME CtxInv, ContextReset, UNCHANGED is5709
  PROVE CtxInv'
<1>1. hostTable' \in [HostPages -> SUBSET Nat]
  BY DEF CtxInv, ContextReset, NoHostPages
<1>2. QED
  BY <1>1 DEF CtxInv, ContextReset

LEMMA SameKind ==
  ASSUME [NextAll]_allVars
  PROVE UNCHANGED is5709
BY DEF NextAll, CallAll, BufferBegin, BufferStep, PrepareFails, Hold, Reset, SetupBegin,
       SetupContext, SetupFails, SetupCpus, SetupEnd, Starting, EnableEnd, CallOnly,
       EnableBegin, FreeAll, Promiscuous, Load, Open, OpenFails, Alloc, AllocFails, SyncReset,
       Answered, NotAnswered, ResetChip, ResetStuck, ResetBadSwap, Sync, InitMask, InitChip,
       InitChipFails, Wait2Over, Attach, Enable, Enabled, Stop, Free, SyncSteps, Firmware,
       envVars, vars, allVars

LEMMA CtxStep ==
  ASSUME CtxInv, [NextAll]_allVars
  PROVE CtxInv'
<1>1. UNCHANGED is5709
  BY SameKind
<1>2. CASE SetupBegin
  BY <1>1, <1>2, CtxBegin DEF SetupBegin
<1>3. CASE SetupContext
  BY <1>1, <1>3, CtxNext DEF SetupContext
<1>4. CASE Reset
  BY <1>1, <1>4, CtxReset DEF Reset
<1>5. CASE UNCHANGED ctxVars
  BY <1>1, <1>5, CtxSame
<1>6. QED
  BY <1>2, <1>3, <1>4, <1>5
     DEF NextAll, CallAll, BufferBegin, BufferStep, PrepareFails, Hold, SetupFails, SetupCpus,
         SetupEnd, Starting, EnableEnd, CallOnly, EnableBegin, FreeAll, Promiscuous, partVars,
         allVars

LEMMA CtxInvariant == SpecAll => []CtxInv
<1>1. InitAll => CtxInv
  <2> SUFFICES ASSUME InitAll PROVE CtxInv
    OBVIOUS
  <2>1. hostTable \in [HostPages -> SUBSET Nat] /\ ctxStep = "none" /\ cleared = {}
    BY DEF InitAll, ContextInit, NoHostPages
  <2>2. pageTable \in [Pages -> Pages]
    BY CtxPositive DEF InitAll, ContextInit, Pages
  <2>3. QED
    BY <2>1, <2>2 DEF CtxInv
<1>2. CtxInv /\ [NextAll]_allVars => CtxInv'
  BY CtxStep
<1>3. QED
  BY <1>1, <1>2, PTL DEF SpecAll

\* When initContext (Private.cpp:389) reports success, every page of the 5709 is
\* a page of contextBuffer and of the size it is told, or all memory of the
\* other chips is cleared and mapped to itself, page 0 included.
THEOREM ContextCompleteTheorem == SpecAll => []ContextComplete
<1>1. CtxInv => ContextComplete
  <2> SUFFICES ASSUME CtxInv, ctxStep = "ready"
               PROVE ContextComplete
    BY DEF ContextComplete, ContextReady
  <2>1. CASE is5709
    BY <2>1, PageSizes DEF CtxInv, ContextComplete, ContextReady
  <2>2. CASE ~is5709
    <3>1. cleared = Pages /\ pageTable = [v \in Pages |-> v]
      BY <2>2 DEF CtxInv
    <3>2. QED
      BY <2>2, <3>1 DEF ContextComplete, ContextReady, Identity
  <2>3. QED
    BY <2>1, <2>2
<1>2. QED
  BY <1>1, CtxInvariant, PTL
-----------------------------------------------------------------------------
(***************************************************************************)
(* The chip's DMA.                                                         *)
(***************************************************************************)
\* Of the chip's blocks, registers and addresses only these steps change anything;
\* what chip it is none does.
LEMMA SetupSteps ==
  ASSUME [NextAll]_allVars
  PROVE \/ Hold \/ Reset \/ SetupBegin \/ SetupEnd \/ EnableBegin \/ Starting
        \/ (\E active \in BOOLEAN : Promiscuous(active))
        \/ (FreeAll /\ TakeBack)
        \/ UNCHANGED setupVars
BY DEF NextAll, CallAll, BufferBegin, BufferStep, PrepareFails, SetupContext, SetupFails,
       SetupCpus, EnableEnd, CallOnly, FreeAll, partVars, allVars

LEMMA SameChip ==
  ASSUME [NextAll]_allVars
  PROVE UNCHANGED chipId
<1>1. CASE Hold \/ Reset \/ SetupBegin
  BY <1>1 DEF Hold, HoldDma, Reset, SetupReset, SetupBegin, EnableContext
<1>2. CASE SetupEnd \/ EnableBegin
  <2>1. CASE SetupEnd
    <3>1. GiveBlocks
      BY <2>1, Zenon DEF SetupEnd
    <3>2. UNCHANGED <<chipId, blocks, startStep>>
      BY <3>1 DEF GiveBlocks
    <3>3. QED
      BY <3>2
  <2>2. CASE EnableBegin
    BY <2>2, Zenon DEF EnableBegin, StopController
  <2>3. QED
    BY <1>2, <2>1, <2>2
<1>3. CASE Starting
  <2>1. EnableBlocks \/ InitTxRing \/ InitRxRing
    BY <1>3, Zenon DEF Starting, StartStep
  <2>2. CASE EnableBlocks
    BY <2>2 DEF EnableBlocks
  <2>3. CASE InitTxRing \/ InitRxRing
    BY <2>3 DEF InitTxRing, InitRxRing
  <2>4. QED
    BY <2>1, <2>2, <2>3
<1>4. CASE \E active \in BOOLEAN : Promiscuous(active)
  BY <1>4 DEF Promiscuous, SetPromiscuous
<1>5. CASE TakeBack
  BY <1>5 DEF TakeBack
<1>6. QED
  BY <1>1, <1>2, <1>3, <1>4, <1>5, SetupSteps DEF setupVars

\* The chip is what the driver takes it for.
LEMMA KnownChip == SpecAll => []((is5709 <=> chipId.num = 5709) /\ chipId \in Chips)
<1>1. InitAll => (is5709 <=> chipId.num = 5709) /\ chipId \in Chips
  <2> SUFFICES ASSUME InitAll PROVE (is5709 <=> chipId.num = 5709) /\ chipId \in Chips
    OBVIOUS
  <2> DEFINE xi == chipId.num = 5709
  <2>1. is5709 = xi /\ chipId \in Chips
    BY DEF InitAll, SetupInit
  <2> HIDE DEF xi
  <2>2. is5709 <=> xi
    BY <2>1, Zenon
  <2>3. QED
    BY <2>1, <2>2 DEF xi
<1>2. ASSUME (is5709 <=> chipId.num = 5709) /\ chipId \in Chips, [NextAll]_allVars
      PROVE ((is5709 <=> chipId.num = 5709) /\ chipId \in Chips)'
  <2>1. chipId' = chipId /\ is5709' = is5709
    BY <1>2, SameChip, SameKind
  <2>2. chipId' \in Chips
    BY <1>2, <2>1
  <2>3. is5709' <=> chipId'.num = 5709
    BY <1>2, <2>1
  <2>4. QED
    BY <2>2, <2>3 DEF Chips, Id
<1>3. QED
  BY <1>1, <1>2, PTL DEF SpecAll

\* QuietReset is inductive, given that no message is under way when enable()
\* begins (LifeInv): the steps that enable a block are not among those between
\* the request and the end of the set-up.
LEMMA QuietSame ==
  ASSUME Quiet, UNCHANGED <<chipId, blocks, coreDma>>
  PROVE Quiet'
BY DEF Quiet

\* The places at which QuietReset speaks.
Resetting == \/ pc \in {"reset", "wait1", "init", "setup"}
             \/ pc = "wait0" /\ sync # "none"

LEMMA QuietStep ==
  ASSUME TypeOK, LifeInv, QuietReset, [NextAll]_allVars
  PROVE QuietReset'
<1> SUFFICES ASSUME Resetting' PROVE Quiet'
  BY DEF QuietReset, Resetting
<1>1. CASE Hold
  <2>1. blocks' \cap DmaBlocks = {} /\ chipId' = chipId
    BY <1>1 DEF Hold, HoldDma, DmaBlocks
  <2> DEFINE NotXi == chipId.num # 5709
  <2>2. coreDma' = (coreDma /\ NotXi)
    BY <1>1 DEF Hold, HoldDma
  <2> HIDE DEF NotXi
  <2>3. coreDma' => NotXi
    BY <2>2, Zenon
  <2>4. QED
    BY <2>1, <2>3 DEF Quiet, NotXi
<1>2. CASE Reset
  <2>1. Quiet
    BY <1>2 DEF Reset, ResetChip, ResetBadSwap, ResetStuck, QuietReset
  <2>2. QED
    BY <1>2, <2>1 DEF Reset, SetupReset, Quiet
<1>3. CASE SetupBegin
  <2>1. Quiet
    BY <1>3 DEF SetupBegin, InitMask, QuietReset
  <2>2. QED
    BY <1>3, <2>1 DEF SetupBegin, EnableContext, Quiet, DmaBlocks, TX_DMA, RX_DMA, DMA_ENGINE,
                      HOST_COALESCE, RX_V2P, CONTEXT
<1>4. CASE \/ SetupContext \/ SetupCpus \/ (Firmware /\ UNCHANGED partVars) \/ UNCHANGED allVars
  <2>1. UNCHANGED <<pc, sync, chipId, blocks, coreDma>>
    BY <1>4 DEF SetupContext, SetupCpus, Firmware, FwTake, FwAnswer, allVars, vars, syncVars,
                partVars, setupVars, dmaVars
  <2>2. QED
    BY <2>1, QuietSame DEF QuietReset, Resetting
<1>5. CASE CallOnly
  <2>1. UNCHANGED <<chipId, blocks, coreDma>>
    BY <1>5 DEF CallOnly, partVars, setupVars, dmaVars
  <2>2. Resetting
    BY <1>5 DEF CallOnly, Resetting, Open, OpenFails, Answered, NotAnswered, ResetStuck, Sync,
                Wait2Over, Attach, SyncSteps, SyncPoll, SyncTimeout, SyncReturn, GiveUp
  <2>3. QED
    BY <2>1, <2>2, QuietSame DEF QuietReset, Resetting
<1>6. CASE \/ BufferBegin \/ BufferStep \/ PrepareFails \/ SetupFails \/ SetupEnd \/ Starting
           \/ EnableEnd \/ EnableBegin \/ FreeAll \/ (\E active \in BOOLEAN : Promiscuous(active))
           \/ (Load /\ UNCHANGED partVars) \/ (Stop /\ UNCHANGED partVars)
  <2>1. sync' = sync
    BY <1>6 DEF BufferBegin, BufferStep, PrepareFails, SetupFails, SetupEnd, Starting, EnableEnd,
                EnableBegin, FreeAll, Promiscuous, Alloc, AllocFails, InitChipFails, InitChip,
                Enabled, Enable, Free, Load, Stop, vars, syncVars
  <2>2. pc' \notin {"reset", "wait1", "init", "setup"} /\ pc \notin {"wait0", "wait1", "wait2"}
    BY <1>6 DEF BufferBegin, BufferStep, PrepareFails, SetupFails, SetupEnd, Starting, EnableEnd,
                EnableBegin, FreeAll, Promiscuous, Alloc, AllocFails, InitChipFails, InitChip,
                Enabled, Enable, Free, Load, Stop, GiveUp, vars
  <2>3. ~Resetting'
    BY <2>1, <2>2 DEF LifeInv, Resetting
  <2>4. QED
    BY <2>3
<1>7. QED
  BY <1>1, <1>2, <1>3, <1>4, <1>5, <1>6 DEF NextAll, CallAll

\* From the request for a reset until the chip is set up (Controller.cpp:147) it
\* moves no data, whoever used it before.
THEOREM QuietResetTheorem == SpecAll => []QuietReset
<1>1. InitAll => QuietReset
  BY DEF InitAll, Init, QuietReset
<1>2. TypeOK /\ LifeInv /\ QuietReset /\ [NextAll]_allVars => QuietReset'
  BY QuietStep
<1>3. QED
  BY <1>1, <1>2, LifecycleHolds, PTL DEF SpecAll

\* What the chip has been given when it is set up: the addresses of the status
\* and statistics blocks, and its firmware after its context memory.
Set == /\ given["status"] = "status" /\ given["stats"] = "stats"
       /\ fwStep = "done"

\* What makes DmaIntoBuffers inductive.
DmaInv ==
  /\ DOMAIN given = Names
  /\ fwStep # "none" => ctxStep = "ready"
  /\ pc \in {"wait2", "finish"} => Set
  /\ op = "enable" /\ startStep # "none" => pc \notin Prepared \ {"finish"}
  /\ op = "enable" /\ startStep # "none" /\ pc = "idle" => Set
  /\ op = "enable" /\ pc \in {"finish", "idle"} =>
       (startStep \in {"rx", "up"} /\ chipId.num # 5709 => given["tx"] = "tx")
  /\ startStep \in {"none", "tx", "rx", "up"}
  /\ pc \in {"open", "alloc"} => op = "start"
  /\ isEnabled /\ pc = "idle" => op = "enable" /\ startStep = "up"

LEMMA DmaSame ==
  ASSUME DmaInv,
         UNCHANGED <<given, chipId, fwStep, ctxStep, startStep, op, isEnabled>>,
         pc' \in {"open", "alloc"} => pc \in {"open", "alloc"},
         pc' = "wait2" => pc = "wait2",
         pc' = "finish" => pc \in {"wait2", "finish"},
         pc' \in Prepared \ {"finish"} =>
           pc \in Prepared \ {"finish"} \/ op = "start" \/ startStep = "none",
         pc' = "idle" => pc = "idle" \/ (pc \in Prepared \ {"finish"} /\ ~isEnabled)
                                    \/ (pc = "finish" /\ op = "start" /\ ~isEnabled)
  PROVE DmaInv'
BY DEF DmaInv, Set, Prepared

\* What startController does to the rings.
LEMMA DmaStarting ==
  ASSUME DmaInv, LifeInv, Starting, UNCHANGED chipId
  PROVE DmaInv'
<1>1. /\ pc = "finish" /\ op = "enable" /\ ~isEnabled /\ StartStep
      /\ UNCHANGED <<pc, op, isEnabled, fwStep, ctxStep>>
  BY DEF Starting, LifeInv, vars, ctxVars, cpuVars
<1>2. DOMAIN given = Names /\ Set
  BY <1>1 DEF DmaInv
<1>3. CASE EnableBlocks
  <2>1. startStep' = "tx" /\ UNCHANGED given
    BY <1>3 DEF EnableBlocks
  <2>2. QED
    BY <1>1, <1>2, <2>1 DEF DmaInv, Set, Prepared
<1>4. CASE InitTxRing
  <2>1. startStep' = "rx" /\ WriteContext("tx")
    BY <1>4 DEF InitTxRing
  <2>2. /\ DOMAIN given' = Names
        /\ given'["status"] = given["status"] /\ given'["stats"] = given["stats"]
        /\ chipId.num # 5709 => given'["tx"] = "tx"
    BY <1>2, <2>1 DEF WriteContext, Names
  <2>3. QED
    BY <1>1, <1>2, <2>1, <2>2 DEF DmaInv, Set, Prepared
<1>5. CASE InitRxRing
  <2>1. startStep = "rx" /\ startStep' = "up"
    BY <1>5 DEF InitRxRing
  <2>2. WriteContext("rx") \/ UNCHANGED given
    BY <1>5 DEF InitRxRing
  <2>3. /\ DOMAIN given' = Names
        /\ given'["status"] = given["status"] /\ given'["stats"] = given["stats"]
        /\ given'["tx"] = given["tx"]
    BY <1>2, <2>2 DEF WriteContext, Names
  <2>4. chipId.num # 5709 => given["tx"] = "tx"
    BY <1>1, <2>1 DEF DmaInv
  <2>5. QED
    BY <1>1, <1>2, <2>1, <2>3, <2>4 DEF DmaInv, Set, Prepared
<1>6. QED
  BY <1>1, <1>3, <1>4, <1>5 DEF StartStep

\* The reset and the set-up after it.
LEMMA DmaSetup ==
  ASSUME DmaInv, LifeInv, Reset \/ SetupBegin \/ SetupContext \/ SetupCpus \/ SetupEnd
  PROVE DmaInv'
<1>1. CASE Reset
  <2>1. /\ pc = "reset" /\ pc' \in {"wait1", "failed", "idle"} /\ fwStep' = "none"
        /\ given' \in {given, NotGiven}
        /\ UNCHANGED <<op, isEnabled, startStep>>
    BY <1>1 DEF Reset, ResetChip, ResetBadSwap, ResetStuck, SetupReset, CpusReset, GiveUp
  <2>2. DOMAIN given' = Names
    BY <2>1 DEF DmaInv, NotGiven
  <2>3. ~isEnabled /\ (op = "enable" => startStep = "none")
    BY <2>1 DEF DmaInv, LifeInv, Prepared
  <2>4. QED
    BY <2>1, <2>2, <2>3 DEF DmaInv, Prepared
<1>2. CASE SetupBegin
  <2>1. /\ pc = "init" /\ pc' = "setup" /\ ctxStep = "none"
        /\ UNCHANGED <<op, isEnabled, startStep, given, fwStep>>
    BY <1>2 DEF SetupBegin, InitMask, EnableContext, ContextBegin, cpuVars
  <2>2. QED
    BY <2>1 DEF DmaInv, Prepared
<1>3. CASE SetupContext
  <2>1. /\ pc = "setup" /\ ctxStep # "ready"
        /\ UNCHANGED <<pc, op, isEnabled, startStep, given, fwStep>>
    BY <1>3 DEF SetupContext, ContextNext, ContextBusy, MemInitDone, PageWrite, PageDone,
                ClearPage, vars, cpuVars, setupVars
  <2>2. QED
    BY <2>1 DEF DmaInv, Prepared
<1>4. CASE SetupCpus
  <2>1. /\ pc = "setup" /\ ctxStep = "ready"
        /\ UNCHANGED <<pc, op, isEnabled, startStep, given, ctxStep>>
    BY <1>4 DEF SetupCpus, vars, ctxVars, setupVars
  <2>2. QED
    BY <2>1 DEF DmaInv, Prepared
<1>5. CASE SetupEnd
  <2>1. /\ pc = "setup" /\ pc' = "wait2" /\ fwStep = "done"
        /\ given' = [given EXCEPT !["status"] = "status", !["stats"] = "stats"]
        /\ UNCHANGED <<op, isEnabled, startStep, ctxStep, fwStep>>
    BY <1>5 DEF SetupEnd, InitChip, GiveBlocks, ctxVars, cpuVars
  <2>2. DOMAIN given' = Names /\ given'["status"] = "status" /\ given'["stats"] = "stats"
    BY <2>1 DEF DmaInv, Names
  <2>3. QED
    BY <2>1, <2>2 DEF DmaInv, Prepared, Set
<1>6. QED
  BY <1>1, <1>2, <1>3, <1>4, <1>5

LEMMA DmaStep ==
  ASSUME TypeOK, LifeInv, DmaInv, [NextAll]_allVars
  PROVE DmaInv'
<1>0. UNCHANGED chipId
  BY SameChip
<1>1. CASE Reset \/ SetupBegin \/ SetupContext \/ SetupCpus \/ SetupEnd
  BY <1>1, DmaSetup
<1>2. CASE Starting
  BY <1>0, <1>2, DmaStarting
<1>3. CASE EnableBegin
  BY <1>3 DEF EnableBegin, Enable, StopController, DmaInv, Prepared, ctxVars, cpuVars
<1>4. CASE EnableEnd
  <2>1. /\ pc = "finish" /\ pc' = "idle" /\ op = "enable" /\ startStep = "up"
        /\ UNCHANGED <<op, startStep, given, fwStep, ctxStep>>
    BY <1>4 DEF EnableEnd, Enabled, partVars, setupVars, ctxVars, cpuVars
  <2>2. QED
    BY <1>0, <2>1 DEF DmaInv, Prepared, Set
<1>5. CASE Load /\ UNCHANGED partVars
  BY <1>5 DEF Load, partVars, setupVars, ctxVars, cpuVars, DmaInv, Prepared
<1>6. CASE BufferBegin \/ BufferStep \/ PrepareFails
  <2>1. /\ pc = "alloc" /\ op = "start" /\ pc' \in {"alloc", "wait0", "failed"}
        /\ UNCHANGED <<op, isEnabled, startStep, given, fwStep, ctxStep>>
    BY <1>6 DEF BufferBegin, BufferStep, PrepareFails, Alloc, AllocFails, DmaInv, vars,
                setupVars, ctxVars, cpuVars
  <2>2. QED
    BY <1>0, <2>1, DmaSame DEF Prepared
<1>7. CASE CallOnly \/ Hold \/ SetupFails
  <2>1. UNCHANGED <<op, isEnabled, startStep, given, fwStep, ctxStep>>
    <3>1. CASE CallOnly
      <4>1. UNCHANGED <<startStep, given, fwStep, ctxStep>>
        BY <3>1, Zenon DEF CallOnly, partVars, setupVars, ctxVars, cpuVars
      <4>2. UNCHANGED <<op, isEnabled>>
        BY <3>1 DEF CallOnly, Open, OpenFails, Answered, NotAnswered, ResetStuck, Sync,
                    Wait2Over, Attach, SyncSteps
      <4>3. QED
        BY <4>1, <4>2
    <3>2. CASE Hold \/ SetupFails
      BY <3>2 DEF Hold, HoldDma, SetupFails, SyncReset, InitChipFails,
                  partVars, setupVars, ctxVars, cpuVars
    <3>3. QED
      BY <1>7, <3>1, <3>2
  <2>2. /\ pc' \in {"open", "alloc"} => pc \in {"open", "alloc"}
        /\ pc' = "wait2" => pc = "wait2"
        /\ pc' = "finish" => pc \in {"wait2", "finish"}
        /\ pc' \in Prepared \ {"finish"} => pc \in Prepared \ {"finish"}
        /\ pc' = "idle" => pc = "idle" \/ pc \in Prepared \ {"finish"}
                                       \/ (pc = "finish" /\ op = "start")
    BY <1>7 DEF CallOnly, Hold, SetupFails, Open, OpenFails, Answered, NotAnswered, ResetStuck,
                Sync, Wait2Over, Attach, SyncSteps, SyncReset, InitChipFails, GiveUp, Prepared
  <2>3. isEnabled => pc \notin Prepared
    BY DEF LifeInv, Prepared
  <2>4. "finish" \in Prepared
    BY DEF Prepared
  <2>5. QED
    BY <1>0, <2>1, <2>2, <2>3, <2>4, DmaSame
<1>8. CASE \/ (\E active \in BOOLEAN : Promiscuous(active))
           \/ (Stop /\ UNCHANGED partVars) \/ (Firmware /\ UNCHANGED partVars)
           \/ UNCHANGED allVars
  <2>1. UNCHANGED <<op, isEnabled, startStep, given, fwStep, ctxStep>>
    BY <1>8 DEF Promiscuous, SetPromiscuous, Stop, Firmware, vars, allVars,
                partVars, setupVars, ctxVars, cpuVars
  <2>2. pc' = pc \/ pc' = "stopped"
    BY <1>8 DEF Promiscuous, Stop, Firmware, vars, allVars
  <2>3. QED
    BY <1>0, <2>1, <2>2, DmaSame DEF Prepared
<1>9. CASE FreeAll
  <2>1. /\ pc' \in {"unloaded", "panic"} /\ given' \in {given, NotGiven}
        /\ UNCHANGED <<op, isEnabled, startStep, fwStep, ctxStep>>
    BY <1>9 DEF FreeAll, Free, TakeBack, setupVars, ctxVars, cpuVars
  <2>2. DOMAIN given' = Names
    BY <2>1 DEF DmaInv, NotGiven
  <2>3. QED
    BY <2>1, <2>2 DEF DmaInv, Prepared
<1>10. QED
  BY <1>1, <1>2, <1>3, <1>4, <1>5, <1>6, <1>7, <1>8, <1>9 DEF NextAll, CallAll

\* DmaInv, with what it needs.
LEMMA DmaInvariant == SpecAll => [](LifeInv /\ DmaInv)
<1>1. InitAll => DmaInv
  BY DEF InitAll, Init, SetupInit, FirmwareInit, NotGiven, DmaInv, Prepared
<1>2. TypeOK /\ LifeInv /\ DmaInv /\ [NextAll]_allVars => DmaInv'
  BY DmaStep
<1>3. QED
  BY <1>1, <1>2, LifecycleHolds, PTL DEF SpecAll

\* Once startController (Controller.cpp:347) has begun, the addresses of the
\* status and statistics blocks and of the 5709's context pages are those of
\* buffers the driver has; and, on any other chip, that of the transmit ring from
\* the moment it is set up.  The receive ring, the rings of a 5709 and the time
\* before they are set up are left out: there the code promises nothing.
THEOREM DmaIntoBuffersTheorem == SpecAll => []DmaIntoBuffers
<1>1. LifeInv /\ DmaInv /\ (is5709 <=> chipId.num = 5709) => DmaIntoBuffers
  <2> SUFFICES ASSUME LifeInv, DmaInv, is5709 <=> chipId.num = 5709,
                      pc \in {"finish", "idle"}, op = "enable", startStep # "none"
               PROVE /\ given["status"] \in buffers /\ given["stats"] \in buffers
                     /\ is5709 => "context" \in buffers /\ ctxStep = "ready"
                     /\ fwStep = "done"
                     /\ startStep \in {"rx", "up"} /\ ~is5709 =>
                          given["tx"] = "tx" /\ "tx" \in buffers
    BY DEF DmaIntoBuffers, Started
  <2>1. buffers = All
    BY DEF LifeInv, Prepared
  <2>2. Set /\ ctxStep = "ready"
    BY DEF DmaInv, Set
  <2>3. Four \subseteq All /\ (is5709 => "context" \in All)
    BY NeededIs
  <2>4. startStep \in {"rx", "up"} /\ ~is5709 => given["tx"] = "tx"
    BY DEF DmaInv
  <2>5. QED
    BY <2>1, <2>2, <2>3, <2>4 DEF Set, Four
<1>2. QED
  BY <1>1, DmaInvariant, KnownChip, PTL
=============================================================================
