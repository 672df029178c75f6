---------------------------- MODULE ContextInit -----------------------------
(***************************************************************************)
(* The context memory of the controller: initContext of Private.cpp.  The  *)
(* 5709 is given pages of the host, one at a time; the others have memory  *)
(* of their own, which is cleared through a window of one page.            *)
(***************************************************************************)
EXTENDS Naturals

CONSTANTS
  CtxPages,    \* CTX_PAGE_CNT: 2
  VirtPages,   \* GET_CID_ADDR(96) / PHY_CTX_SIZE: 192
  CtxPolls     \* CTX_INIT_RETRY_COUNT, and the polls of a page: 10 each

ASSUME ContextAssumption == {CtxPages, VirtPages, CtxPolls} \subseteq Nat \ {0}

VARIABLES
  ctxStep,     \* "none", "mem", "page", "pageWait", "virt", "ready" or "failed"
  ctxPage,     \* the page of the host, or the virtual address, the loop has come to
  ctxTry,      \* how often the register has been found busy
  hostTable,   \* the 5709: entry -> the offsets in contextBuffer written to it
  pageTable,   \* the others: virtual page -> physical page
  cleared      \* the others: the physical pages that are all 0

ctxVars == <<ctxStep, ctxPage, ctxTry, hostTable, pageTable, cleared>>

\* The size of a page of the host by its code in NX2_CTX_COMMAND, the code that is
\* written there, and the size the loop goes by.
CTX_COMMAND_PAGE_SIZE ==
  LET sizes == << 256, 512, 1024, 2048, 4096, 8192, 16384, 32768, 65536, 131072, 262144,
                  524288, 1048576 >>
  IN  [code \in 0 .. 12 |-> sizes[code + 1]]
PageSizeCode == 4
CTX_PAGE_SIZE == \h1000

HostPages == 0 .. CtxPages - 1
Pages == 0 .. VirtPages - 1
NoHostPages == [i \in HostPages |-> {}]
Identity == [v \in Pages |-> v]

ContextInit ==
  /\ ctxStep = "none" /\ ctxPage = 0 /\ ctxTry = 0
  /\ hostTable = NoHostPages /\ cleared = {}
  /\ pageTable = [v \in Pages |-> 0]

ContextBegin(five709) ==
  /\ ctxStep = "none"
  /\ ctxTry' = 0
  /\ IF five709 THEN ctxStep' = "mem" /\ ctxPage' = 0
                ELSE ctxStep' = "virt" /\ ctxPage' = VirtPages
  /\ UNCHANGED <<hostTable, pageTable, cleared>>

\* A mutant: when the tries are over they begin again.
ContextBusyAgain ==
  /\ ctxStep \in {"mem", "pageWait"}
  /\ ctxTry' = (ctxTry + 1) % CtxPolls
  /\ UNCHANGED <<ctxStep, ctxPage, hostTable, pageTable, cleared>>

\* The bit polled for is still set: initContext looks again, or gives up.
ContextBusy ==
  /\ ctxStep \in {"mem", "pageWait"}
  /\ ctxTry' = ctxTry + 1
  /\ ctxStep' = IF ctxTry' < CtxPolls THEN ctxStep ELSE "failed"
  /\ UNCHANGED <<ctxPage, hostTable, pageTable, cleared>>

MemInitDone ==
  /\ ctxStep = "mem"
  /\ ctxStep' = "page" /\ ctxTry' = 0
  /\ UNCHANGED <<ctxPage, hostTable, pageTable, cleared>>

PageWrite ==
  /\ ctxStep = "page"
  /\ ctxStep' = "pageWait" /\ ctxTry' = 0
  /\ UNCHANGED <<ctxPage, hostTable, pageTable, cleared>>

\* The controller has taken the entry.
PageDone ==
  /\ ctxStep = "pageWait"
  /\ hostTable' = [hostTable EXCEPT ![ctxPage] = {ctxPage * CTX_PAGE_SIZE}]
  /\ ctxPage' = ctxPage + 1
  /\ ctxStep' = IF ctxPage' < CtxPages THEN "page" ELSE "ready"
  /\ UNCHANGED <<ctxTry, pageTable, cleared>>

\* A mutant: the loop ends one page early.
ClearPageShort ==
  /\ ctxStep = "virt"
  /\ ctxPage' = ctxPage - 1
  /\ LET window == [pageTable EXCEPT ![0] = ctxPage']
     IN  /\ cleared' = cleared \cup {window[0]}
         /\ pageTable' = [window EXCEPT ![ctxPage'] = ctxPage']
  /\ ctxStep' = IF ctxPage' <= 1 THEN "ready" ELSE "virt"
  /\ UNCHANGED <<ctxTry, hostTable>>

\* One turn of the loop: virtual page 0 shows the physical page while it is
\* cleared, then the page is mapped to its own virtual address.
ClearPage ==
  /\ ctxStep = "virt"
  /\ ctxPage' = ctxPage - 1
  /\ LET window == [pageTable EXCEPT ![0] = ctxPage']
     IN  /\ cleared' = cleared \cup {window[0]}
         /\ pageTable' = [window EXCEPT ![ctxPage'] = ctxPage']
  /\ ctxStep' = IF ctxPage' = 0 THEN "ready" ELSE "virt"
  /\ UNCHANGED <<ctxTry, hostTable>>

\* A reset, after which the driver sets it up from the start; what becomes of
\* the memory and the tables the code does not tell.
ContextReset ==
  /\ ctxStep' = "none" /\ ctxPage' = 0 /\ ctxTry' = 0
  /\ hostTable' \in {hostTable, NoHostPages}
  /\ cleared' = {}
  /\ UNCHANGED pageTable

ContextNext == ContextBusy \/ MemInitDone \/ PageWrite \/ PageDone \/ ClearPage
-----------------------------------------------------------------------------
ContextTypeOK ==
  /\ ctxStep \in {"none", "mem", "page", "pageWait", "virt", "ready", "failed"}
  /\ ctxPage \in 0 .. CtxPages + VirtPages /\ ctxTry \in 0 .. CtxPolls
  /\ hostTable \in [HostPages -> SUBSET Nat]
  /\ pageTable \in [Pages -> Pages] /\ cleared \subseteq Pages

\* "Add host pages to controller context" (Private.cpp:422): once initContext
\* reports success the 5709 has each page of the buffer, of the size it was told,
\* at its own entry; the others have all of their memory cleared and every address mapped to itself,
\* page 0 included, which was the window for the rest.
ContextReady(five709) ==
  ctxStep = "ready" =>
    IF five709 THEN \A i \in HostPages : hostTable[i] = {i * CTX_COMMAND_PAGE_SIZE[PageSizeCode]}
               ELSE cleared = Pages /\ pageTable = Identity
=============================================================================
