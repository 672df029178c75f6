---------------------------- MODULE FirmwareLoad ----------------------------
(***************************************************************************)
(* The processors of the controller and their firmware: initCpus and what  *)
(* it calls (Private.cpp), on the images of the firmware directory.        *)
(*                                                                         *)
(* All processors share one address space: a section is written to the     *)
(* scratch pad of its processor at the place its MIPS address tells.       *)
(***************************************************************************)
EXTENDS Naturals, Sequences

\* The register blocks, of which the driver uses these three and the scratch pad.
RXP  == [mode |-> \hc5000,  pc |-> \hc501c,  inst |-> \hc5020,  spadBase |-> \he0000]
TXP  == [mode |-> \h45000,  pc |-> \h4501c,  inst |-> \h45020,  spadBase |-> \h60000]
TPAT == [mode |-> \h85000,  pc |-> \h8501c,  inst |-> \h85020,  spadBase |-> \ha0000]
COM  == [mode |-> \h105000, pc |-> \h10501c, inst |-> \h105020, spadBase |-> \h120000]
CP   == [mode |-> \h185000, pc |-> \h18501c, inst |-> \h185020, spadBase |-> \h1a0000]
mipsViewBase == \h8000000

\* The processors in the order they are started.
initCpuRxp  == [cpu |-> "rxp",  reg |-> RXP]
initCpuTxp  == [cpu |-> "txp",  reg |-> TXP]
initCpuTpat == [cpu |-> "tpat", reg |-> TPAT]
initCpuCom  == [cpu |-> "com",  reg |-> COM]
initCpuCp   == [cpu |-> "cp",   reg |-> CP]
initCpus == <<initCpuRxp, initCpuTxp, initCpuTpat, initCpuCom, initCpuCp>>
Cpus == {initCpus[i].cpu : i \in 1 .. 5}

\* An entry of an image: where it starts, and its three sections.
Entry(start, text, data, roData) ==
  [start |-> start, text |-> text, data |-> data, roData |-> roData]
At(address, length) == [address |-> address, length |-> length]
None == At(0, 0)

Mips06 ==
  [com  |-> Entry(\h8000118, At(\h8000000, \h4a68), None, At(\h8004a68, \h14)),
   cp   |-> Entry(\h80000a0, At(\h8000000, \h5694), At(\h8005820, \h84), At(\h8005694, \h158)),
   rxp  |-> Entry(\h8003210, At(\h8000000, \h72f0), None, At(\h80072f0, \h24)),
   tpat |-> Entry(\h8000490, At(\h8000400, \h17d4), None, None),
   txp  |-> Entry(\h80000a8, At(\h8000000, \h3bfc), None, None)]
Mips09 ==
  [com  |-> Entry(\h8000118, At(\h8000000, \h5594), None, At(\h8005594, \h38)),
   cp   |-> Entry(\h80000a0, At(\h8000000, \h5744), At(\h8005920, \h84), At(\h8005744, \h1c0)),
   rxp  |-> Entry(\h8003210, At(\h8000000, \h9258), None, At(\h8009258, \h33c)),
   tpat |-> Entry(\h8000490, At(\h8000400, \h12fc), None, At(\h80016fc, \h4)),
   txp  |-> Entry(\h80000a8, At(\h8000000, \h3d00), None, At(\h8003d00, \h30))]

\* The code of the two RV2P processors: its length and the instruction word
\* that holds the page size.
Rv2p06   == <<[length |-> \h8f8, fixup |-> 9], [length |-> \hcf0, fixup |-> 5]>>
Rv2p09   == <<[length |-> \h8f8, fixup |-> 9], [length |-> \he88, fixup |-> 5]>>
Rv2p09ax == <<[length |-> \h970, fixup |-> 9], [length |-> \h1010, fixup |-> 5]>>
RV2P_BD_PAGE_SIZE == 16384 \div 16 - 1

\* The images for a chip.
Images(chip) ==
  IF chip.num # 5709 THEN [name |-> "06", mips |-> Mips06, rv2p |-> Rv2p06]
  ELSE IF chip.rev = "A" THEN [name |-> "09ax", mips |-> Mips09, rv2p |-> Rv2p09ax]
  ELSE [name |-> "09", mips |-> Mips09, rv2p |-> Rv2p09]

VARIABLES
  fwStep,     \* "none", "rv2p", "stop", "text", "data", "roData", "pc", "start"
              \* or "done"
  fwAt,       \* the processor it has come to
  rv2p,       \* processor -> the words it has at the instruction with the page size
  scratch,    \* what the sections written have left in the scratch pads
  pcReg,      \* processor -> its program counter
  running     \* the processors that are not halted

cpuVars == <<fwStep, fwAt, rv2p, scratch, pcReg, running>>

NoCode == [high |-> 0, low |-> 0, instr |-> 0, page |-> 0]

FirmwareInit ==
  /\ fwStep = "none" /\ fwAt = 1
  /\ rv2p = <<NoCode, NoCode>>
  /\ scratch = {} /\ pcReg = [c \in Cpus |-> 0]
  /\ running \in {{}, Cpus}   \* whatever used the device before

LoadBegin ==
  /\ fwStep = "none"
  /\ fwStep' = "rv2p" /\ fwAt' = 1
  /\ UNCHANGED <<rv2p, scratch, pcReg, running>>

\* A mutant: words and instructions are mixed up.
FixedWord(e) == [high |-> e.fixup - 1, low |-> e.fixup, instr |-> e.fixup,
                 page |-> RV2P_BD_PAGE_SIZE]

\* The code is written as it is; then the instruction at the fixup is written
\* again with the page size of the receive ring.
Fixed(e) ==
  IF e.fixup * 4 < e.length
  THEN [high |-> e.fixup - 1, low |-> e.fixup, instr |-> e.fixup \div 2,
        page |-> RV2P_BD_PAGE_SIZE]
  ELSE NoCode

LoadRv2p(fw) ==
  /\ fwStep = "rv2p"
  /\ rv2p' = [rv2p EXCEPT ![fwAt] = Fixed(fw.rv2p[fwAt])]
  /\ IF fwAt = 1 THEN fwAt' = 2 /\ UNCHANGED fwStep
                 ELSE fwAt' = 1 /\ fwStep' = "stop"
  /\ UNCHANGED <<scratch, pcReg, running>>
-----------------------------------------------------------------------------
This == initCpus[fwAt]

\* A mutant: the processor is not stopped.
StopCpuNot ==
  /\ fwStep = "stop"
  /\ fwStep' = "text"
  /\ UNCHANGED <<fwAt, rv2p, scratch, pcReg, running>>

StopCpu ==
  /\ fwStep = "stop"
  /\ running' = running \ {This.cpu}
  /\ fwStep' = "text"
  /\ UNCHANGED <<fwAt, rv2p, scratch, pcReg>>

\* A section where it is in the chip's address space.
Placed(fw, init, s) ==
  LET section == fw.mips[init.cpu][s]
  IN  [fw |-> fw.name, cpu |-> init.cpu, section |-> s,
       from |-> init.reg.spadBase + (section.address - mipsViewBase),
       length |-> section.length]

Overlap(a, b) == a.from < b.from + b.length /\ b.from < a.from + a.length

\* Words written over a section of before leave nothing of it that can be used.
LoadSection(fw, s, next) ==
  /\ fwStep = s
  /\ LET p == Placed(fw, This, s)
     IN  scratch' = IF p.length = 0 THEN scratch
                    ELSE {q \in scratch : ~Overlap(p, q)} \cup {p}
  /\ fwStep' = next
  /\ UNCHANGED <<fwAt, rv2p, pcReg, running>>

\* "Clear prefetch and set starting address" (:612), then startCpu.
SetPc(fw) ==
  /\ fwStep = "pc"
  /\ pcReg' = [pcReg EXCEPT ![This.cpu] = fw.mips[This.cpu].start]
  /\ fwStep' = "start"
  /\ UNCHANGED <<fwAt, rv2p, scratch, running>>

StartCpu ==
  /\ fwStep = "start"
  /\ running' = running \cup {This.cpu}
  /\ IF fwAt = 5 THEN fwStep' = "done" /\ UNCHANGED fwAt
                 ELSE fwStep' = "stop" /\ fwAt' = fwAt + 1
  /\ UNCHANGED <<rv2p, scratch, pcReg>>

\* A reset: whether it halts the processors or clears their memory the code
\* does not tell.
CpusReset ==
  /\ fwStep' = "none" /\ fwAt' = 1
  /\ running' \in {{}, Cpus} /\ scratch' \in {{}, scratch}
  /\ UNCHANGED <<rv2p, pcReg>>

LoadNext(fw) ==
  \/ LoadRv2p(fw) \/ StopCpu
  \/ LoadSection(fw, "text", "data") \/ LoadSection(fw, "data", "roData")
  \/ LoadSection(fw, "roData", "pc")
  \/ SetPc(fw) \/ StartCpu
-----------------------------------------------------------------------------
FirmwareTypeOK ==
  /\ fwStep \in {"none", "rv2p", "stop", "text", "data", "roData", "pc", "start", "done"}
  /\ fwAt \in 1 .. 5 /\ running \subseteq Cpus
  /\ \A p \in scratch : p.length > 0
  /\ pcReg \in [Cpus -> Nat]

\* All of a processor's image is where its MIPS addresses say, and it starts
\* in its text.
Whole(fw, init) ==
  LET text == fw.mips[init.cpu].text
  IN  /\ \A s \in {"text", "data", "roData"} :
           fw.mips[init.cpu][s].length > 0 =>
             /\ fw.mips[init.cpu][s].address >= mipsViewBase
             /\ \E p \in scratch :
                  /\ p.fw = fw.name /\ p.cpu = init.cpu /\ p.section = s
                  /\ p.from - init.reg.spadBase =
                       fw.mips[init.cpu][s].address - mipsViewBase
      /\ pcReg[init.cpu] \in text.address .. text.address + text.length - 4

\* The processors this call of initCpus has begun with.
Begun == IF fwStep \in {"none", "rv2p"} THEN {}
         ELSE {i \in 1 .. 5 : i < fwAt \/ (i = fwAt /\ fwStep # "stop")}

\* No processor runs while its memory is being written, or without its whole
\* image; the sections of the five, loaded one after the other into one address
\* space, leave each other alone; and when initCpus returns all of them run,
\* whatever ran before, with the image of this chip.
RunningWhole(fw) ==
  /\ \A i \in Begun : initCpus[i].cpu \in running => Whole(fw, initCpus[i])
  /\ fwStep = "done" => running = Cpus

\* "RV2P_BD_PAGE_SIZE" (FirmwareStructs.h:32): both RV2P processors have the
\* number of descriptors of the receive ring's page in one instruction, both
\* words of which are its own.
PageSizePatched(usable) ==
  fwStep \notin {"none", "rv2p"} =>
    \A p \in 1 .. 2 : /\ rv2p[p].page = usable
                      /\ rv2p[p].high = 2 * rv2p[p].instr
                      /\ rv2p[p].low = 2 * rv2p[p].instr + 1
=============================================================================
