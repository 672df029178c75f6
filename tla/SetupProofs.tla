----------------------------- MODULE SetupProofs -----------------------------
(***************************************************************************)
(* More proofs about BringUp, for every chip, every address and any number *)
(* of loads: what the registers, the context memory and the processors of  *)
(* a controller that is set up hold.                                       *)
(***************************************************************************)
EXTENDS BringUpProofs

\* Of the processors only these steps change anything.
LEMMA CpuSteps ==
  ASSUME [NextAll]_allVars
  PROVE Reset \/ SetupCpus \/ UNCHANGED cpuVars
BY DEF NextAll, CallAll, BufferBegin, BufferStep, PrepareFails, Hold, SetupBegin, SetupContext,
       SetupFails, SetupEnd, Starting, EnableEnd, CallOnly, EnableBegin, FreeAll, Promiscuous,
       partVars, allVars

LEMMA SameImages ==
  ASSUME [NextAll]_allVars
  PROVE fw' = fw
BY SameChip DEF fw, Images
-----------------------------------------------------------------------------
(***************************************************************************)
(* The filter's address and the size of the rings' pages.                  *)
(***************************************************************************)
\* A byte of a word, and the words that fetchMacAddress takes apart into bytes
\* put together again.
Byte(w, k) == (w \div 256^k) % 256

LEMMA TwoBytes ==
  ASSUME NEW w \in Nat
  PROVE Byte(w, 1) * 256 + Byte(w, 0) = w % 65536
<1>1. Byte(w, 1) = (w \div 256) % 256 /\ Byte(w, 0) = w % 256
  BY DEF Byte
<1>2. QED
  BY <1>1

LEMMA FourBytes ==
  ASSUME NEW w \in Nat, w \div 256^3 < 256
  PROVE Byte(w, 3) * 256^3 + Byte(w, 2) * 256^2 + Byte(w, 1) * 256 + Byte(w, 0) = w
<1>1. Byte(w, 1) = (w \div 256) % 256 /\ Byte(w, 0) = w % 256
  BY DEF Byte
<1>2. Byte(w, 2) = ((w \div 256) \div 256) % 256
  BY DEF Byte
<1>3. Byte(w, 3) = ((w \div 256) \div 256) \div 256
  BY DEF Byte
<1>4. QED
  BY <1>1, <1>2, <1>3

LEMMA MacWords ==
  ASSUME NEW r, {"match0", "match1"} \subseteq DOMAIN r
  PROVE LET s == setMacAddress(r, fetchMacAddress)
        IN  /\ s.match0 = PORT_HW_CFG_MAC_UPPER % 65536
            /\ s.match1 = PORT_HW_CFG_MAC_LOWER
            /\ \A f \in DOMAIN r \ {"match0", "match1"} : s[f] = r[f]
            /\ DOMAIN s = DOMAIN r
<1> DEFINE u == PORT_HW_CFG_MAC_UPPER
           w == PORT_HW_CFG_MAC_LOWER
           s == setMacAddress(r, fetchMacAddress)
<1>1. u \in Nat /\ w \in Nat /\ w \div 256^3 < 256
  BY MacAssumption
<1>2. fetchMacAddress = << Byte(u, 1), Byte(u, 0),
                           Byte(w, 3), Byte(w, 2), Byte(w, 1), Byte(w, 0) >>
  BY DEF fetchMacAddress, Byte
<1>3. s.match0 = Byte(u, 1) * 256 + Byte(u, 0)
  BY <1>2 DEF setMacAddress
<1>4. s.match1 = Byte(w, 3) * 256^3 + Byte(w, 2) * 256^2 + Byte(w, 1) * 256 + Byte(w, 0)
  BY <1>2 DEF setMacAddress
<1>5. /\ \A f \in DOMAIN r \ {"match0", "match1"} : s[f] = r[f]
      /\ DOMAIN s = DOMAIN r
  BY DEF setMacAddress
<1>6. QED
  BY <1>1, <1>3, <1>4, <1>5, TwoBytes, FourBytes

AddressSet == /\ regs.match0 = PORT_HW_CFG_MAC_UPPER % 65536
              /\ regs.match1 = PORT_HW_CFG_MAC_LOWER
PagesSet == regs.txPage = 6 /\ regs.rxPage = 6

\* What makes FilterOwn and the registers' part of PageSizeAgrees inductive.
SetupInv ==
  /\ DOMAIN regs = {"txPage", "rxPage", "match0", "match1", "promiscuous"}
  /\ pc \in {"wait2", "finish"} => AddressSet /\ PagesSet /\ fwStep = "done"
  /\ Started => AddressSet /\ fwStep = "done"
  /\ Started /\ pc = "finish" => ~regs.promiscuous
  /\ isEnabled => Started
  /\ chip \in {"ready", "running"} => PagesSet /\ fwStep = "done"

LEMMA SetupSame ==
  ASSUME DmaInv, SetupInv, UNCHANGED <<regs, startStep>>,
         op' = "enable" => op = "enable",
         pc' = "wait2" => pc = "wait2", pc' = "finish" => pc \in {"wait2", "finish"},
         isEnabled' => isEnabled \/ Started', isEnabled /\ isEnabled' => op' = op,
         chip' \in {"ready", "running"} =>
           /\ chip \in {"ready", "running"} \/ pc = "finish"
           /\ fwStep' = fwStep,
         pc' \in {"wait2", "finish"} \/ Started => fwStep' = fwStep
  PROVE SetupInv'
<1>1. Started => pc # "wait2"
  BY DEF DmaInv, Started, Prepared
<1>2. Started' => Started
  BY DEF Started
<1>3. isEnabled' => Started'
  BY DEF SetupInv, Started
<1>4. (AddressSet' <=> AddressSet) /\ (PagesSet' <=> PagesSet)
  BY DEF AddressSet, PagesSet
<1>5. pc' \in {"wait2", "finish"} => AddressSet /\ PagesSet /\ fwStep' = "done"
  BY DEF SetupInv
<1>6. Started' /\ pc' = "finish" => ~regs'.promiscuous
  <2> SUFFICES ASSUME Started', pc' = "finish" PROVE ~regs.promiscuous
    OBVIOUS
  <2>1. Started /\ pc = "finish"
    BY <1>1, <1>2
  <2>2. QED
    BY <2>1 DEF SetupInv
<1>7. chip' \in {"ready", "running"} => PagesSet /\ fwStep' = "done"
  BY DEF SetupInv
<1>8. QED
  BY <1>2, <1>3, <1>4, <1>5, <1>6, <1>7 DEF SetupInv

LEMMA SetupStep ==
  ASSUME LifeInv, DmaInv, SetupInv, [NextAll]_allVars
  PROVE SetupInv'
<1>1. CASE Hold
  <2>1. /\ pc = "wait0" /\ pc' = pc /\ chip' = "stopped"
        /\ UNCHANGED <<op, isEnabled, regs, startStep, fwStep>>
    BY <1>1 DEF Hold, SyncReset, HoldDma, cpuVars
  <2>2. QED
    BY <2>1, SetupSame
<1>2. CASE Reset
  <2>1. /\ pc = "reset" /\ pc' \in {"wait1", "failed", "idle"} /\ chip' = "reset"
        /\ regs' \in {regs, NoRegs} /\ UNCHANGED <<op, isEnabled, startStep>>
    BY <1>2 DEF Reset, ResetChip, ResetBadSwap, ResetStuck, SetupReset, GiveUp
  <2>2. ~Started /\ ~isEnabled
    BY <2>1 DEF DmaInv, LifeInv, Started, Prepared
  <2>3. DOMAIN regs' = {"txPage", "rxPage", "match0", "match1", "promiscuous"}
    BY <2>1 DEF SetupInv, NoRegs
  <2>4. QED
    BY <2>1, <2>2, <2>3 DEF SetupInv, Started
<1>3. CASE SetupBegin
  <2>1. /\ pc = "init" /\ pc' = "setup"
        /\ UNCHANGED <<chip, op, isEnabled, regs, startStep, fwStep>>
    BY <1>3 DEF SetupBegin, InitMask, EnableContext, cpuVars
  <2>2. QED
    BY <2>1, SetupSame
<1>4. CASE SetupEnd
  <2>1. /\ pc = "setup" /\ pc' = "wait2" /\ chip' = "ready"
        /\ regs' = setMacAddress(initTxRxRegs(regs), fetchMacAddress)
        /\ fwStep = "done" /\ UNCHANGED <<op, isEnabled, startStep, fwStep>>
    BY <1>4 DEF SetupEnd, InitChip, GiveBlocks, cpuVars
  <2>2. ~Started /\ ~isEnabled
    BY <2>1 DEF DmaInv, LifeInv, Started, Prepared
  <2> DEFINE r == initTxRxRegs(regs)
  <2>3. /\ DOMAIN r = {"txPage", "rxPage", "match0", "match1", "promiscuous"}
        /\ r.txPage = 6 /\ r.rxPage = 6
    BY DEF SetupInv, initTxRxRegs, PAGE_BITS
  <2> HIDE DEF r
  <2>4. DOMAIN regs' = DOMAIN r /\ AddressSet' /\ PagesSet'
    BY <2>1, <2>3, MacWords DEF AddressSet, PagesSet, r
  <2>5. QED
    BY <2>1, <2>2, <2>3, <2>4 DEF SetupInv, Started
<1>5. CASE EnableBegin
  <2>1. /\ pc' = "wait0" /\ chip' = "stopped" /\ startStep' = "none"
        /\ ~isEnabled /\ UNCHANGED <<isEnabled, regs>>
    BY <1>5 DEF EnableBegin, Enable, StopController
  <2>2. QED
    BY <2>1 DEF SetupInv, Started
<1>6. CASE Starting
  <2>1. /\ pc = "finish" /\ op = "enable" /\ StartStep
        /\ UNCHANGED <<pc, op, isEnabled, chip, fwStep>>
    BY <1>6 DEF Starting, vars, chipVars, cpuVars
  <2>2. ~isEnabled /\ AddressSet /\ PagesSet /\ fwStep = "done"
    BY <2>1 DEF LifeInv, SetupInv
  <2>3. CASE EnableBlocks
    <3>1. regs' = [regs EXCEPT !.promiscuous = FALSE]
      BY <2>3 DEF EnableBlocks, setRxMode
    <3>2. /\ DOMAIN regs' = DOMAIN regs /\ ~regs'.promiscuous
          /\ \A f \in DOMAIN regs \ {"promiscuous"} : regs'[f] = regs[f]
      BY <3>1 DEF SetupInv
    <3>3. AddressSet' /\ PagesSet'
      BY <2>2, <3>2 DEF SetupInv, AddressSet, PagesSet
    <3>4. QED
      BY <2>1, <2>2, <3>2, <3>3 DEF SetupInv
  <2>4. CASE InitTxRing \/ InitRxRing
    <3>1. regs' = regs /\ startStep # "none" /\ startStep' # "none"
      BY <2>4 DEF InitTxRing, InitRxRing
    <3>2. Started /\ Started' /\ ~regs.promiscuous
      BY <2>1, <3>1 DEF Started, SetupInv
    <3>3. AddressSet' /\ PagesSet' /\ ~regs'.promiscuous
      BY <2>2, <3>1, <3>2 DEF AddressSet, PagesSet
    <3>4. QED
      BY <2>1, <2>2, <3>1, <3>2, <3>3 DEF SetupInv
  <2>5. QED
    BY <2>1, <2>3, <2>4 DEF StartStep
<1>7. ASSUME NEW active \in BOOLEAN, Promiscuous(active) PROVE SetupInv'
  <2>1. /\ pc = "idle" /\ regs' = [regs EXCEPT !.promiscuous = active]
        /\ UNCHANGED <<pc, op, isEnabled, chip, fwStep, startStep>>
    BY <1>7 DEF Promiscuous, SetPromiscuous, setRxMode, vars, chipVars, cpuVars
  <2>2. /\ DOMAIN regs' = DOMAIN regs
        /\ \A f \in DOMAIN regs \ {"promiscuous"} : regs'[f] = regs[f]
    BY <2>1 DEF SetupInv
  <2>3. (AddressSet' <=> AddressSet) /\ (PagesSet' <=> PagesSet)
    BY <2>2 DEF SetupInv, AddressSet, PagesSet
  <2>4. Started' <=> Started
    BY <2>1 DEF Started
  <2>5. QED
    BY <2>1, <2>2, <2>3, <2>4 DEF SetupInv
<1>8. CASE EnableEnd
  <2>1. /\ pc = "finish" /\ pc' = "idle" /\ op = "enable" /\ startStep = "up"
        /\ UNCHANGED <<op, regs, startStep, fwStep>>
    BY <1>8 DEF EnableEnd, Enabled, partVars, setupVars, cpuVars
  <2>2. Started /\ Started'
    BY <2>1 DEF Started
  <2>3. QED
    BY <2>1, <2>2, SetupSame
<1>9. CASE SetupContext \/ SetupCpus
  <2>1. /\ pc = "setup" /\ UNCHANGED <<pc, chip, op, isEnabled, regs, startStep>>
        /\ UNCHANGED fwStep \/ fwStep # "done"
    BY <1>9 DEF SetupContext, SetupCpus, LoadBegin, LoadNext, LoadRv2p, StopCpu, LoadSection,
                SetPc, StartCpu, vars, chipVars, cpuVars, setupVars
  <2>2. chip \in {"ready", "running"} \/ Started => UNCHANGED fwStep
    BY <2>1 DEF SetupInv
  <2>3. QED
    BY <2>1, <2>2, SetupSame
<1>10. CASE \/ BufferBegin \/ BufferStep \/ PrepareFails \/ SetupFails \/ CallOnly \/ FreeAll
            \/ (Load \/ Stop \/ Firmware) /\ UNCHANGED partVars
            \/ UNCHANGED allVars
  <2>1. /\ UNCHANGED <<chip, regs, startStep, fwStep>>
        /\ op' = "enable" => op = "enable"
        /\ isEnabled' => isEnabled /\ op' = op
    <3>1. CASE FreeAll
      BY <3>1 DEF FreeAll, Free, TakeBack, chipVars, setupVars, cpuVars
    <3>2. CASE CallOnly
      <4>1. UNCHANGED <<regs, startStep, fwStep>>
        BY <3>2 DEF CallOnly, partVars, setupVars, cpuVars
      <4>2. UNCHANGED chip
        BY <3>2 DEF CallOnly, Open, OpenFails, Answered, NotAnswered, Sync, Wait2Over, Attach,
                    SyncSteps, chipVars
      <4>3. UNCHANGED <<op, isEnabled>>
        BY <3>2 DEF CallOnly, Open, OpenFails, Answered, NotAnswered, ResetStuck, Sync,
                    Wait2Over, Attach, SyncSteps
      <4>4. QED
        BY <4>1, <4>2, <4>3
    <3>3. CASE BufferBegin \/ BufferStep \/ PrepareFails \/ SetupFails
      BY <3>3 DEF BufferBegin, BufferStep, PrepareFails, SetupFails, Alloc, AllocFails,
                  InitChipFails, chipVars, vars, partVars, setupVars, cpuVars
    <3>4. CASE ((Load \/ Stop \/ Firmware) /\ UNCHANGED partVars) \/ UNCHANGED allVars
      BY <3>4 DEF Load, Stop, Firmware, chipVars, vars, partVars, setupVars, cpuVars, allVars
    <3>5. QED
      BY <1>10, <3>1, <3>2, <3>3, <3>4
  <2>2. /\ pc' = "wait2" => pc = "wait2"
        /\ pc' = "finish" => pc \in {"wait2", "finish"}
    BY <1>10 DEF BufferBegin, BufferStep, PrepareFails, SetupFails, CallOnly, FreeAll, Load, Stop,
                Firmware, Alloc, AllocFails, InitChipFails, Open, OpenFails, Answered,
                NotAnswered, ResetStuck, Sync, Wait2Over, Attach, SyncSteps, Free, GiveUp,
                vars, allVars
  <2>3. QED
    BY <2>1, <2>2, SetupSame
<1>11. QED
  BY <1>1, <1>2, <1>3, <1>4, <1>5, <1>6, <1>7, <1>8, <1>9, <1>10 DEF NextAll, CallAll

LEMMA SetupInvariant == SpecAll => []SetupInv
<1>1. InitAll => SetupInv
  BY DEF InitAll, Init, SetupInit, NoRegs, OtherRegs, SetupInv, Started
<1>2. LifeInv /\ DmaInv /\ SetupInv /\ [NextAll]_allVars => SetupInv'
  BY SetupStep
<1>3. QED
  BY <1>1, <1>2, DmaInvariant, PTL DEF SpecAll

\* From startController (Controller.cpp:347) to the end of enable() the filter
\* has the address of shared memory, whichever it is, and is not promiscuous;
\* while the driver is enabled the address stays.
THEOREM FilterOwnTheorem == SpecAll => []FilterOwn
<1>1. SetupInv => FilterOwn
  BY DEF SetupInv, FilterOwn, AddressSet
<1>2. QED
  BY <1>1, SetupInvariant, PTL
-----------------------------------------------------------------------------
(***************************************************************************)
(* The processors.                                                         *)
(***************************************************************************)
LEMMA CpusAre ==
  /\ Cpus = {"rxp", "txp", "tpat", "com", "cp"}
  /\ \A i \in 1 .. 5 : initCpus[i].cpu \in Cpus
  /\ \A c \in Cpus : \E i \in 1 .. 5 : initCpus[i].cpu = c
  /\ \A i, j \in 1 .. 5 : initCpus[i].cpu = initCpus[j].cpu => i = j
<1>1. /\ initCpus[1].cpu = "rxp" /\ initCpus[2].cpu = "txp" /\ initCpus[3].cpu = "tpat"
      /\ initCpus[4].cpu = "com" /\ initCpus[5].cpu = "cp"
  BY DEF initCpus, initCpuRxp, initCpuTxp, initCpuTpat, initCpuCom, initCpuCp
<1>2. QED
  BY <1>1 DEF Cpus

Sections == {"text", "data", "roData"}

\* What an entry of an image is like: each section is in the 64K of its
\* processor's scratch pad and leaves the others alone; and the processor starts
\* in its text.
InPad(e) ==
  \A s \in Sections :
    /\ e[s].length \in Nat /\ e[s].address \in Nat
    /\ e[s].length > 0 => /\ e[s].address >= mipsViewBase
                          /\ e[s].address + e[s].length <= mipsViewBase + 65536
SideBySide(e) ==
  \A s, t \in Sections :
    e[s].length > 0 /\ e[t].length > 0 /\ s # t =>
      \/ e[s].address + e[s].length <= e[t].address
      \/ e[t].address + e[t].length <= e[s].address
StartsInText(e) ==
  e.start \in Nat /\ e.start \in e.text.address .. e.text.address + e.text.length - 4
Fit(e) == InPad(e) /\ SideBySide(e) /\ StartsInText(e)

LEMMA Fit06 == \A c \in Cpus : Fit(Mips06[c])
<1> USE DEF Fit, InPad, SideBySide, StartsInText, Sections, Mips06, Entry, At, None, mipsViewBase
<1>1. Fit(Mips06.com)
  BY SMT
<1>2. Fit(Mips06.cp)
  BY SMT
<1>3. Fit(Mips06.rxp)
  BY SMT
<1>4. Fit(Mips06.tpat)
  BY SMT
<1>5. Fit(Mips06.txp)
  BY SMT
<1> HIDE DEF Fit, InPad, SideBySide, StartsInText, Sections, Mips06, Entry, At, None, mipsViewBase
<1>6. Cpus = {"rxp", "txp", "tpat", "com", "cp"}
  BY CpusAre
<1>7. QED
  BY <1>1, <1>2, <1>3, <1>4, <1>5, <1>6

LEMMA Fit09 == \A c \in Cpus : Fit(Mips09[c])
<1> USE DEF Fit, InPad, SideBySide, StartsInText, Sections, Mips09, Entry, At, None, mipsViewBase
<1>1. Fit(Mips09.com)
  BY SMT
<1>2. Fit(Mips09.cp)
  BY SMT
<1>3. Fit(Mips09.rxp)
  BY SMT
<1>4. Fit(Mips09.tpat)
  BY SMT
<1>5. Fit(Mips09.txp)
  BY SMT
<1> HIDE DEF Fit, InPad, SideBySide, StartsInText, Sections, Mips09, Entry, At, None, mipsViewBase
<1>6. Cpus = {"rxp", "txp", "tpat", "com", "cp"}
  BY CpusAre
<1>7. QED
  BY <1>1, <1>2, <1>3, <1>4, <1>5, <1>6

LEMMA FitImages == \A c \in Cpus : Fit(fw.mips[c])
BY Fit06, Fit09 DEF fw, Images

LEMMA FitCpu ==
  ASSUME NEW i \in 1 .. 5
  PROVE Fit(fw.mips[initCpus[i].cpu])
<1>1. initCpus[i].cpu \in Cpus
  BY CpusAre
<1>2. QED
  BY <1>1, FitImages

LEMMA FitSection ==
  ASSUME NEW e, Fit(e), NEW s \in Sections
  PROVE /\ e[s].length \in Nat /\ e[s].address \in Nat
        /\ e[s].length > 0 => /\ e[s].address >= mipsViewBase
                              /\ e[s].address + e[s].length <= mipsViewBase + 65536
BY DEF Fit, InPad

\* The scratch pads of two processors are 64K or more apart.
Base(i) == initCpus[i].reg.spadBase

LEMMA Bases ==
  /\ \A i \in 1 .. 5 : Base(i) \in Nat
  /\ \A i, j \in 1 .. 5 : i # j => Base(i) + 65536 <= Base(j) \/ Base(j) + 65536 <= Base(i)
<1>1. /\ Base(1) = 917504 /\ Base(2) = 393216 /\ Base(3) = 655360
      /\ Base(4) = 1179648 /\ Base(5) = 1703936
  BY DEF Base, initCpus, initCpuRxp, initCpuTxp, initCpuTpat, initCpuCom, initCpuCp,
         RXP, TXP, TPAT, COM, CP
<1>2. QED
  BY <1>1

LEMMA NoOverlap ==
  ASSUME NEW i \in 1 .. 5, NEW j \in 1 .. 5, NEW s \in Sections, NEW t \in Sections,
         i # j \/ s # t,
         fw.mips[initCpus[i].cpu][s].length > 0, fw.mips[initCpus[j].cpu][t].length > 0
  PROVE ~Overlap(Placed(fw, initCpus[i], s), Placed(fw, initCpus[j], t))
<1> DEFINE e == fw.mips[initCpus[i].cpu]
           f == fw.mips[initCpus[j].cpu]
           p == Placed(fw, initCpus[i], s)
           q == Placed(fw, initCpus[j], t)
<1>1. /\ p.from = Base(i) + (e[s].address - mipsViewBase) /\ p.length = e[s].length
      /\ q.from = Base(j) + (f[t].address - mipsViewBase) /\ q.length = f[t].length
  BY DEF Placed, Base
<1>2. mipsViewBase \in Nat /\ Base(i) \in Nat /\ Base(j) \in Nat
  BY SMT, Bases DEF mipsViewBase
<1>3. Fit(e) /\ Fit(f)
  BY FitCpu
<1> HIDE DEF e, f, p, q
<1>4. /\ e[s].address \in Nat /\ e[s].length \in Nat /\ e[s].address >= mipsViewBase
      /\ e[s].address + e[s].length <= mipsViewBase + 65536
      /\ f[t].address \in Nat /\ f[t].length \in Nat /\ f[t].address >= mipsViewBase
      /\ f[t].address + f[t].length <= mipsViewBase + 65536
  <2>1. e[s].length > 0 /\ f[t].length > 0
    BY DEF e, f
  <2>2. QED
    BY <1>3, <2>1, FitSection
<1>5. CASE i = j
  <2>1. \/ e[s].address + e[s].length <= e[t].address
        \/ e[t].address + e[t].length <= e[s].address
    BY <1>3, <1>5 DEF Fit, SideBySide, e, f
  <2>2. e = f /\ Base(i) = Base(j)
    BY <1>5 DEF e, f
  <2>3. ~(p.from < q.from + q.length /\ q.from < p.from + p.length)
    BY SMT, <1>1, <1>2, <1>4, <2>1, <2>2
  <2>4. QED
    BY <2>3 DEF Overlap, p, q
<1>6. CASE i # j
  <2>1. Base(i) + 65536 <= Base(j) \/ Base(j) + 65536 <= Base(i)
    BY <1>6, Bases
  <2>2. ~(p.from < q.from + q.length /\ q.from < p.from + p.length)
    BY SMT, <1>1, <1>2, <1>4, <2>1
  <2>3. QED
    BY <2>2 DEF Overlap, p, q
<1>7. QED
  BY <1>5, <1>6

\* A section of an image is where it belongs.
Present(i, s) ==
  fw.mips[initCpus[i].cpu][s].length > 0 => Placed(fw, initCpus[i], s) \in scratch

\* The next section leaves those that have been written alone, its processor's
\* and those of the others.
LEMMA LoadKeeps ==
  ASSUME NEW s \in Sections, NEW next, LoadSection(fw, s, next), fwAt \in 1 .. 5, fw' = fw
  PROVE /\ Present(fwAt, s)'
        /\ \A j \in 1 .. 5, t \in Sections :
             (j # fwAt \/ t # s) /\ Present(j, t) => Present(j, t)'
<1> DEFINE p == Placed(fw, This, s)
           l == fw.mips[initCpus[fwAt].cpu][s].length
<1>1. fwAt' = fwAt /\ p = Placed(fw, initCpus[fwAt], s) /\ p.length = l
  BY DEF LoadSection, This, Placed
<1>2. scratch' = IF l = 0 THEN scratch ELSE {q \in scratch : ~Overlap(p, q)} \cup {p}
  BY <1>1 DEF LoadSection
<1> HIDE DEF p
<1>3. l \in Nat
  BY FitCpu, FitSection
<1>4. Present(fwAt, s)'
  <2>1. CASE l = 0
    BY <1>1, <2>1 DEF Present
  <2>2. CASE l # 0
    BY <1>1, <1>2, <2>2 DEF Present
  <2>3. QED
    BY <2>1, <2>2
<1>5. ASSUME NEW j \in 1 .. 5, NEW t \in Sections, j # fwAt \/ t # s, Present(j, t),
             fw.mips[initCpus[j].cpu][t].length > 0
      PROVE Placed(fw, initCpus[j], t) \in scratch'
  <2>1. Placed(fw, initCpus[j], t) \in scratch
    BY <1>5 DEF Present
  <2>2. CASE l = 0
    BY <1>2, <2>1, <2>2
  <2>3. CASE l # 0
    <3>1. fw.mips[initCpus[fwAt].cpu][s].length > 0
      BY <1>3, <2>3
    <3>2. ~Overlap(Placed(fw, initCpus[fwAt], s), Placed(fw, initCpus[j], t))
      BY <1>5, <3>1, NoOverlap
    <3>3. QED
      BY <1>1, <1>2, <2>1, <2>3, <3>2
  <2>4. QED
    BY <2>2, <2>3
<1>6. QED
  BY <1>4, <1>5 DEF Present

\* The sections of the processor it has come to that are written.
Behind == CASE fwStep = "data" -> {"text"}
            [] fwStep = "roData" -> {"text", "data"}
            [] fwStep \in {"pc", "start", "done"} -> Sections
            [] OTHER -> {}

\* A processor that has been started.
Up(i) == /\ \A s \in Sections : Present(i, s)
         /\ pcReg[initCpus[i].cpu] = fw.mips[initCpus[i].cpu].start
         /\ initCpus[i].cpu \in running

Loading == {"stop", "text", "data", "roData", "pc", "start", "done"}

\* What makes FirmwareRuns inductive: the processors before the one that is
\* being loaded are up, and of that one so much is written.
CpuInv ==
  /\ FirmwareTypeOK
  /\ fwStep = "done" => fwAt = 5 /\ Up(5)
  /\ fwStep \in Loading => \A i \in 1 .. 5 : i < fwAt => Up(i)
  /\ fwStep \in Loading \ {"stop", "done"} => initCpus[fwAt].cpu \notin running
  /\ \A s \in Behind : Present(fwAt, s)
  /\ fwStep = "start" => pcReg[initCpus[fwAt].cpu] = fw.mips[initCpus[fwAt].cpu].start

LEMMA CpuSame ==
  ASSUME CpuInv, UNCHANGED cpuVars, fw' = fw
  PROVE CpuInv'
<1>1. (\A i, s : Present(i, s)' <=> Present(i, s)) /\ (\A i : Up(i)' <=> Up(i)) /\ Behind' = Behind
  BY DEF Present, Up, Behind, cpuVars
<1>2. QED
  BY <1>1 DEF CpuInv, FirmwareTypeOK, cpuVars

LEMMA CpuReset ==
  ASSUME CpuInv, CpusReset
  PROVE CpuInv'
<1>1. FirmwareTypeOK'
  BY DEF CpuInv, FirmwareTypeOK, CpusReset
<1>2. fwStep' = "none" /\ Behind' = {}
  BY DEF CpusReset, Behind
<1>3. QED
  BY <1>1, <1>2 DEF CpuInv, Loading

\* Of the RV2P processors' code nothing is in the scratch pads.
LEMMA CpuBegin ==
  ASSUME CpuInv, LoadBegin \/ LoadRv2p(fw)
  PROVE CpuInv'
<1>1. /\ UNCHANGED <<scratch, pcReg, running>>
      /\ fwStep' \in {"rv2p", "stop"} /\ fwAt' \in {1, 2}
      /\ fwStep' = "stop" => fwAt' = 1
  BY DEF LoadBegin, LoadRv2p
<1>2. FirmwareTypeOK' /\ Behind' = {}
  BY <1>1 DEF CpuInv, FirmwareTypeOK, Behind
<1>3. QED
  BY <1>1, <1>2 DEF CpuInv, Loading

LEMMA CpuStop ==
  ASSUME CpuInv, StopCpu, fw' = fw
  PROVE CpuInv'
<1>1. /\ fwStep = "stop" /\ fwStep' = "text" /\ fwAt \in 1 .. 5 /\ Behind' = {}
      /\ UNCHANGED <<fwAt, rv2p, scratch, pcReg>> /\ running' = running \ {initCpus[fwAt].cpu}
  BY DEF CpuInv, FirmwareTypeOK, StopCpu, This, Behind
<1>2. FirmwareTypeOK'
  BY <1>1 DEF CpuInv, FirmwareTypeOK
<1>3. ASSUME NEW i \in 1 .. 5, i < fwAt PROVE Up(i)'
  <2>1. Up(i) /\ initCpus[i].cpu # initCpus[fwAt].cpu
    BY <1>1, <1>3, CpusAre DEF CpuInv, Loading
  <2>2. QED
    BY <1>1, <2>1 DEF Up, Present
<1>4. QED
  BY <1>1, <1>2, <1>3 DEF CpuInv, Loading

LEMMA CpuSection ==
  ASSUME CpuInv, fw' = fw, NEW s \in Sections, NEW next, LoadSection(fw, s, next),
         <<s, next>> \in {<<"text", "data">>, <<"data", "roData">>, <<"roData", "pc">>}
  PROVE CpuInv'
<1>1. /\ fwStep = s /\ fwStep' = next /\ fwAt \in 1 .. 5
      /\ UNCHANGED <<fwAt, rv2p, pcReg, running>>
  BY DEF CpuInv, FirmwareTypeOK, LoadSection
<1>2. Present(fwAt, s)'
      /\ \A j \in 1 .. 5, t \in Sections :
           (j # fwAt \/ t # s) /\ Present(j, t) => Present(j, t)'
  BY <1>1, LoadKeeps
<1>3. FirmwareTypeOK'
  <2>1. fw.mips[initCpus[fwAt].cpu][s].length \in Nat
    BY <1>1, FitCpu, FitSection
  <2>2. Placed(fw, This, s).length \in Nat
    BY <2>1 DEF Placed, This
  <2>3. \A p \in scratch' : p.length > 0
    BY <2>2 DEF LoadSection, CpuInv, FirmwareTypeOK
  <2>4. QED
    BY <1>1, <2>3 DEF CpuInv, FirmwareTypeOK
<1>4. ASSUME NEW i \in 1 .. 5, i < fwAt PROVE Up(i)'
  <2>1. Up(i) /\ i # fwAt
    BY <1>1, <1>4 DEF CpuInv, Loading, Sections
  <2>2. QED
    BY <1>1, <1>2, <2>1 DEF Up
<1>5. \A t \in Behind' : Present(fwAt, t)'
  <2>1. /\ Behind' \subseteq Behind \cup {s} /\ s \notin Behind
        /\ Behind \subseteq Sections
    BY <1>1 DEF Behind, Sections
  <2>2. \A t \in Behind : Present(fwAt, t)
    BY DEF CpuInv
  <2>3. QED
    BY <1>1, <1>2, <2>1, <2>2
<1>6. /\ fwStep' \in {"data", "roData", "pc"} /\ fwStep \in {"text", "data", "roData"}
      /\ initCpus[fwAt].cpu \notin running
  BY <1>1 DEF CpuInv, Loading
<1>7. QED
  BY <1>1, <1>3, <1>4, <1>5, <1>6 DEF CpuInv, Loading

LEMMA CpuSetPc ==
  ASSUME CpuInv, SetPc(fw), fw' = fw
  PROVE CpuInv'
<1>1. /\ fwStep = "pc" /\ fwStep' = "start" /\ fwAt \in 1 .. 5
      /\ Behind' = Sections /\ Behind = Sections
      /\ UNCHANGED <<fwAt, rv2p, scratch, running>>
      /\ pcReg \in [Cpus -> Nat]
      /\ pcReg' = [pcReg EXCEPT ![initCpus[fwAt].cpu] = fw.mips[initCpus[fwAt].cpu].start]
  BY DEF CpuInv, FirmwareTypeOK, SetPc, This, Behind
<1>2. initCpus[fwAt].cpu \in Cpus /\ fw.mips[initCpus[fwAt].cpu].start \in Nat
  BY <1>1, CpusAre, FitCpu DEF Fit, StartsInText
<1>3. FirmwareTypeOK' /\ pcReg'[initCpus[fwAt].cpu] = fw.mips[initCpus[fwAt].cpu].start
  BY <1>1, <1>2 DEF CpuInv, FirmwareTypeOK
<1>4. ASSUME NEW i \in 1 .. 5, i < fwAt PROVE Up(i)'
  <2>1. Up(i) /\ initCpus[i].cpu # initCpus[fwAt].cpu
    BY <1>1, <1>4, CpusAre DEF CpuInv, Loading
  <2>2. pcReg'[initCpus[i].cpu] = pcReg[initCpus[i].cpu]
    BY <1>1, <2>1, CpusAre
  <2>3. QED
    BY <1>1, <2>1, <2>2 DEF Up, Present
<1>5. (\A s \in Sections : Present(fwAt, s)') /\ initCpus[fwAt].cpu \notin running
  BY <1>1 DEF CpuInv, Present, Loading
<1>6. QED
  BY <1>1, <1>3, <1>4, <1>5 DEF CpuInv, Loading

LEMMA CpuStart ==
  ASSUME CpuInv, StartCpu, fw' = fw
  PROVE CpuInv'
<1>1. /\ fwStep = "start" /\ fwAt \in 1 .. 5 /\ Behind = Sections
      /\ running' = running \cup {initCpus[fwAt].cpu}
      /\ UNCHANGED <<rv2p, scratch, pcReg>>
      /\ IF fwAt = 5 THEN fwStep' = "done" /\ UNCHANGED fwAt
                     ELSE fwStep' = "stop" /\ fwAt' = fwAt + 1
  BY DEF CpuInv, FirmwareTypeOK, StartCpu, This, Behind
<1>2. FirmwareTypeOK'
  <2>1. running' \subseteq Cpus
    BY <1>1, CpusAre DEF CpuInv, FirmwareTypeOK
  <2>2. fwStep' \in {"stop", "done"} /\ fwAt' \in 1 .. 5
    BY <1>1
  <2>3. QED
    BY <1>1, <2>1, <2>2 DEF CpuInv, FirmwareTypeOK
<1>3. \A i \in 1 .. 5 : i < fwAt => Up(i)'
  BY <1>1 DEF CpuInv, Loading, Up, Present
<1>4. \A i \in 1 .. 5 : i = fwAt => Up(i)'
  BY <1>1 DEF CpuInv, Up, Present
<1>5. CASE fwAt = 5
  <2>1. fwStep' = "done" /\ fwAt' = 5 /\ Behind' = Sections /\ Up(5)'
    BY <1>1, <1>4, <1>5 DEF Behind
  <2>2. \A s \in Behind' : Present(5, s)'
    BY <2>1 DEF Up
  <2>3. QED
    BY <1>2, <1>3, <1>5, <2>1, <2>2 DEF CpuInv, Loading
<1>6. CASE fwAt # 5
  <2>1. fwStep' = "stop" /\ fwAt' = fwAt + 1 /\ Behind' = {}
    BY <1>1, <1>6 DEF Behind
  <2>2. \A i \in 1 .. 5 : i < fwAt' => Up(i)'
    BY <1>1, <1>3, <1>4, <2>1
  <2>3. QED
    BY <1>2, <2>1, <2>2 DEF CpuInv, Loading
<1>7. QED
  BY <1>5, <1>6

LEMMA CpuStep ==
  ASSUME CpuInv, [NextAll]_allVars
  PROVE CpuInv'
<1>1. fw' = fw
  BY SameImages
<1>2. CASE Reset
  BY <1>2, CpuReset DEF Reset
<1>3. CASE SetupCpus
  <2>1. {"text", "data", "roData"} \subseteq Sections
    BY DEF Sections
  <2>2. QED
    BY <1>1, <1>3, <2>1, CpuBegin, CpuStop, CpuSection, CpuSetPc, CpuStart DEF SetupCpus, LoadNext
<1>4. CASE UNCHANGED cpuVars
  BY <1>1, <1>4, CpuSame
<1>5. QED
  BY <1>2, <1>3, <1>4, CpuSteps

LEMMA CpuInvariant == SpecAll => []CpuInv
<1>1. InitAll => CpuInv
  BY DEF InitAll, FirmwareInit, CpuInv, FirmwareTypeOK, Loading, Behind
<1>2. CpuInv /\ [NextAll]_allVars => CpuInv'
  BY CpuStep
<1>3. QED
  BY <1>1, <1>2, PTL DEF SpecAll

\* No processor runs while initCpu (Private.cpp:553) writes its memory, or
\* without its whole image; the sections of the five leave each other alone;
\* and when initCpus returns all five run the image of this chip.
THEOREM FirmwareRunsTheorem == SpecAll => []FirmwareRuns
<1>1. ASSUME CpuInv, NEW i \in 1 .. 5, Up(i) PROVE Whole(fw, initCpus[i])
  <2> DEFINE e == fw.mips[initCpus[i].cpu]
  <2>1. Fit(e)
    BY FitCpu
  <2>2. ASSUME NEW s \in Sections, e[s].length > 0
        PROVE /\ e[s].address >= mipsViewBase
              /\ \E p \in scratch :
                   /\ p.fw = fw.name /\ p.cpu = initCpus[i].cpu /\ p.section = s
                   /\ p.from - initCpus[i].reg.spadBase = e[s].address - mipsViewBase
    <3> DEFINE p == Placed(fw, initCpus[i], s)
    <3>1. p \in scratch
      BY <1>1, <2>2 DEF Up, Present
    <3>2. /\ p.fw = fw.name /\ p.cpu = initCpus[i].cpu /\ p.section = s
          /\ p.from = Base(i) + (e[s].address - mipsViewBase)
      BY DEF Placed, Base
    <3>3. e[s].address \in Nat /\ e[s].address >= mipsViewBase
      BY <2>1, <2>2, FitSection
    <3>4. mipsViewBase \in Nat /\ Base(i) \in Nat
      BY SMT, Bases DEF mipsViewBase
    <3> HIDE DEF p
    <3>5. p.from - Base(i) = e[s].address - mipsViewBase
      BY SMT, <3>2, <3>3, <3>4
    <3>6. QED
      BY <3>1, <3>2, <3>3, <3>5 DEF Base
  <2>3. pcReg[initCpus[i].cpu] \in e.text.address .. e.text.address + e.text.length - 4
    BY <1>1, <2>1 DEF Up, Fit, StartsInText
  <2>4. QED
    BY <2>2, <2>3 DEF Whole, Sections
<1>2. ASSUME CpuInv PROVE FirmwareRuns
  <2>1. ASSUME NEW i \in Begun, initCpus[i].cpu \in running PROVE Up(i)
    <3>1. i \in 1 .. 5 /\ fwStep \in Loading /\ fwAt \in 1 .. 5
      BY <1>2 DEF Begun, Loading, CpuInv, FirmwareTypeOK
    <3>2. CASE i < fwAt
      BY <1>2, <3>1, <3>2 DEF CpuInv
    <3>3. CASE i = fwAt
      BY <1>2, <2>1, <3>1, <3>3 DEF CpuInv, Loading, Begun
    <3>4. QED
      BY <3>1, <3>2, <3>3 DEF Begun
  <2>2. fwStep = "done" => running = Cpus
    <3> SUFFICES ASSUME fwStep = "done" PROVE running = Cpus
      OBVIOUS
    <3>1. fwAt = 5 /\ Up(5) /\ (\A i \in 1 .. 5 : i < fwAt => Up(i)) /\ running \subseteq Cpus
      BY <1>2 DEF CpuInv, Loading, FirmwareTypeOK
    <3>2. \A i \in 1 .. 5 : Up(i)
      BY <3>1
    <3>3. \A i \in 1 .. 5 : initCpus[i].cpu \in running
      BY <3>2 DEF Up
    <3>4. ASSUME NEW c \in Cpus PROVE c \in running
      <4>1. PICK i \in 1 .. 5 : initCpus[i].cpu = c
        BY CpusAre
      <4>2. QED
        BY <3>3, <4>1
    <3>5. QED
      BY <3>1, <3>4
  <2>3. Begun \subseteq 1 .. 5
    BY DEF Begun
  <2>4. QED
    BY <1>1, <1>2, <2>1, <2>2, <2>3 DEF FirmwareRuns, RunningWhole
<1>3. QED
  BY <1>2, CpuInvariant, PTL
-----------------------------------------------------------------------------
(***************************************************************************)
(* The instruction with the page size.                                     *)
(***************************************************************************)
PatchedCode(code) == code.page = 1023 /\ code.high = 2 * code.instr /\ code.low = 2 * code.instr + 1

LEMMA FixedCode == \A p \in {1, 2} : PatchedCode(Fixed(fw.rv2p[p]))
<1>1. fw.rv2p \in {Rv2p06, Rv2p09, Rv2p09ax}
  BY DEF fw, Images
<1>2. \A code \in {Rv2p06, Rv2p09, Rv2p09ax}, p \in {1, 2} :
         /\ code[p].fixup * 4 < code[p].length
         /\ code[p].fixup \in {9, 5}
  BY SMT DEF Rv2p06, Rv2p09, Rv2p09ax
<1>3. ASSUME NEW e, e.fixup * 4 < e.length, e.fixup \in {9, 5} PROVE PatchedCode(Fixed(e))
  <2>1. RV2P_BD_PAGE_SIZE = 1023
    BY SMT DEF RV2P_BD_PAGE_SIZE
  <2>2. Fixed(e) = [high |-> e.fixup - 1, low |-> e.fixup, instr |-> e.fixup \div 2,
                    page |-> 1023]
    BY <1>3, <2>1 DEF Fixed
  <2>3. QED
    BY <1>3, <2>2 DEF PatchedCode
<1>4. QED
  BY <1>1, <1>2, <1>3

\* What makes the firmware's part of PageSizeAgrees inductive.
PatchInv ==
  /\ DOMAIN rv2p = {1, 2}
  /\ fwStep = "rv2p" => fwAt \in {1, 2} /\ (fwAt = 2 => PatchedCode(rv2p[1]))
  /\ fwStep \in Loading => PatchedCode(rv2p[1]) /\ PatchedCode(rv2p[2])

LEMMA PatchStep ==
  ASSUME CpuInv, PatchInv, [NextAll]_allVars
  PROVE PatchInv'
<1>1. CASE Reset
  BY <1>1 DEF Reset, CpusReset, PatchInv, Loading
<1>2. CASE UNCHANGED cpuVars
  BY <1>2 DEF PatchInv, PatchedCode, cpuVars
<1>3. CASE LoadBegin
  BY <1>3 DEF LoadBegin, PatchInv, Loading
<1>4. CASE LoadRv2p(fw)
  <2>1. fwStep = "rv2p" /\ fwAt \in {1, 2} /\ DOMAIN rv2p = {1, 2}
        /\ rv2p' = [rv2p EXCEPT ![fwAt] = Fixed(fw.rv2p[fwAt])]
    BY <1>4 DEF LoadRv2p, PatchInv
  <2>2. CASE fwAt = 1
    <3>1. fwStep' = "rv2p" /\ fwAt' = 2 /\ rv2p'[1] = Fixed(fw.rv2p[1]) /\ DOMAIN rv2p' = {1, 2}
      BY <1>4, <2>1, <2>2 DEF LoadRv2p
    <3>2. PatchedCode(rv2p'[1])
      BY <3>1, FixedCode
    <3>3. QED
      BY <3>1, <3>2 DEF PatchInv, Loading
  <2>3. CASE fwAt = 2
    <3>1. /\ fwStep' = "stop" /\ rv2p'[2] = Fixed(fw.rv2p[2]) /\ rv2p'[1] = rv2p[1]
          /\ DOMAIN rv2p' = {1, 2}
      BY <1>4, <2>1, <2>3 DEF LoadRv2p
    <3>2. PatchedCode(rv2p'[1]) /\ PatchedCode(rv2p'[2])
      BY <2>1, <2>3, <3>1, FixedCode DEF PatchInv
    <3>3. QED
      BY <3>1, <3>2 DEF PatchInv, Loading
  <2>4. QED
    BY <2>1, <2>2, <2>3
<1>5. CASE \/ StopCpu \/ SetPc(fw) \/ StartCpu \/ LoadSection(fw, "text", "data")
           \/ LoadSection(fw, "data", "roData") \/ LoadSection(fw, "roData", "pc")
  <2>1. rv2p' = rv2p /\ fwStep \in Loading /\ fwStep' \in Loading /\ fwStep' # "rv2p"
    BY <1>5 DEF StopCpu, SetPc, StartCpu, LoadSection, Loading
  <2>2. QED
    BY <2>1 DEF PatchInv
<1>6. QED
  BY <1>1, <1>2, <1>3, <1>4, <1>5, CpuSteps DEF SetupCpus, LoadNext

\* Once initControllerChip (Controller.cpp:239) is done, the chip's registers
\* and the instruction of the RV2P firmware agree on the size of the rings' pages.
THEOREM PageSizeAgreesTheorem == SpecAll => []PageSizeAgrees
<1>1. InitAll => PatchInv
  BY DEF InitAll, FirmwareInit, NoCode, PatchInv, Loading
<1>2. CpuInv /\ PatchInv /\ [NextAll]_allVars => PatchInv'
  BY PatchStep
<1>3. ASSUME CpuInv, PatchInv, SetupInv PROVE PageSizeAgrees
  <2>1. 2^PAGE_BITS \div 16 - 1 = 1023 /\ 2^PAGE_BITS = 16384
    BY SMT DEF PAGE_BITS
  <2>2. fwStep \notin {"none", "rv2p"} => fwStep \in Loading
    BY <1>3 DEF CpuInv, FirmwareTypeOK, Loading
  <2>3. PageSizePatched(1023)
    BY <1>3, <2>2 DEF PatchInv, PatchedCode, PageSizePatched
  <2>4. TBDR_CONFIG_PAGE_SIZE[6] = 16384 /\ RV2P_CONFIG_PAGE_SIZE[6] = 16384
    BY SMT DEF TBDR_CONFIG_PAGE_SIZE, RV2P_CONFIG_PAGE_SIZE
  <2>5. QED
    BY <1>3, <2>1, <2>3, <2>4 DEF PageSizeAgrees, SetupInv, PagesSet
<1>4. QED
  BY <1>1, <1>2, <1>3, CpuInvariant, SetupInvariant, PTL DEF SpecAll
-----------------------------------------------------------------------------
(***************************************************************************)
(* The words of the rings' contexts.                                       *)
(***************************************************************************)
LEMMA Words ==
  /\ ContextWords("tx") = {2048 + w : w \in TxWords}
  /\ ContextWords("rx") = RxWords
  /\ ContextWords("tx") \cap ContextWords("rx") = {}
  /\ \A word \in ContextWords("tx") \cup ContextWords("rx") :
       /\ word \in 0 .. 2652
       /\ chipId.num # 5709 => word \in 0 .. 2212
<1>1. TxWords \subseteq 0 .. 604 /\ (chipId.num # 5709 => TxWords \subseteq 0 .. 164)
  BY SMT DEF TxWords
<1>2. RxWords \subseteq 0 .. 20
  BY SMT DEF RxWords
<1>3. ContextWords("tx") = {2048 + w : w \in TxWords}
  BY SMT DEF ContextWords, GET_CID_ADDR, TX_CID
<1>4. ContextWords("rx") = RxWords
  <2>1. GET_CID_ADDR(RX_CID) = 0 /\ \A w \in RxWords : 0 + w = w
    BY SMT, <1>2 DEF GET_CID_ADDR, RX_CID
  <2>2. ContextWords("rx") = {0 + w : w \in RxWords}
    BY <2>1 DEF ContextWords
  <2>3. QED
    BY <2>1, <2>2
<1>5. ASSUME NEW word \in ContextWords("tx")
      PROVE word \in 2048 .. 2652 /\ (chipId.num # 5709 => word \in 2048 .. 2212)
  <2>1. PICK w \in TxWords : word = 2048 + w
    BY <1>3
  <2>2. w \in 0 .. 604 /\ (chipId.num # 5709 => w \in 0 .. 164)
    BY <1>1
  <2>3. QED
    BY <2>1, <2>2
<1>6. \A word \in ContextWords("rx") : word \in 0 .. 20
  BY <1>2, <1>4
<1>7. ContextWords("tx") \cap ContextWords("rx") = {}
  <2> SUFFICES ASSUME NEW word \in ContextWords("tx"), word \in ContextWords("rx") PROVE FALSE
    OBVIOUS
  <2>1. word \in Int /\ word >= 2048 /\ word <= 20
    BY <1>5, <1>6
  <2>2. QED
    BY <2>1
<1>8. ASSUME NEW word \in ContextWords("tx") \cup ContextWords("rx")
      PROVE word \in 0 .. 2652 /\ (chipId.num # 5709 => word \in 0 .. 2212)
  BY <1>5, <1>6
<1>9. QED
  BY <1>3, <1>4, <1>7, <1>8

\* The words that initTxRing and initRxRing (TransmitReceive.cpp) write to the
\* contexts go to memory that initContext has prepared, each to its own place.
THEOREM ContextsHoldTheorem == SpecAll => []ContextsHold
<1>1. ASSUME DmaInv, SetupInv, CtxInv, is5709 <=> chipId.num = 5709
      PROVE ContextsHold
  <2> SUFFICES ASSUME Started, NEW word \in ContextWords("tx") \cup ContextWords("rx")
               PROVE IF is5709
                     THEN LET page == word \div CTX_COMMAND_PAGE_SIZE[PageSizeCode]
                          IN  page \in HostPages /\ hostTable[page] # {}
                     ELSE /\ pageTable[word \div 64] = word \div 64
                          /\ word \div 64 \in cleared
    BY Words DEF ContextsHold
  <2>1. ctxStep = "ready"
    BY <1>1 DEF DmaInv, SetupInv
  <2>2. word \in 0 .. 2652 /\ (chipId.num # 5709 => word \in 0 .. 2212)
    BY Words
  <2>3. CASE is5709
    <3>0. 0 \in HostPages
      BY CtxPositive DEF HostPages
    <3>1. word \div 4096 = 0
      BY <2>2
    <3>2. hostTable[0] = {0 * 4096}
      BY <1>1, <2>1, <2>3, <3>0 DEF CtxInv
    <3>3. QED
      BY <2>3, <3>0, <3>1, <3>2, PageSizes
  <2>4. CASE ~is5709
    <3>1. chipId.num # 5709
      BY <1>1, <2>4
    <3>2. word \in 0 .. 2212
      BY <2>2, <3>1
    <3>3. word \div 64 \in Pages
      <4>1. word \div 64 \in 0 .. 34
        BY <3>2
      <4>2. QED
        BY <4>1, ContextWordsAssumption, CtxPositive DEF Pages
    <3>4. QED
      BY <1>1, <2>1, <2>4, <3>3 DEF CtxInv
  <2>5. QED
    BY <2>3, <2>4
<1>2. QED
  BY <1>1, DmaInvariant, SetupInvariant, CtxInvariant, KnownChip, PTL
-----------------------------------------------------------------------------
(***************************************************************************)
(* The types.                                                              *)
(***************************************************************************)
\* A register is polled no more often than the code says.
CtxTypes ==
  /\ ContextTypeOK
  /\ ctxStep \in {"mem", "pageWait"} => ctxTry < CtxPolls

LEMMA CtxTypesStep ==
  ASSUME CtxInv, CtxInv', CtxTypes, [NextAll]_allVars
  PROVE CtxTypes'
<1> USE CtxPositive
<1>0. CtxPolls \in Nat /\ CtxPolls > 0
  BY ContextAssumption
<1>1. hostTable' \in [HostPages -> SUBSET Nat] /\ pageTable' \in [Pages -> Pages]
  BY DEF CtxInv
<1>2. CASE UNCHANGED ctxVars
  BY <1>2 DEF CtxTypes, ContextTypeOK, ctxVars
<1>3. CASE Reset
  BY <1>0, <1>1, <1>3 DEF Reset, ContextReset, CtxTypes, ContextTypeOK
<1>4. CASE SetupBegin
  <2>1. ctxTry' = 0 /\ cleared' = cleared /\ ctxStep' \in {"mem", "virt"}
        /\ ctxPage' \in {0, VirtPages}
    BY <1>4 DEF SetupBegin, ContextBegin
  <2>2. QED
    BY <1>0, <1>1, <2>1 DEF CtxTypes, ContextTypeOK
<1>5. CASE SetupContext
  <2>1. CASE ContextBusy
    BY <1>0, <1>1, <2>1 DEF ContextBusy, CtxTypes, ContextTypeOK
  <2>2. CASE MemInitDone \/ PageWrite
    BY <1>0, <1>1, <2>2 DEF MemInitDone, PageWrite, CtxTypes, ContextTypeOK
  <2>3. CASE PageDone
    <3>1. /\ ctxPage \in HostPages /\ ctxPage' = ctxPage + 1 /\ ctxStep' \in {"page", "ready"}
          /\ UNCHANGED <<ctxTry, cleared>>
      BY <2>3 DEF PageDone, CtxInv
    <3>2. ctxPage' \in 0 .. CtxPages + VirtPages
      BY <3>1 DEF HostPages
    <3>3. QED
      BY <1>1, <3>1, <3>2 DEF CtxTypes, ContextTypeOK
  <2>4. CASE ClearPage
    <3>1. /\ ctxPage \in 1 .. VirtPages /\ ctxPage' = ctxPage - 1
          /\ ctxStep' \in {"virt", "ready"} /\ UNCHANGED ctxTry
      BY <2>4 DEF ClearPage, CtxInv
    <3>2. 0 \in Pages /\ ctxPage' \in Pages /\ ctxPage' \in 0 .. CtxPages + VirtPages
      BY <3>1 DEF Pages
    <3>3. cleared' = cleared \cup {ctxPage'}
      BY <2>4, <3>2 DEF ClearPage, CtxInv
    <3>4. QED
      BY <1>1, <3>1, <3>2, <3>3 DEF CtxTypes, ContextTypeOK
  <2>5. QED
    BY <1>5, <2>1, <2>2, <2>3, <2>4 DEF SetupContext, ContextNext
<1>6. QED
  BY <1>2, <1>3, <1>4, <1>5 DEF NextAll, CallAll, BufferBegin, BufferStep, PrepareFails, Hold,
     SetupFails, SetupCpus, SetupEnd, Starting, EnableEnd, CallOnly, EnableBegin, FreeAll,
     Promiscuous, partVars, allVars

LEMMA SetupTypesStep ==
  ASSUME SetupTypeOK, SetupInv, SetupInv', [NextAll]_allVars
  PROVE SetupTypeOK'
<1> DEFINE bits == 0 .. 31
           Given == [Names -> Names \cup {"none", "torn"}]
<1>1. /\ chipId' = chipId /\ chipId \in Chips /\ blocks \subseteq bits /\ coreDma \in BOOLEAN
      /\ given \in Given
      /\ startStep \in {"none", "tx", "rx", "up"}
  BY SameChip DEF SetupTypeOK
<1>2. DOMAIN regs' = DOMAIN NoRegs
  BY DEF SetupInv, NoRegs
<1>3. /\ NotGiven \in Given
      /\ \A n \in Names : [given EXCEPT ![n] = n] \in Given /\ [given EXCEPT ![n] = "torn"] \in Given
      /\ [given EXCEPT !["status"] = "status", !["stats"] = "stats"] \in Given
  BY <1>1 DEF NotGiven, Names
<1>4. /\ MISC_ENABLE_DEFAULT \subseteq bits /\ MISC_ENABLE_DEFAULT_XI \subseteq bits
      /\ {HOST_COALESCE, RX_V2P, CONTEXT} \subseteq bits
  BY DEF MISC_ENABLE_DEFAULT, MISC_ENABLE_DEFAULT_XI, HOST_COALESCE, RX_V2P, CONTEXT
<1> HIDE DEF bits, Given
<1>5. blocks' \subseteq bits /\ coreDma' \in BOOLEAN
  <2>1. CASE Hold
    BY <1>1, <2>1 DEF Hold, HoldDma
  <2>2. CASE Reset
    BY <1>1, <2>2 DEF Reset, SetupReset
  <2>3. CASE SetupBegin
    BY <1>1, <1>4, <2>3 DEF SetupBegin, EnableContext
  <2>4. CASE SetupEnd
    BY <1>1, <2>4 DEF SetupEnd, GiveBlocks
  <2>5. CASE EnableBegin
    BY <1>1, <2>5 DEF EnableBegin, StopController
  <2>6. CASE Starting
    <3>1. CASE EnableBlocks
      <4>1. \/ blocks' = blocks \cup MISC_ENABLE_DEFAULT
            \/ blocks' = blocks \cup MISC_ENABLE_DEFAULT_XI
        BY <3>1 DEF EnableBlocks
      <4>2. coreDma' = coreDma
        BY <3>1 DEF EnableBlocks
      <4>3. QED
        BY <1>1, <1>4, <4>1, <4>2
    <3>2. CASE InitTxRing \/ InitRxRing
      BY <1>1, <3>2 DEF InitTxRing, InitRxRing, dmaVars
    <3>3. QED
      BY <2>6, <3>1, <3>2 DEF Starting, StartStep
  <2>7. CASE \E active \in BOOLEAN : Promiscuous(active)
    BY <1>1, <2>7 DEF Promiscuous, SetPromiscuous, dmaVars
  <2>8. CASE TakeBack
    BY <1>1, <2>8 DEF TakeBack, dmaVars
  <2>9. QED
    BY <1>1, <2>1, <2>2, <2>3, <2>4, <2>5, <2>6, <2>7, <2>8, SetupSteps
       DEF setupVars, dmaVars
<1>6. /\ given' \in Given
      /\ startStep' \in {"none", "tx", "rx", "up"}
  <2>1. CASE Hold \/ SetupBegin \/ (\E active \in BOOLEAN : Promiscuous(active))
    <3>1. CASE Hold
      BY <1>1, <3>1 DEF Hold, HoldDma
    <3>2. CASE SetupBegin
      BY <1>1, <3>2 DEF SetupBegin, EnableContext
    <3>3. CASE \E active \in BOOLEAN : Promiscuous(active)
      BY <1>1, <3>3 DEF Promiscuous, SetPromiscuous
    <3>4. QED
      BY <2>1, <3>1, <3>2, <3>3
  <2>2. CASE Reset
    BY <1>1, <1>3, <2>2 DEF Reset, SetupReset
  <2>3. CASE SetupEnd
    BY <1>1, <1>3, <2>3 DEF SetupEnd, GiveBlocks
  <2>4. CASE EnableBegin
    BY <1>1, <2>4 DEF EnableBegin, StopController
  <2>5. CASE Starting
    <3>1. ASSUME NEW ring \in {"tx", "rx"}, WriteContext(ring)
          PROVE given' \in Given
      <4>1. ring \in Names
        BY DEF Names
      <4>2. \/ given' = [given EXCEPT ![ring] = ring]
            \/ given' = [given EXCEPT ![ring] = "torn"]
        BY <3>1 DEF WriteContext
      <4>3. QED
        BY <1>1, <1>3, <4>1, <4>2
    <3>2. CASE EnableBlocks
      BY <1>1, <3>2 DEF EnableBlocks
    <3>3. CASE InitTxRing
      BY <3>1, <3>3 DEF InitTxRing
    <3>4. CASE InitRxRing
      <4>1. \/ WriteContext("rx")
            \/ UNCHANGED given
        BY <3>4 DEF InitRxRing
      <4>2. startStep' = "up"
        BY <3>4 DEF InitRxRing
      <4>3. QED
        BY <1>1, <3>1, <4>1, <4>2
    <3>5. QED
      BY <2>5, <3>2, <3>3, <3>4 DEF Starting, StartStep
  <2>6. CASE TakeBack
    BY <1>1, <1>3, <2>6 DEF TakeBack
  <2>7. QED
    BY <1>1, <2>1, <2>2, <2>3, <2>4, <2>5, <2>6, SetupSteps DEF setupVars
<1>7. QED
  BY <1>1, <1>2, <1>5, <1>6 DEF SetupTypeOK, bits, Given

LEMMA BufTypes ==
  ASSUME TypeOK, LifeInv, BufInv
  PROVE BuffersTypeOK({"status", "stats", "tx", "rx", "context"})
<1>1. buffers \subseteq All /\ All \subseteq {"status", "stats", "tx", "rx", "context"}
  BY NeededIs DEF TypeOK, All, Four
<1>2. allocStep \in {"cmd", "segment"} => ThisBuffer \in All
  BY NextBuffer DEF BufInv, LifeInv, ThisBuffer
<1>3. QED
  BY <1>1, <1>2 DEF BufInv, BuffersTypeOK

\* The types of the driver's state and of what its parts keep.
THEOREM TypesAll == SpecAll => []TypeOKAll
<1>1. InitAll => CtxTypes
  <2> SUFFICES ASSUME InitAll PROVE CtxTypes
    OBVIOUS
  <2>1. hostTable \in [HostPages -> SUBSET Nat] /\ pageTable \in [Pages -> Pages]
    BY CtxPositive DEF InitAll, ContextInit, NoHostPages, Pages
  <2>2. CtxPolls \in Nat /\ ctxStep = "none" /\ ctxPage = 0 /\ ctxTry = 0 /\ cleared = {}
    BY ContextAssumption DEF InitAll, ContextInit
  <2>3. QED
    BY <2>1, <2>2, CtxPositive DEF CtxTypes, ContextTypeOK
<1>2. InitAll => SetupTypeOK
  <2> SUFFICES ASSUME InitAll PROVE SetupTypeOK
    OBVIOUS
  <2>1. blocks \subseteq 0 .. 31 /\ coreDma \in BOOLEAN
    BY DEF InitAll, SetupInit, MISC_ENABLE_DEFAULT_XI
  <2>2. DOMAIN regs = DOMAIN NoRegs
    <3>1. regs \in {NoRegs, OtherRegs}
      BY DEF InitAll, SetupInit
    <3>2. DOMAIN OtherRegs = DOMAIN NoRegs
      BY DEF NoRegs, OtherRegs
    <3>3. QED
      BY <3>1, <3>2
  <2>3. QED
    BY <2>1, <2>2 DEF InitAll, SetupInit, NotGiven, SetupTypeOK
<1>3. CtxInv /\ CtxInv' /\ CtxTypes /\ [NextAll]_allVars => CtxTypes'
  BY CtxTypesStep
<1>4. SetupTypeOK /\ SetupInv /\ SetupInv' /\ [NextAll]_allVars => SetupTypeOK'
  BY SetupTypesStep
<1>5. TypeOK /\ LifeInv /\ BufInv /\ CtxTypes /\ SetupTypeOK /\ CpuInv => TypeOKAll
  BY BufTypes DEF TypeOKAll, CtxTypes, CpuInv
<1>6. QED
  BY <1>1, <1>2, <1>3, <1>4, <1>5, LifecycleHolds, BufInvariant, CtxInvariant, SetupInvariant,
     CpuInvariant, PTL DEF SpecAll
-----------------------------------------------------------------------------
(***************************************************************************)
(* A call comes to its end: its position is of naturals, and every step of *)
(* it is nearer.                                                           *)
(***************************************************************************)
Waiting == {"wait0", "wait1", "wait2"}

LEMMA Stages ==
  /\ StagesLeft["open"] = 9 /\ StagesLeft["alloc"] = 8 /\ StagesLeft["wait0"] = 7
  /\ StagesLeft["reset"] = 6 /\ StagesLeft["wait1"] = 5 /\ StagesLeft["init"] = 4
  /\ StagesLeft["setup"] = 3 /\ StagesLeft["wait2"] = 2 /\ StagesLeft["finish"] = 1
BY DEF StagesLeft

LEMMA StageNat == Stage \in Nat /\ (pc \in Busy => Stage > 0)
BY Stages DEF Stage, Busy

LEMMA Counts ==
  /\ BufferLeft["ok"] = 4 /\ BufferLeft["desc"] = 3 /\ BufferLeft["cmd"] = 2
  /\ BufferLeft["segment"] = 1 /\ BufferLeft["failed"] = 0
  /\ SyncLeft["none"] = 2 /\ SyncLeft["poll"] = 1 /\ SyncLeft["ok"] = 0
  /\ SyncLeft["failed"] = 0
  /\ StartLeft["none"] = 3 /\ StartLeft["tx"] = 2 /\ StartLeft["rx"] = 1
  /\ StartLeft["up"] = 0
  /\ CpuLeft["stop"] = 6 /\ CpuLeft["text"] = 5 /\ CpuLeft["data"] = 4
  /\ CpuLeft["roData"] = 3 /\ CpuLeft["pc"] = 2 /\ CpuLeft["start"] = 1
BY DEF BufferLeft, SyncLeft, StartLeft, CpuLeft

\* What the position is at each stage that has several steps.
LEMMA AtAlloc ==
  pc = "alloc" => /\ Work = Len(Needed) - Cardinality(buffers)
                  /\ Turns = BufferLeft[allocStep]
BY DEF Work, Turns

LEMMA AtWait == pc \in Waiting => Work = SyncLeft[sync] /\ Turns = MaxPolls - polls
BY DEF Work, Turns, Waiting

LEMMA AtSetup ==
  pc = "setup" =>
    /\ Work = PagesLeft
    /\ ctxStep \in {"mem", "pageWait"} => Turns = CtxPolls - ctxTry
    /\ ctxStep = "page" => Turns = CtxPolls + 1
    /\ ctxStep = "ready" => Turns = CpusLeft
    /\ ctxStep \notin {"mem", "pageWait", "page", "ready"} => Turns = 0
BY DEF Work, Turns

LEMMA AtFinish == pc = "finish" => Work = StartLeft[startStep] /\ Turns = 0
BY DEF Work, Turns

LEMMA Elsewhere ==
  pc \notin {"alloc", "setup", "finish"} \cup Waiting => Work = 0 /\ Turns = 0
BY DEF Work, Turns, Waiting

LEMMA CpusLeftNat ==
  ASSUME FirmwareTypeOK
  PROVE CpusLeft \in Nat
<1>1. fwAt \in 1 .. 5
  BY DEF FirmwareTypeOK
<1>2. CASE fwStep \in {"none", "rv2p", "done"}
  BY <1>1, <1>2 DEF CpusLeft
<1>3. CASE fwStep \in {"stop", "text", "data", "roData", "pc", "start"}
  <2>1. CpusLeft = 6 * (5 - fwAt) + CpuLeft[fwStep] /\ CpuLeft[fwStep] \in 1 .. 6
    BY <1>3, Counts DEF CpusLeft
  <2>2. QED
    BY <1>1, <2>1
<1>4. QED
  BY <1>2, <1>3 DEF FirmwareTypeOK

LEMMA PositionNat ==
  ASSUME TypeOKAll, LifeInv, BufInv, CtxInv
  PROVE Position \in Nat \X Nat \X Nat
<1>1. Work \in Nat /\ Turns \in Nat
  <2>1. CASE pc = "alloc"
    <3>1. Cardinality(buffers) + 1 \in 1 .. Len(Needed) /\ Len(Needed) \in Nat
      BY <2>1, NextBuffer, NeededIs DEF LifeInv
    <3>2. Cardinality(buffers) \in Nat
      BY <2>1, PartialCards DEF LifeInv, Partial, Four
    <3>3. BufferLeft[allocStep] \in Nat
      BY Counts DEF BufInv
    <3>4. QED
      BY <2>1, <3>1, <3>2, <3>3, AtAlloc
  <2>2. CASE pc \in Waiting
    <3>1. SyncLeft[sync] \in Nat /\ MaxPolls - polls \in Nat
      BY Counts, SyncAssumption DEF TypeOKAll, TypeOK, SyncTypeOK
    <3>2. QED
      BY <2>2, <3>1, AtWait
  <2>3. CASE pc = "setup"
    <3>1. PagesLeft \in Nat
      BY CtxPositive DEF PagesLeft, CtxInv, HostPages
    <3>2. CtxPolls - ctxTry \in Nat /\ CtxPolls + 1 \in Nat
      BY ContextAssumption DEF TypeOKAll, ContextTypeOK
    <3>3. QED
      BY <2>3, <3>1, <3>2, CpusLeftNat, AtSetup DEF TypeOKAll
  <2>4. CASE pc = "finish"
    BY <2>4, Counts, AtFinish DEF TypeOKAll, SetupTypeOK
  <2>5. QED
    BY <2>1, <2>2, <2>3, <2>4, Elsewhere
<1>2. QED
  BY <1>1, StageNat DEF Position

\* The three ways to come nearer.
LEMMA StageDrops ==
  ASSUME pc \in Busy, pc' \notin Busy \/ StagesLeft[pc'] < StagesLeft[pc]
  PROVE Nearer(Position', Position)
<1>1. Stage' < Stage
  BY StageNat DEF Stage
<1>2. QED
  BY <1>1 DEF Position, Nearer

LEMMA WorkDrops == ASSUME pc' = pc, Work' < Work PROVE Nearer(Position', Position)
<1>1. Stage' = Stage
  BY DEF Stage
<1>2. QED
  BY <1>1 DEF Position, Nearer

LEMMA TurnsDrop ==
  ASSUME pc' = pc, Work' = Work, Turns' < Turns
  PROVE Nearer(Position', Position)
<1>1. Stage' = Stage
  BY DEF Stage
<1>2. QED
  BY <1>1 DEF Position, Nearer

\* The steps that end a stage, and where they lead.
LEMMA StageEnds ==
  ASSUME \/ Open \/ OpenFails \/ PrepareFails \/ Reset \/ ResetStuck
         \/ Answered("wait0", "reset") \/ NotAnswered("wait0")
         \/ Answered("wait1", "init") \/ NotAnswered("wait1")
         \/ SetupBegin \/ SetupFails \/ SetupEnd \/ Wait2Over \/ Attach \/ EnableEnd
  PROVE Nearer(Position', Position)
<1>1. CASE Open \/ OpenFails \/ PrepareFails
  <2>1. \/ pc = "open" /\ pc' \in {"alloc", "failed"}
        \/ pc = "alloc" /\ pc' = "failed"
    BY <1>1 DEF Open, OpenFails, PrepareFails, AllocFails
  <2>2. QED
    BY <2>1, Stages, StageDrops DEF Busy
<1>2. CASE Answered("wait0", "reset") \/ NotAnswered("wait0")
  <2>1. pc = "wait0" /\ pc' \in {"reset", "failed", "idle"}
    BY <1>2 DEF Answered, NotAnswered, GiveUp
  <2>2. QED
    BY <2>1, Stages, StageDrops DEF Busy
<1>3. CASE Reset \/ ResetStuck
  <2>1. pc = "reset" /\ pc' \in {"wait1", "failed", "idle"}
    BY <1>3 DEF Reset, ResetChip, ResetBadSwap, ResetStuck, GiveUp
  <2>2. QED
    BY <2>1, Stages, StageDrops DEF Busy
<1>4. CASE Answered("wait1", "init") \/ NotAnswered("wait1")
  <2>1. pc = "wait1" /\ pc' \in {"init", "failed", "idle"}
    BY <1>4 DEF Answered, NotAnswered, GiveUp
  <2>2. QED
    BY <2>1, Stages, StageDrops DEF Busy
<1>5. CASE SetupBegin \/ SetupFails \/ SetupEnd
  <2>1. \/ pc = "init" /\ pc' = "setup"
        \/ pc = "setup" /\ pc' \in {"wait2", "failed", "idle"}
    BY <1>5 DEF SetupBegin, SetupFails, SetupEnd, InitMask, InitChip, InitChipFails, GiveUp
  <2>2. QED
    BY <2>1, Stages, StageDrops DEF Busy
<1>6. CASE Wait2Over \/ Attach \/ EnableEnd
  <2>1. \/ pc = "wait2" /\ pc' = "finish"
        \/ pc = "finish" /\ pc' \in {"idle", "failed"}
    BY <1>6 DEF Wait2Over, Attach, EnableEnd, Enabled
  <2>2. QED
    BY <2>1, Stages, StageDrops DEF Busy
<1>7. QED
  BY <1>1, <1>2, <1>3, <1>4, <1>5, <1>6

\* The buffers: three steps each, and one buffer more.
LEMMA BufferNearer ==
  ASSUME LifeInv, BufferBegin \/ BufferStep
  PROVE Nearer(Position', Position)
<1>1. pc = "alloc" /\ buffers \in Partial
  BY DEF BufferBegin, BufferStep, LifeInv
<1>2. CASE UNCHANGED vars
  <2>1. pc' = "alloc" /\ Work' = Work
    BY <1>1, <1>2, AtAlloc DEF vars, envVars, osVars, Work, Needed
  <2>2. \/ allocStep = "ok" /\ allocStep' = "desc"
        \/ allocStep = "desc" /\ allocStep' \in {"cmd", "failed"}
        \/ allocStep = "cmd" /\ allocStep' \in {"segment", "failed"}
        \/ allocStep = "segment" /\ allocStep' \in {"ok", "failed"}
    BY DEF BufferBegin, BufferStep, AllocBegin, AllocStep, AllocDesc, AllocCmd, AllocSegment
  <2>3. ~(allocStep = "segment" /\ allocStep' = "ok")
    <3>1. Alloc => buffers' # buffers
      BY <1>1, NextBuffer DEF Alloc
    <3>2. QED
      BY <1>2, <3>1 DEF BufferBegin, BufferStep, AllocBegin, vars, osVars
  <2>4. BufferLeft[allocStep'] < BufferLeft[allocStep]
    BY <2>2, <2>3, Counts
  <2>5. Turns' = BufferLeft[allocStep'] /\ Turns = BufferLeft[allocStep]
    BY <1>1, <2>1 DEF Turns
  <2>6. QED
    BY <1>1, <2>1, <2>4, <2>5, TurnsDrop
<1>3. CASE Alloc
  <2> DEFINE i == Cardinality(buffers) + 1
  <2>1. /\ buffers' = buffers \cup {Needed[i]} /\ is5709' = is5709
        /\ pc' = IF i = Len(Needed) THEN "wait0" ELSE "alloc"
    BY <1>3 DEF Alloc, envVars
  <2>2. CASE i = Len(Needed)
    BY <1>1, <2>1, <2>2, Stages, StageDrops DEF Busy
  <2>3. CASE i # Len(Needed)
    <3>1. Needed[i] \notin buffers /\ i \in 1 .. Len(Needed) /\ Len(Needed) \in Nat
      BY <1>1, NextBuffer, NeededIs
    <3>2. IsFiniteSet(buffers) /\ Cardinality(buffers) \in Nat
      BY <1>1, PartialFinite
    <3>3. Cardinality(buffers') = Cardinality(buffers) + 1
      BY <2>1, <3>1, <3>2, FS_AddElement
    <3>4. pc' = "alloc" /\ Work' = Len(Needed) - Cardinality(buffers') /\ Needed' = Needed
      BY <2>1, <2>3 DEF Work, Needed
    <3>5. Work' < Work
      BY <1>1, <3>1, <3>2, <3>3, <3>4, AtAlloc
    <3>6. QED
      BY <1>1, <3>4, <3>5, WorkDrops
  <2>4. QED
    BY <2>2, <2>3
<1>4. QED
  BY <1>2, <1>3 DEF BufferBegin, BufferStep

\* A call of firmwareSync: its message, and so many polls.
LEMMA SyncNearer ==
  ASSUME TypeOKAll, LifeInv,
         Hold \/ Sync("wait1", "WAIT1") \/ Sync("wait2", "WAIT2") \/ SyncSteps
  PROVE Nearer(Position', Position)
<1>1. pc \in Waiting /\ pc' = pc
  <2>1. CASE Hold \/ Sync("wait1", "WAIT1") \/ Sync("wait2", "WAIT2")
    BY <2>1 DEF Hold, SyncReset, Sync, Waiting
  <2>2. CASE SyncSteps
    BY <2>2 DEF SyncSteps, SyncPoll, SyncTimeout, LifeInv, Waiting
  <2>3. QED
    BY <2>1, <2>2
<1>2. /\ Work = SyncLeft[sync] /\ Turns = MaxPolls - polls
      /\ Work' = SyncLeft[sync'] /\ Turns' = MaxPolls - polls'
  BY <1>1 DEF Work, Turns, Waiting
<1>3. \/ sync = "none" /\ sync' = "poll"
      \/ sync = "poll" /\ sync' \in {"ok", "failed"}
      \/ sync = "poll" /\ sync' = "poll" /\ polls' = polls + 1
  BY DEF Hold, SyncReset, Sync, SyncSend, SyncSteps, SyncPoll, SyncTimeout
<1>4. CASE sync' # sync
  BY <1>1, <1>2, <1>3, <1>4, Counts, WorkDrops
<1>5. CASE sync' = sync
  <2>1. polls \in Nat /\ MaxPolls \in Nat
    BY SyncAssumption DEF TypeOKAll, TypeOK, SyncTypeOK
  <2>2. polls' = polls + 1 /\ Work' = Work
    BY <1>2, <1>3, <1>5
  <2>3. Turns' < Turns
    BY <1>2, <2>1, <2>2
  <2>4. QED
    BY <1>1, <2>2, <2>3, TurnsDrop
<1>6. QED
  BY <1>4, <1>5

\* initContext: the pages, and the tries of each register.
LEMMA ContextNearer ==
  ASSUME TypeOKAll, CtxInv, SetupContext
  PROVE Nearer(Position', Position)
<1>1. pc = "setup" /\ pc' = "setup" /\ Work = PagesLeft /\ Work' = PagesLeft'
  BY DEF SetupContext, vars, Work
<1>2. /\ CtxPages \in Nat /\ CtxPages > 0 /\ CtxPolls \in Nat /\ CtxPolls > 0 /\ ctxTry \in Nat
      /\ ctxStep \in {"page", "pageWait"} => ctxPage \in 0 .. CtxPages - 1
      /\ ctxStep = "virt" => ctxPage \in Nat \ {0}
      /\ ctxStep = "mem" => ctxPage = 0
  BY ContextAssumption DEF TypeOKAll, ContextTypeOK, CtxInv, HostPages
<1>3. CASE ContextBusy
  <2>1. /\ ctxStep \in {"mem", "pageWait"} /\ ctxTry' = ctxTry + 1 /\ ctxPage' = ctxPage
        /\ ctxStep' \in {ctxStep, "failed"}
    BY <1>3 DEF ContextBusy
  <2>2. CASE ctxStep' = ctxStep
    <3>1. Work' = Work
      BY <1>1, <2>1, <2>2 DEF PagesLeft
    <3>2. Turns = CtxPolls - ctxTry /\ Turns' = CtxPolls - (ctxTry + 1)
      BY <1>1, <2>1, <2>2 DEF Turns
    <3>3. Turns' < Turns
      BY <1>2, <3>2
    <3>4. QED
      BY <1>1, <3>1, <3>3, TurnsDrop
  <2>3. CASE ctxStep' = "failed"
    <3>1. Work' = 0 /\ Work > 0
      BY <1>1, <1>2, <2>1, <2>3 DEF PagesLeft
    <3>2. QED
      BY <1>1, <3>1, WorkDrops
  <2>4. QED
    BY <2>1, <2>2, <2>3
<1>4. CASE MemInitDone
  <2>1. Work = CtxPages + 1 /\ Work' = CtxPages - 0
    BY <1>1, <1>2, <1>4 DEF MemInitDone, PagesLeft
  <2>2. QED
    BY <1>1, <1>2, <2>1, WorkDrops
<1>5. CASE PageWrite
  <2>1. ctxStep = "page" /\ ctxStep' = "pageWait" /\ ctxTry' = 0 /\ ctxPage' = ctxPage
    BY <1>5 DEF PageWrite
  <2>2. Work' = Work
    BY <1>1, <2>1 DEF PagesLeft
  <2>3. Turns = CtxPolls + 1 /\ Turns' = CtxPolls - 0
    BY <1>1, <2>1 DEF Turns
  <2>4. QED
    BY <1>1, <1>2, <2>2, <2>3, TurnsDrop
<1>6. CASE PageDone
  <2>1. ctxStep = "pageWait" /\ ctxPage' = ctxPage + 1 /\ ctxStep' \in {"page", "ready"}
    BY <1>6 DEF PageDone
  <2>2. Work = CtxPages - ctxPage /\ Work' \in {CtxPages - (ctxPage + 1), 0}
    BY <1>1, <2>1 DEF PagesLeft
  <2>3. Work' < Work
    BY <1>2, <2>1, <2>2
  <2>4. QED
    BY <1>1, <2>3, WorkDrops
<1>7. CASE ClearPage
  <2>1. ctxStep = "virt" /\ ctxPage' = ctxPage - 1 /\ ctxStep' \in {"virt", "ready"}
    BY <1>7 DEF ClearPage
  <2>2. Work = ctxPage /\ Work' \in {ctxPage - 1, 0}
    BY <1>1, <2>1 DEF PagesLeft
  <2>3. Work' < Work
    BY <1>2, <2>1, <2>2
  <2>4. QED
    BY <1>1, <2>3, WorkDrops
<1>8. QED
  BY <1>3, <1>4, <1>5, <1>6, <1>7 DEF SetupContext, ContextNext

\* initCpus: two RV2P processors, then six steps for each of the five.
LEMMA CpusNearer ==
  ASSUME TypeOKAll, SetupCpus
  PROVE Nearer(Position', Position)
<1>1. /\ pc = "setup" /\ pc' = "setup" /\ ctxStep = "ready" /\ ctxStep' = "ready"
      /\ Turns = CpusLeft /\ Turns' = CpusLeft'
  BY DEF SetupCpus, vars, ctxVars, Turns
<1>2. Work' = Work
  BY <1>1 DEF Work, PagesLeft
<1>3. fwAt \in 1 .. 5
  BY DEF TypeOKAll, FirmwareTypeOK
<1>4. CpusLeft' < CpusLeft
  <2>1. CASE LoadBegin
    <3>1. fwStep = "none" /\ fwStep' = "rv2p" /\ fwAt' = 1
      BY <2>1 DEF LoadBegin
    <3>2. QED
      BY <3>1 DEF CpusLeft
  <2>2. CASE LoadRv2p(fw)
    <3>1. /\ fwStep = "rv2p"
          /\ \/ fwAt = 1 /\ fwAt' = 2 /\ fwStep' = "rv2p"
             \/ fwAt' = 1 /\ fwStep' = "stop"
      BY <2>2 DEF LoadRv2p
    <3>2. CpusLeft \in {33, 32} /\ (fwAt = 1 => CpusLeft = 33)
      BY <3>1 DEF CpusLeft
    <3>3. CpusLeft' = IF fwStep' = "rv2p" THEN 32 ELSE 6 * (5 - 1) + 6
      BY <3>1, Counts DEF CpusLeft
    <3>4. QED
      BY <3>1, <3>2, <3>3
  <2>3. CASE StopCpu \/ SetPc(fw) \/ LoadSection(fw, "text", "data")
             \/ LoadSection(fw, "data", "roData") \/ LoadSection(fw, "roData", "pc")
    <3>1. /\ fwAt' = fwAt
          /\ \/ fwStep = "stop" /\ fwStep' = "text"
             \/ fwStep = "text" /\ fwStep' = "data"
             \/ fwStep = "data" /\ fwStep' = "roData"
             \/ fwStep = "roData" /\ fwStep' = "pc"
             \/ fwStep = "pc" /\ fwStep' = "start"
      BY <2>3 DEF StopCpu, SetPc, LoadSection
    <3>2. CpusLeft = 6 * (5 - fwAt) + CpuLeft[fwStep] /\ CpusLeft' = 6 * (5 - fwAt) + CpuLeft[fwStep']
      BY <3>1 DEF CpusLeft
    <3>3. QED
      BY <1>3, <3>1, <3>2, Counts
  <2>4. CASE StartCpu
    <3>1. /\ fwStep = "start"
          /\ \/ fwStep' = "done"
             \/ fwAt # 5 /\ fwStep' = "stop" /\ fwAt' = fwAt + 1
      BY <2>4 DEF StartCpu
    <3>2. CpusLeft = 6 * (5 - fwAt) + 1
      BY <3>1, Counts DEF CpusLeft
    <3>3. CpusLeft' \in {0, 6 * (5 - fwAt')  + 6}
      BY <3>1, Counts DEF CpusLeft
    <3>4. QED
      BY <1>3, <3>1, <3>2, <3>3, Counts DEF CpusLeft
  <2>5. QED
    BY <2>1, <2>2, <2>3, <2>4 DEF SetupCpus, LoadNext
<1>5. QED
  BY <1>1, <1>2, <1>4, TurnsDrop

\* startController.
LEMMA StartNearer ==
  ASSUME Starting
  PROVE Nearer(Position', Position)
<1>1. /\ pc = "finish" /\ pc' = "finish"
      /\ Work = StartLeft[startStep] /\ Work' = StartLeft[startStep']
  BY DEF Starting, vars, Work
<1>2. \/ startStep = "none" /\ startStep' = "tx"
      \/ startStep = "tx" /\ startStep' = "rx"
      \/ startStep = "rx" /\ startStep' = "up"
  <2>1. StartStep
    BY DEF Starting
  <2>2. EnableBlocks => startStep = "none" /\ startStep' = "tx"
    BY Zenon DEF EnableBlocks
  <2>3. InitTxRing => startStep = "tx" /\ startStep' = "rx"
    BY Zenon DEF InitTxRing
  <2>4. InitRxRing => startStep = "rx" /\ startStep' = "up"
    BY Zenon DEF InitRxRing
  <2>5. QED
    BY <2>1, <2>2, <2>3, <2>4 DEF StartStep
<1>3. QED
  BY <1>1, <1>2, Counts, WorkDrops

LEMMA CallNearer ==
  ASSUME TypeOKAll, LifeInv, CtxInv, CallAll
  PROVE Nearer(Position', Position)
BY StageEnds, BufferNearer, SyncNearer, ContextNearer, CpusNearer, StartNearer
   DEF CallAll, CallOnly

LEMMA PositionInvariant == SpecAll => [](Position \in Nat \X Nat \X Nat)
<1>1. TypeOKAll /\ LifeInv /\ BufInv /\ CtxInv => Position \in Nat \X Nat \X Nat
  BY PositionNat
<1>2. QED
  BY <1>1, TypesAll, LifecycleHolds, BufInvariant, CtxInvariant, PTL

\* The bootcode's steps, and those outside a call.
LEMMA OthersKeep ==
  ASSUME NextAll, ~CallAll, pc \in Busy
  PROVE Firmware /\ UNCHANGED Position
<1>1. ~(EnableBegin \/ FreeAll \/ Load \/ Stop \/ \E active \in BOOLEAN : Promiscuous(active))
  BY DEF EnableBegin, Enable, FreeAll, Free, Load, Stop, Promiscuous, Busy
<1>2. Firmware /\ UNCHANGED partVars
  BY <1>1 DEF NextAll
<1>3. UNCHANGED <<pc, is5709, buffers, allocStep, sync, polls, startStep, fwStep, fwAt,
                  ctxStep, ctxPage, ctxTry>>
  BY <1>2 DEF Firmware, FwTake, FwAnswer, partVars, bufVars, setupVars, cpuVars, ctxVars,
              envVars, osVars
<1>4. QED
  BY <1>2, <1>3 DEF Position, Stage, Work, Turns, PagesLeft, CpusLeft, Needed

\* Each step of a call of start() or enable() takes it nearer to its end and no
\* step of the bootcode takes it back, for any number of polls, pages and loads
\* and whatever fails.
THEOREM CallsProgressTheorem == SpecAll => CallsProgress
<1>1. /\ TypeOKAll /\ LifeInv /\ CtxInv /\ (Position \in Nat \X Nat \X Nat)'
      /\ [NextAll]_allVars
      => [(pc \in Busy => \/ Position' \in Nat \X Nat \X Nat /\ Nearer(Position', Position)
                          \/ Firmware /\ UNCHANGED Position)]_allVars
  BY CallNearer, OthersKeep
<1>2. QED
  BY <1>1, TypesAll, LifecycleHolds, CtxInvariant, PositionInvariant, PTL
     DEF SpecAll, CallsProgress
-----------------------------------------------------------------------------
(***************************************************************************)
(* The names of the controllers.                                           *)
(***************************************************************************)
LEMMA RowsAre == Rows = 1 .. 22
BY SMT DEF Rows, deviceNames

LEMMA RowsNat == Rows \subseteq Nat
BY RowsAre

\* No row is there twice, and that for any board is the last of its chip.
LEMMA OneRow ==
  \A i, j \in Rows :
    deviceNames[i].id = deviceNames[j].id /\ deviceNames[i].sub = deviceNames[j].sub => i = j
BY SMTT(60), RowsAre DEF deviceNames, HP, QLogic, Row, AnyBoard, HP_VENDORID, PCI_ANY_ID

LEMMA AnyBoardLast ==
  \A i, j \in Rows :
    deviceNames[i].id = deviceNames[j].id /\ deviceNames[j].sub = AnyBoard => i <= j
BY SMTT(60), RowsAre DEF deviceNames, HP, QLogic, Row, AnyBoard, HP_VENDORID, PCI_ANY_ID

\* A row is for one board or for any.
LEMMA RowSub ==
  \A i \in Rows :
    \/ deviceNames[i].sub = AnyBoard
    \/ /\ deviceNames[i].sub = <<deviceNames[i].sub[1], deviceNames[i].sub[2]>>
       /\ deviceNames[i].sub[1] # PCI_ANY_ID /\ deviceNames[i].sub[2] # PCI_ANY_ID
BY SMTT(60), RowsAre DEF deviceNames, HP, QLogic, Row, AnyBoard, HP_VENDORID, PCI_ANY_ID

LEMMA ChipRow ==
  ASSUME NEW num \in {5706, 5708, 5709}, NEW id \in IdsOf(num)
  PROVE \E i \in Rows : deviceNames[i].id = id /\ deviceNames[i].sub = AnyBoard
<1>1. id \in {<<BRCM_VENDORID, d>> : d \in {\h164A, \h16AA, \h164C, \h16AC, \h1639, \h163A, \h163B}}
  BY SMT DEF IdsOf
<1>2. /\ deviceNames[5].id = <<BRCM_VENDORID, \h164A>> /\ deviceNames[5].sub = AnyBoard
      /\ deviceNames[7].id = <<BRCM_VENDORID, \h16AA>> /\ deviceNames[7].sub = AnyBoard
      /\ deviceNames[11].id = <<BRCM_VENDORID, \h164C>> /\ deviceNames[11].sub = AnyBoard
      /\ deviceNames[15].id = <<BRCM_VENDORID, \h16AC>> /\ deviceNames[15].sub = AnyBoard
      /\ deviceNames[18].id = <<BRCM_VENDORID, \h1639>> /\ deviceNames[18].sub = AnyBoard
      /\ deviceNames[21].id = <<BRCM_VENDORID, \h163A>> /\ deviceNames[21].sub = AnyBoard
      /\ deviceNames[22].id = <<BRCM_VENDORID, \h163B>> /\ deviceNames[22].sub = AnyBoard
  BY SMT DEF deviceNames, HP, QLogic, Row
<1>3. QED
  BY SMT, <1>1, <1>2, RowsAre

LEMMA SubPair == \A sub \in SubIds : sub = <<sub[1], sub[2]>>
<1> SUFFICES ASSUME NEW sub \in SubIds PROVE sub = <<sub[1], sub[2]>>
  OBVIOUS
<1>1. CASE \E i \in Rows : sub = deviceNames[i].sub
  <2>1. PICK i \in Rows : sub = deviceNames[i].sub
    BY <1>1
  <2>2. sub = AnyBoard \/ sub = <<sub[1], sub[2]>>
    BY <2>1, RowSub
  <2>3. QED
    BY <2>2 DEF AnyBoard
<1>2. CASE sub = <<HP_VENDORID, 1>> \/ sub = <<BRCM_VENDORID, 1>>
  BY <1>2
<1>3. QED
  BY <1>1, <1>2, RowsAre DEF SubIds

\* What the search compares: a row fits if it is the board's or for any board.
LEMMA RowFits ==
  ASSUME NEW i \in Rows, NEW id, NEW sub \in SubIds
  PROVE Fits(deviceNames[i], id, sub) <=>
          /\ deviceNames[i].id = id
          /\ deviceNames[i].sub = sub \/ deviceNames[i].sub = AnyBoard
<1> DEFINE row == deviceNames[i]
<1>1. sub = <<sub[1], sub[2]>>
  BY SubPair
<1>2. \/ row.sub = AnyBoard
      \/ /\ row.sub = <<row.sub[1], row.sub[2]>>
         /\ row.sub[1] # PCI_ANY_ID /\ row.sub[2] # PCI_ANY_ID
  BY RowSub
<1> HIDE DEF row
<1>3. Fits(row, id, sub) <=> /\ row.id = id
                             /\ row.sub[1] \in {sub[1], PCI_ANY_ID}
                             /\ row.sub[2] \in {sub[2], PCI_ANY_ID}
  BY DEF Fits
<1>4. AnyBoard[1] = PCI_ANY_ID /\ AnyBoard[2] = PCI_ANY_ID
  BY DEF AnyBoard
<1>5. CASE row.sub = AnyBoard
  BY <1>3, <1>4, <1>5 DEF row
<1>6. CASE row.sub # AnyBoard
  BY <1>1, <1>2, <1>3, <1>6 DEF row
<1>7. QED
  BY <1>5, <1>6

LEMMA MinIs ==
  ASSUME NEW S, NEW i \in Nat, i \in S, \A j \in S : j \in Nat /\ i <= j
  PROVE Min(S) = i
<1>1. Min(S) \in S /\ \A j \in S : Min(S) <= j
  BY DEF Min
<1>2. i <= Min(S) /\ Min(S) <= i /\ i \in Nat /\ Min(S) \in Nat
  BY <1>1
<1>3. QED
  BY <1>2

LEMMA RowsOfNat == ASSUME NEW id, NEW sub PROVE RowsOf(id, sub) \subseteq Nat
BY RowsNat DEF RowsOf

LEMMA OneRowOf ==
  ASSUME NEW id, NEW sub, NEW i \in RowsOf(id, sub), NEW j \in RowsOf(id, sub)
  PROVE i = j
<1>1. /\ i \in Rows /\ j \in Rows
      /\ deviceNames[i].id = deviceNames[j].id
      /\ deviceNames[i].sub = deviceNames[j].sub
  BY DEF RowsOf
<1>2. QED
  BY <1>1, OneRow

LEMMA OwnBeforeAny ==
  ASSUME NEW id, NEW sub, NEW i \in RowsOf(id, sub), NEW j \in RowsOf(id, AnyBoard)
  PROVE i <= j
<1>1. /\ i \in Rows /\ j \in Rows
      /\ deviceNames[i].id = deviceNames[j].id
      /\ deviceNames[j].sub = AnyBoard
  BY DEF RowsOf
<1>2. QED
  BY <1>1, AnyBoardLast

LEMMA HitsAre ==
  ASSUME NEW id, NEW sub \in SubIds
  PROVE Hits(id, sub) = RowsOf(id, sub) \cup RowsOf(id, AnyBoard)
BY RowFits, Zenon DEF Hits, RowsOf

LEMMA LeastRow ==
  ASSUME NEW id, NEW sub, RowsOf(id, AnyBoard) # {}
  PROVE Min(RowsOf(id, sub) \cup RowsOf(id, AnyBoard)) \in BestRows(id, sub)
<1> DEFINE own == RowsOf(id, sub)
           generic == RowsOf(id, AnyBoard)
<1>1. generic # {}
  OBVIOUS
<1>2. own \subseteq Nat /\ generic \subseteq Nat
  BY RowsOfNat
<1>3. \A i, j \in own : i = j
  BY OneRowOf
<1>4. \A i, j \in generic : i = j
  BY OneRowOf
<1>5. \A i \in own : \A j \in generic : i <= j
  BY OwnBeforeAny
<1> HIDE DEF own, generic
<1> DEFINE all == own \cup generic
           best == IF own # {} THEN own ELSE generic
<1>6. PICK i \in best : \A j \in all : i <= j
  <2>1. CASE own # {}
    <3>1. PICK i \in own : TRUE
      BY <2>1
    <3>2. \A j \in all : i <= j
      BY <1>2, <1>3, <1>5, <3>1
    <3>3. QED
      BY <2>1, <3>1, <3>2
  <2>2. CASE own = {}
    <3>1. PICK i \in generic : TRUE
      BY <1>1
    <3>2. \A j \in all : i <= j
      BY <1>2, <1>4, <2>2, <3>1
    <3>3. QED
      BY <2>2, <3>1, <3>2
  <2>3. QED
    BY <2>1, <2>2
<1>7. i \in Nat /\ i \in all /\ \A j \in all : j \in Nat
  BY <1>2, <1>6
<1> HIDE DEF all, best
<1>8. Min(all) = i
  <2>1. \A j \in all : j \in Nat /\ i <= j
    BY <1>6, <1>7
  <2>2. QED
    BY <1>7, <2>1, MinIs
<1>9. QED
  BY <1>6, <1>8 DEF own, generic, all, best, BestRows

LEMMA BestName == ASSUME NEW num \in {5706, 5708, 5709} PROVE NamedBest(num)
<1> SUFFICES ASSUME NEW id \in IdsOf(num), NEW sub \in SubIds
             PROVE \E i \in BestRows(id, sub) : getDevice(id, sub) = Name(deviceNames[i])
  BY DEF NamedBest
<1>1. Hits(id, sub) = RowsOf(id, sub) \cup RowsOf(id, AnyBoard)
  BY HitsAre
<1>2. RowsOf(id, AnyBoard) # {}
  BY ChipRow DEF RowsOf
<1>3. Min(Hits(id, sub)) \in BestRows(id, sub) /\ Hits(id, sub) # {}
  BY <1>1, <1>2, LeastRow
<1>4. getDevice(id, sub) = Name(deviceNames[Min(Hits(id, sub))])
  BY <1>3 DEF getDevice
<1>5. QED
  BY <1>3, <1>4

\* A controller that prepareController accepts gets the name that is meant for
\* it from the search of Private.cpp:29, wherever the rows of the table stand.
THEOREM IdentifiedTheorem == SpecAll => []Identified
<1>1. chipId \in Chips => chipId.num \in {5706, 5708, 5709}
  BY DEF Chips, Id
<1>2. chipId \in Chips => Identified
  BY <1>1, BestName DEF Identified
<1>3. QED
  BY <1>2, KnownChip, PTL
=============================================================================
