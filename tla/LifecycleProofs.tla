-------------------------- MODULE LifecycleProofs ---------------------------
(***************************************************************************)
(* Proofs about Lifecycle and FirmwareSync, for every number of polls, any *)
(* space of message numbers large enough and whatever other users of the   *)
(* chip have left in the mailboxes: types, what isEnabled implies and what *)
(* is freed, however often the driver is loaded; that firmwareSync never   *)
(* takes a late answer to an own message for another; and that what it     *)
(* takes for an answer is one, for every driver that did not find the      *)
(* number of its first message when it was loaded.                         *)
(***************************************************************************)
EXTENDS Lifecycle, FiniteSetTheorems, TLAPS

All == ToSet(Needed)

\* The buffers there may be while prepareController runs, in order.
Partial == {{}, {"status"}, {"status", "stats"}, {"status", "stats", "tx"}}
             \cup IF is5709 THEN {{"status", "stats", "tx", "rx"}} ELSE {}

Prepared == {"wait0", "reset", "wait1", "init", "setup", "wait2", "finish"}

\* What makes TypeOK, EnabledReady and FreeComplete inductive: which buffers
\* there are at each place, that a driver past open() has the nub and its
\* interrupt source, that a call of firmwareSync is under way only where it is
\* waited for, and that the nub is open for good once a driver was enabled.
LifeInv ==
  /\ pc \in {"unloaded", "open"} => buffers = {}
  /\ pc = "alloc" => buffers \in Partial
  /\ pc \in Prepared \cup {"idle", "stopped"} => buffers = All
  /\ pc = "failed" => buffers \in {{}, All}
  /\ pc # "unloaded" \/ nubOpen => load > 0
  /\ pc \in {"open", "failed", "panic"} /\ nubOpen => load > 1
  /\ pc \in Prepared \cup {"alloc"} => nubOpen
  /\ pc \in Prepared \cup {"alloc", "idle"} => source
  /\ pc = "stopped" => ~source
  /\ sync # "none" => pc \in {"wait0", "wait1", "wait2"} /\ drvMb \in Message
  /\ isEnabled => pc \in {"idle", "stopped", "unloaded"}
  /\ isEnabled /\ pc = "idle" => nubOpen /\ chip = "running" /\ ~masked
  /\ pc = "panic" => buffers = {}

\* How many messages a call of start() or enable() has sent at each place.
SentHere ==
  CASE pc \in {"open", "alloc"} -> 0
    [] pc = "wait0" -> IF sync = "none" THEN 0 ELSE 1
    [] pc = "reset" -> 1
    [] pc = "wait1" -> IF sync = "none" THEN 1 ELSE 2
    [] pc \in {"init", "setup"} -> 2
    [] pc = "wait2" -> IF sync = "none" THEN 2 ELSE 3
    [] OTHER -> 3

\* A driver sends six messages at most, so that their numbers grow.
SeqInv ==
  /\ load = 0 => pc = "unloaded" /\ fwSyncSeq = 0 /\ sync = "none"
  /\ pc \in Busy => fwSyncSeq = SentHere + IF op = "start" THEN 0 ELSE 3
  /\ pc \in {"open", "alloc"} => op = "start"
  /\ pc = "idle" => IF op = "start" THEN fwSyncSeq = 3 ELSE nubOpen
  /\ pc \in {"idle", "stopped"} => fwSyncSeq \in 3 .. 6
  /\ fwSyncSeq <= 6

\* Whatever was left in the mailboxes: a message of this driver there has no
\* later number than the last that was sent, and that number only if it is the
\* message now awaited.
Earlier ==
  /\ \A m \in {drvMb, fwMb, fwBusy} : m.load = load => m.seq <= fwSyncSeq
  /\ sync = "poll" =>
       /\ drvMb.seq = fwSyncSeq
       /\ \A m \in {fwMb, fwBusy} : m.load = load /\ m.seq = fwSyncSeq => m = drvMb
LateInv == /\ \A m \in {drvMb, fwMb, fwBusy} : m.load <= load
           /\ load > 0 => Earlier

\* What makes AckNotLate and FirmwareAgrees inductive for a driver that did not
\* find the number 1.  From the second message on all that is in the bootcode's
\* hands is this driver's; before its first, others may have left messages there,
\* but none with the number 1; so that the number of the message just sent is its
\* own.  Once the answer to it is there nothing else is under way.
Older(m) == m = NoMessage \/ (m.load = load /\ m.seq \in 1 .. fwSyncSeq)
Answer == fwMb = drvMb /\ ~drvNew /\ fwBusy = NoMessage
Sent(w) == /\ drvMb \in Message /\ drvMb.load = load /\ drvMb.wait = w
           /\ drvMb.seq = fwSyncSeq /\ fwSyncSeq > 0

OwnInv ==
  fwSyncSeq >= 2 \/ pc \in {"reset", "wait1"} =>
    Older(drvMb) /\ Older(fwMb) /\ Older(fwBusy)
NoFirstInv ==
  fwSyncSeq = 0 => fwMb.seq # 1 /\ fwBusy.seq # 1 /\ (drvNew => drvMb.seq # 1)
AnswerInv ==
  /\ sync # "none" /\ pc = "wait0" => Sent("WAIT0")
  /\ sync # "none" /\ pc = "wait1" => Sent("WAIT1")
  /\ sync # "none" /\ pc = "wait2" => Sent("WAIT2")
  /\ sync \in {"poll", "ok"} =>
       /\ fwMb = drvMb => Answer
       /\ fwMb # drvMb => fwMb.seq # fwSyncSeq
       /\ fwBusy = drvMb => ~drvNew
       /\ fwBusy # drvMb => fwBusy.seq # fwSyncSeq
  /\ sync = "ok" => fwMb = drvMb
  /\ pc = "reset" => Sent("WAIT0") /\ Answer
  /\ pc \in {"init", "setup"} => Sent("WAIT1") /\ Answer
CleanInv == OwnInv /\ NoFirstInv /\ AnswerInv
MessageInv == ~firstLeft /\ load > 0 => CleanInv
-----------------------------------------------------------------------------
(***************************************************************************)
(* The buffers, one after the other.                                       *)
(***************************************************************************)
Four == {"status", "stats", "tx", "rx"}

\* A 5709 has five buffers, the others four, in the order of prepareController.
LEMMA NeededIs ==
  /\ is5709 => /\ Needed = <<"status", "stats", "tx", "rx", "context">>
               /\ All = Four \cup {"context"}
  /\ ~is5709 => /\ Needed = <<"status", "stats", "tx", "rx">>
                /\ All = Four
<1>1. CASE is5709
  <2>1. Needed = <<"status", "stats", "tx", "rx", "context">>
    BY <1>1 DEF Needed
  <2>2. All = Four \cup {"context"}
    BY <2>1 DEF All, Four, ToSet
  <2>3. QED
    BY <1>1, <2>1, <2>2
<1>2. CASE ~is5709
  <2>1. Needed = <<"status", "stats", "tx", "rx">>
    BY <1>2 DEF Needed
  <2>2. All = Four
    BY <2>1 DEF All, Four, ToSet
  <2>3. QED
    BY <1>2, <2>1, <2>2
<1>3. QED
  BY <1>1, <1>2

\* Cardinality counts what is allocated.
LEMMA PartialCards ==
  /\ Cardinality({}) = 0
  /\ Cardinality({"status"}) = 1
  /\ Cardinality({"status", "stats"}) = 2
  /\ Cardinality({"status", "stats", "tx"}) = 3
  /\ Cardinality(Four) = 4
<1>0. IsFiniteSet({}) /\ Cardinality({}) = 0
  BY FS_EmptySet
<1>1. IsFiniteSet({"status"}) /\ Cardinality({"status"}) = 1
  BY FS_Singleton
<1>2. {"status", "stats"} = {"status"} \cup {"stats"} /\ "stats" \notin {"status"}
  OBVIOUS
<1>3. IsFiniteSet({"status", "stats"}) /\ Cardinality({"status", "stats"}) = 2
  BY <1>1, <1>2, FS_AddElement
<1>4. /\ {"status", "stats", "tx"} = {"status", "stats"} \cup {"tx"}
      /\ "tx" \notin {"status", "stats"}
  OBVIOUS
<1>5. IsFiniteSet({"status", "stats", "tx"}) /\ Cardinality({"status", "stats", "tx"}) = 3
  BY <1>3, <1>4, FS_AddElement
<1>6. Four = {"status", "stats", "tx"} \cup {"rx"} /\ "rx" \notin {"status", "stats", "tx"}
  BY DEF Four
<1>7. Cardinality(Four) = 4
  BY <1>5, <1>6, FS_AddElement
<1>8. QED
  BY <1>0, <1>1, <1>3, <1>5, <1>7

LEMMA PartialFinite ==
  ASSUME buffers \in Partial
  PROVE IsFiniteSet(buffers) /\ Cardinality(buffers) \in Nat
<1>1. IsFiniteSet(Four)
  <2>1. IsFiniteSet({"status"} \cup {"stats"})
    BY FS_Singleton, FS_AddElement
  <2>2. IsFiniteSet(({"status"} \cup {"stats"}) \cup {"tx"})
    BY <2>1, FS_AddElement
  <2>3. IsFiniteSet((({"status"} \cup {"stats"}) \cup {"tx"}) \cup {"rx"})
    BY <2>2, FS_AddElement
  <2>4. Four = (({"status"} \cup {"stats"}) \cup {"tx"}) \cup {"rx"}
    BY DEF Four
  <2>5. QED
    BY <2>3, <2>4
<1>2. buffers \subseteq Four
  BY DEF Partial, Four
<1>3. QED
  BY <1>1, <1>2, FS_Subset, FS_CardinalityType

\* The next buffer leads from one partial set to the next, or completes them.
LEMMA NextBuffer ==
  ASSUME buffers \in Partial
  PROVE LET i == Cardinality(buffers) + 1
        IN  /\ i \in 1 .. Len(Needed)
            /\ Needed[i] \in All \ buffers
            /\ i = Len(Needed) => buffers \cup {Needed[i]} = All
            /\ i # Len(Needed) => buffers \cup {Needed[i]} \in Partial
<1>0. /\ Needed[1] = "status" /\ Needed[2] = "stats" /\ Needed[3] = "tx" /\ Needed[4] = "rx"
      /\ is5709 => Needed[5] = "context" /\ Len(Needed) = 5
      /\ ~is5709 => Len(Needed) = 4
      /\ Len(Needed) \in 4 .. 5
  BY NeededIs
<1>1. CASE buffers = {}
  <2>1. Cardinality(buffers) + 1 = 1 /\ buffers \cup {"status"} \in Partial
    BY <1>1, PartialCards DEF Partial
  <2>2. "status" \in All \ buffers
    BY <1>1, NeededIs DEF Four
  <2>3. 1 \in 1 .. Len(Needed) /\ Needed[1] = "status" /\ 1 # Len(Needed)
    BY <1>0
  <2>4. QED
    BY <2>1, <2>2, <2>3
<1>2. CASE buffers = {"status"}
  <2>1. Cardinality(buffers) + 1 = 2 /\ buffers \cup {"stats"} \in Partial
    BY <1>2, PartialCards DEF Partial
  <2>2. "stats" \in All \ buffers
    BY <1>2, NeededIs DEF Four
  <2>3. 2 \in 1 .. Len(Needed) /\ Needed[2] = "stats" /\ 2 # Len(Needed)
    BY <1>0
  <2>4. QED
    BY <2>1, <2>2, <2>3
<1>3. CASE buffers = {"status", "stats"}
  <2>1. Cardinality(buffers) + 1 = 3 /\ buffers \cup {"tx"} \in Partial
    BY <1>3, PartialCards DEF Partial
  <2>2. "tx" \in All \ buffers
    BY <1>3, NeededIs DEF Four
  <2>3. 3 \in 1 .. Len(Needed) /\ Needed[3] = "tx" /\ 3 # Len(Needed)
    BY <1>0
  <2>4. QED
    BY <2>1, <2>2, <2>3
<1>4. CASE buffers = {"status", "stats", "tx"}
  <2>1. Cardinality(buffers) + 1 = 4 /\ buffers \cup {"rx"} = Four
    BY <1>4, PartialCards DEF Four
  <2>2. "rx" \in All \ buffers
    BY <1>4, NeededIs DEF Four
  <2>3. CASE is5709
    <3>1. Len(Needed) = 5
      BY <1>0, <2>3
    <3>2. 4 \in 1 .. Len(Needed) /\ Needed[4] = "rx" /\ 4 # Len(Needed)
      BY <1>0, <3>1
    <3>3. Four \in Partial
      BY <2>3 DEF Partial, Four
    <3>4. QED
      BY <2>1, <2>2, <3>2, <3>3
  <2>4. CASE ~is5709
    <3>1. Len(Needed) = 4
      BY <1>0, <2>4
    <3>2. 4 \in 1 .. Len(Needed) /\ Needed[4] = "rx" /\ 4 = Len(Needed)
      BY <1>0, <3>1
    <3>3. Four = All
      BY <2>4, NeededIs
    <3>4. QED
      BY <2>1, <2>2, <3>2, <3>3
  <2>5. QED
    BY <2>3, <2>4
<1>5. CASE is5709 /\ buffers = Four
  <2>1. Cardinality(buffers) + 1 = 5
    BY <1>5, PartialCards
  <2>2. buffers \cup {"context"} = All /\ "context" \in All \ buffers
    BY <1>5, NeededIs DEF Four
  <2>3. Len(Needed) = 5 /\ Needed[5] = "context" /\ 5 \in 1 .. 5
    BY <1>0, <1>5
  <2>4. QED
    BY <2>1, <2>2, <2>3
<1>6. QED
  BY <1>1, <1>2, <1>3, <1>4, <1>5 DEF Partial, Four
-----------------------------------------------------------------------------
(***************************************************************************)
(* Types, and what holds however often the driver is loaded.               *)
(***************************************************************************)

\* SyncSend numbers its message within the space of numbers.
LEMMA SendType ==
  ASSUME SyncTypeOK, load \in Nat, NEW w \in Waits, SyncSend(w)
  PROVE SyncTypeOK' /\ drvMb' \in Message /\ sync' = "poll"
<1>1. NextSeq \in 0 .. SeqSpace - 1
  BY SyncAssumption DEF SyncTypeOK, NextSeq
<1>2. drvMb' \in Message
  BY <1>1 DEF SyncSend, Message
<1>3. QED
  BY <1>1, <1>2, SyncAssumption DEF SyncSend, SyncTypeOK

\* No other step of firmwareSync or of the bootcode leaves the types either.
LEMMA SyncStepType ==
  ASSUME SyncTypeOK, sync # "none" => drvMb \in Message,
         SyncPoll \/ SyncTimeout \/ FwTake \/ FwAnswer \/ FwRestart
           \/ SyncReturn("ok") \/ SyncReturn("failed")
  PROVE SyncTypeOK' /\ (sync' # "none" => drvMb' \in Message)
<1>1. CASE SyncPoll
  BY <1>1, SyncAssumption DEF SyncPoll, SyncTypeOK, fwVars
<1>2. CASE SyncTimeout
  <2>1. drvMb' \in Message
    BY <1>2 DEF SyncTimeout, Message
  <2>2. QED
    BY <1>2, <2>1 DEF SyncTimeout, SyncTypeOK
<1>3. CASE FwTake
  BY <1>3 DEF FwTake, SyncTypeOK
<1>4. CASE FwAnswer
  BY <1>4 DEF FwAnswer, SyncTypeOK
<1>5. CASE FwRestart
  BY <1>5 DEF FwRestart, SyncTypeOK
<1>6. CASE SyncReturn("ok") \/ SyncReturn("failed")
  BY <1>6, SyncAssumption DEF SyncReturn, SyncTypeOK, fwVars
<1>7. QED
  BY <1>1, <1>2, <1>3, <1>4, <1>5, <1>6

\* What a step that leaves the chip's number alone makes of the names above.
LEMMA SameNeeded ==
  ASSUME UNCHANGED is5709
  PROVE Needed' = Needed /\ All' = All /\ Partial' = Partial
BY DEF Needed, All, Partial

PlaceTypeOK ==
  /\ load \in 0 .. Loads /\ firstLeft \in BOOLEAN
  /\ is5709 \in BOOLEAN /\ op \in {"start", "enable"}
  /\ pc \in Busy \cup {"unloaded", "idle", "failed", "stopped", "panic"}
  /\ buffers \subseteq All
  /\ nubOpen \in BOOLEAN /\ source \in BOOLEAN /\ masked \in BOOLEAN
  /\ isEnabled \in BOOLEAN
  /\ chip \in {"stopped", "reset", "ready", "running"}

LEMMA LifeInit == Init => TypeOK /\ LifeInv
<1> SUFFICES ASSUME Init PROVE TypeOK /\ LifeInv
  OBVIOUS
<1>1. SyncTypeOK /\ sync = "none"
  <2>1. 0 \in 0 .. SeqSpace - 1 /\ 0 \in 0 .. MaxPolls
    BY SyncAssumption
  <2>2. QED
    BY <2>1 DEF Init, SyncInit, SyncTypeOK
<1>2. PlaceTypeOK
  <2>1. 0 \in 0 .. Loads
    BY LoadsAssumption
  <2>2. QED
    BY <2>1 DEF Init, SyncInit, PlaceTypeOK
<1>3. LifeInv
  BY <1>1 DEF Init, LifeInv, Prepared, Busy
<1>4. QED
  BY <1>1, <1>2, <1>3 DEF TypeOK, PlaceTypeOK, All

\* Load, open and prepareController.
LEMMA LoadOpenStep ==
  ASSUME TypeOK, LifeInv,
         Load \/ Open \/ OpenFails \/ Alloc \/ AllocFails
  PROVE TypeOK' /\ LifeInv'
<1>0. SyncTypeOK /\ PlaceTypeOK
  BY DEF TypeOK, PlaceTypeOK, All
<1>1. CASE Load
  <2>1. SyncTypeOK' /\ UNCHANGED <<sync, drvMb>>
    BY <1>0, <1>1, SyncAssumption DEF Load, SyncTypeOK, syncVars, fwVars
  <2>2. UNCHANGED is5709
    BY <1>1 DEF Load, envVars
  <2>3. PlaceTypeOK'
    <3>1. load' \in 0 .. Loads /\ firstLeft' \in BOOLEAN
      BY <1>0, <1>1, LoadsAssumption DEF Load, PlaceTypeOK, FirstIsLeft
    <3>2. QED
      BY <1>0, <1>1, <2>2, <3>1, SameNeeded DEF Load, PlaceTypeOK, chipVars, Busy
  <2>4. LifeInv'
    BY <1>0, <1>1, <2>1, <2>2, SameNeeded
       DEF Load, LifeInv, PlaceTypeOK, Prepared, Busy, GiveUp, envVars, osVars, chipVars
  <2>5. QED
    BY <2>1, <2>3, <2>4 DEF TypeOK, PlaceTypeOK, All
<1>2. CASE Open
  <2>1. SyncTypeOK' /\ UNCHANGED <<sync, drvMb>>
    BY <1>0, <1>2, SyncAssumption DEF Open, SyncTypeOK, syncVars, fwVars
  <2>2. UNCHANGED is5709
    BY <1>2 DEF Open, envVars
  <2>3. PlaceTypeOK'
    BY <1>0, <1>2, <2>2, SameNeeded, LoadsAssumption
       DEF Open, PlaceTypeOK, GiveUp, envVars, osVars, chipVars, Busy
  <2>4. LifeInv'
    BY <1>0, <1>2, <2>1, <2>2, SameNeeded
       DEF Open, LifeInv, Partial, PlaceTypeOK, Prepared, Busy, GiveUp, envVars, osVars, chipVars
  <2>5. QED
    BY <2>1, <2>3, <2>4 DEF TypeOK, PlaceTypeOK, All
<1>3. CASE OpenFails
  <2>1. SyncTypeOK' /\ UNCHANGED <<sync, drvMb>>
    BY <1>0, <1>3, SyncAssumption DEF OpenFails, SyncTypeOK, syncVars, fwVars
  <2>2. UNCHANGED is5709
    BY <1>3 DEF OpenFails, envVars
  <2>3. PlaceTypeOK'
    BY <1>0, <1>3, <2>2, SameNeeded, LoadsAssumption
       DEF OpenFails, PlaceTypeOK, GiveUp, envVars, osVars, chipVars, Busy
  <2>4. LifeInv'
    BY <1>0, <1>3, <2>1, <2>2, SameNeeded
       DEF OpenFails, LifeInv, PlaceTypeOK, Prepared, Busy, GiveUp, envVars, osVars, chipVars
  <2>5. QED
    BY <2>1, <2>3, <2>4 DEF TypeOK, PlaceTypeOK, All
<1>4. CASE Alloc
  <2>0. /\ buffers' \subseteq All
        /\ pc' \in {"alloc", "wait0"}
        /\ pc' = "alloc" => buffers' \in Partial
        /\ pc' = "wait0" => buffers' = All
    <3>1. buffers \in Partial /\ buffers \subseteq All
      BY <1>0, <1>4 DEF Alloc, LifeInv, PlaceTypeOK
    <3>2. QED
      BY <1>4, <3>1, NextBuffer DEF Alloc
  <2>1. SyncTypeOK' /\ UNCHANGED <<sync, drvMb>>
    BY <1>0, <1>4, SyncAssumption DEF Alloc, SyncTypeOK, syncVars, fwVars
  <2>2. UNCHANGED is5709
    BY <1>4 DEF Alloc, envVars
  <2>3. PlaceTypeOK'
    BY <1>0, <1>4, <2>2, <2>0, SameNeeded DEF Alloc, PlaceTypeOK, envVars, chipVars, Busy
  <2>4. LifeInv'
    BY <1>0, <1>4, <2>0, <2>1, <2>2, SameNeeded
       DEF Alloc, LifeInv, PlaceTypeOK, Prepared, Busy, envVars, chipVars
  <2>5. QED
    BY <2>1, <2>3, <2>4 DEF TypeOK, PlaceTypeOK, All
<1>5. CASE AllocFails
  <2>1. SyncTypeOK' /\ UNCHANGED <<sync, drvMb>>
    BY <1>0, <1>5, SyncAssumption DEF AllocFails, SyncTypeOK, syncVars, fwVars
  <2>2. UNCHANGED is5709
    BY <1>5 DEF AllocFails, envVars
  <2>3. PlaceTypeOK'
    BY <1>0, <1>5, <2>2, SameNeeded, LoadsAssumption
       DEF AllocFails, PlaceTypeOK, GiveUp, envVars, osVars, chipVars, Busy
  <2>4. LifeInv'
    BY <1>0, <1>5, <2>1, <2>2, SameNeeded
       DEF AllocFails, LifeInv, PlaceTypeOK, Prepared, Busy, GiveUp, envVars, osVars, chipVars
  <2>5. QED
    BY <2>1, <2>3, <2>4 DEF TypeOK, PlaceTypeOK, All
<1>6. QED
  BY <1>1, <1>2, <1>3, <1>4, <1>5

\* The calls of firmwareSync.
LEMMA WaitStep ==
  ASSUME TypeOK, LifeInv,
         SyncReset \/ Sync("wait1", "WAIT1")
           \/ Sync("wait2", "WAIT2") \/ Answered("wait0", "reset")
           \/ Answered("wait1", "init")
           \/ NotAnswered("wait0") \/ NotAnswered("wait1") \/ Wait2Over \/ SyncSteps \/ Firmware
  PROVE TypeOK' /\ LifeInv'
<1>0. SyncTypeOK /\ PlaceTypeOK
  BY DEF TypeOK, PlaceTypeOK, All
<1>1. CASE SyncReset
  <2>1. SyncTypeOK' /\ sync' = "poll" /\ drvMb' \in Message
    <3>1. load \in Nat /\ "WAIT0" \in Waits
      BY <1>0, LoadsAssumption DEF PlaceTypeOK, Waits
    <3>2. SyncSend("WAIT0")
      BY <1>1 DEF SyncReset
    <3>3. QED
      BY <1>0, <3>1, <3>2, SendType
  <2>2. UNCHANGED is5709
    BY <1>1 DEF SyncReset, envVars
  <2>3. PlaceTypeOK'
    BY <1>0, <1>1, <2>2, SameNeeded, LoadsAssumption
       DEF SyncReset, PlaceTypeOK, GiveUp, envVars, osVars, chipVars, Busy
  <2>4. LifeInv'
    BY <1>0, <1>1, <2>1, <2>2, SameNeeded
       DEF SyncReset, LifeInv, PlaceTypeOK, Prepared, Busy, GiveUp, envVars, osVars, chipVars
  <2>5. QED
    BY <2>1, <2>3, <2>4 DEF TypeOK, PlaceTypeOK, All
<1>2. CASE Sync("wait1", "WAIT1")
  <2>1. SyncTypeOK' /\ sync' = "poll" /\ drvMb' \in Message
    <3>1. load \in Nat /\ "WAIT1" \in Waits
      BY <1>0, LoadsAssumption DEF PlaceTypeOK, Waits
    <3>2. SyncSend("WAIT1")
      BY <1>2 DEF Sync
    <3>3. QED
      BY <1>0, <3>1, <3>2, SendType
  <2>2. UNCHANGED is5709
    BY <1>2 DEF Sync, envVars
  <2>3. PlaceTypeOK'
    BY <1>0, <1>2, <2>2, SameNeeded, LoadsAssumption
       DEF Sync, PlaceTypeOK, GiveUp, envVars, osVars, chipVars, Busy
  <2>4. LifeInv'
    BY <1>0, <1>2, <2>1, <2>2, SameNeeded
       DEF Sync, LifeInv, PlaceTypeOK, Prepared, Busy, GiveUp, envVars, osVars, chipVars
  <2>5. QED
    BY <2>1, <2>3, <2>4 DEF TypeOK, PlaceTypeOK, All
<1>3. CASE Sync("wait2", "WAIT2")
  <2>1. SyncTypeOK' /\ sync' = "poll" /\ drvMb' \in Message
    <3>1. load \in Nat /\ "WAIT2" \in Waits
      BY <1>0, LoadsAssumption DEF PlaceTypeOK, Waits
    <3>2. SyncSend("WAIT2")
      BY <1>3 DEF Sync
    <3>3. QED
      BY <1>0, <3>1, <3>2, SendType
  <2>2. UNCHANGED is5709
    BY <1>3 DEF Sync, envVars
  <2>3. PlaceTypeOK'
    BY <1>0, <1>3, <2>2, SameNeeded, LoadsAssumption
       DEF Sync, PlaceTypeOK, GiveUp, envVars, osVars, chipVars, Busy
  <2>4. LifeInv'
    BY <1>0, <1>3, <2>1, <2>2, SameNeeded
       DEF Sync, LifeInv, PlaceTypeOK, Prepared, Busy, GiveUp, envVars, osVars, chipVars
  <2>5. QED
    BY <2>1, <2>3, <2>4 DEF TypeOK, PlaceTypeOK, All
<1>4. CASE Answered("wait0", "reset")
  <2>1. SyncTypeOK' /\ (sync' # "none" => drvMb' \in Message)
    BY <1>0, <1>4, SyncStepType DEF Answered, LifeInv
  <2>0. sync' = "none"
    BY <1>4 DEF Answered, SyncReturn
  <2>2. UNCHANGED is5709
    BY <1>4 DEF Answered, envVars
  <2>3. PlaceTypeOK'
    BY <1>0, <1>4, <2>2, SameNeeded, LoadsAssumption
       DEF Answered, PlaceTypeOK, GiveUp, envVars, osVars, chipVars, Busy
  <2>4. LifeInv'
    BY <1>0, <1>4, <2>0, <2>1, <2>2, SameNeeded
       DEF Answered, LifeInv, PlaceTypeOK, Prepared, Busy, GiveUp, envVars, osVars, chipVars
  <2>5. QED
    BY <2>1, <2>3, <2>4 DEF TypeOK, PlaceTypeOK, All
<1>5. CASE Answered("wait1", "init")
  <2>1. SyncTypeOK' /\ (sync' # "none" => drvMb' \in Message)
    BY <1>0, <1>5, SyncStepType DEF Answered, LifeInv
  <2>0. sync' = "none"
    BY <1>5 DEF Answered, SyncReturn
  <2>2. UNCHANGED is5709
    BY <1>5 DEF Answered, envVars
  <2>3. PlaceTypeOK'
    BY <1>0, <1>5, <2>2, SameNeeded, LoadsAssumption
       DEF Answered, PlaceTypeOK, GiveUp, envVars, osVars, chipVars, Busy
  <2>4. LifeInv'
    BY <1>0, <1>5, <2>0, <2>1, <2>2, SameNeeded
       DEF Answered, LifeInv, PlaceTypeOK, Prepared, Busy, GiveUp, envVars, osVars, chipVars
  <2>5. QED
    BY <2>1, <2>3, <2>4 DEF TypeOK, PlaceTypeOK, All
<1>6. CASE NotAnswered("wait0")
  <2>1. SyncTypeOK' /\ (sync' # "none" => drvMb' \in Message)
    BY <1>0, <1>6, SyncStepType DEF NotAnswered, LifeInv
  <2>0. sync' = "none"
    BY <1>6 DEF NotAnswered, SyncReturn
  <2>2. UNCHANGED is5709
    BY <1>6 DEF NotAnswered, envVars
  <2>3. PlaceTypeOK'
    BY <1>0, <1>6, <2>2, SameNeeded, LoadsAssumption
       DEF NotAnswered, PlaceTypeOK, GiveUp, envVars, osVars, chipVars, Busy
  <2>4. LifeInv'
    BY <1>0, <1>6, <2>0, <2>1, <2>2, SameNeeded
       DEF NotAnswered, LifeInv, PlaceTypeOK, Prepared, Busy, GiveUp, envVars, osVars, chipVars
  <2>5. QED
    BY <2>1, <2>3, <2>4 DEF TypeOK, PlaceTypeOK, All
<1>7. CASE NotAnswered("wait1")
  <2>1. SyncTypeOK' /\ (sync' # "none" => drvMb' \in Message)
    BY <1>0, <1>7, SyncStepType DEF NotAnswered, LifeInv
  <2>0. sync' = "none"
    BY <1>7 DEF NotAnswered, SyncReturn
  <2>2. UNCHANGED is5709
    BY <1>7 DEF NotAnswered, envVars
  <2>3. PlaceTypeOK'
    BY <1>0, <1>7, <2>2, SameNeeded, LoadsAssumption
       DEF NotAnswered, PlaceTypeOK, GiveUp, envVars, osVars, chipVars, Busy
  <2>4. LifeInv'
    BY <1>0, <1>7, <2>0, <2>1, <2>2, SameNeeded
       DEF NotAnswered, LifeInv, PlaceTypeOK, Prepared, Busy, GiveUp, envVars, osVars, chipVars
  <2>5. QED
    BY <2>1, <2>3, <2>4 DEF TypeOK, PlaceTypeOK, All
<1>8. CASE Wait2Over
  <2>1. SyncTypeOK' /\ (sync' # "none" => drvMb' \in Message)
    BY <1>0, <1>8, SyncStepType DEF Wait2Over, LifeInv
  <2>0. sync' = "none"
    BY <1>8 DEF Wait2Over, SyncReturn
  <2>2. UNCHANGED is5709
    BY <1>8 DEF Wait2Over, envVars
  <2>3. PlaceTypeOK'
    BY <1>0, <1>8, <2>2, SameNeeded, LoadsAssumption
       DEF Wait2Over, PlaceTypeOK, GiveUp, envVars, osVars, chipVars, Busy
  <2>4. LifeInv'
    BY <1>0, <1>8, <2>0, <2>1, <2>2, SameNeeded
       DEF Wait2Over, LifeInv, PlaceTypeOK, Prepared, Busy, GiveUp, envVars, osVars, chipVars
  <2>5. QED
    BY <2>1, <2>3, <2>4 DEF TypeOK, PlaceTypeOK, All
<1>9. CASE SyncSteps
  <2>1. SyncTypeOK' /\ (sync' # "none" => drvMb' \in Message)
    BY <1>0, <1>9, SyncStepType DEF SyncSteps, LifeInv
  <2>0. sync # "none"
    BY <1>9 DEF SyncSteps, SyncPoll, SyncTimeout
  <2>2. UNCHANGED is5709
    BY <1>9 DEF SyncSteps, envVars
  <2>3. PlaceTypeOK'
    BY <1>0, <1>9, <2>2, SameNeeded, LoadsAssumption
       DEF SyncSteps, PlaceTypeOK, GiveUp, envVars, osVars, chipVars, Busy
  <2>4. LifeInv'
    BY <1>0, <1>9, <2>0, <2>1, <2>2, SameNeeded
       DEF SyncSteps, LifeInv, PlaceTypeOK, Prepared, Busy, GiveUp, envVars, osVars, chipVars
  <2>5. QED
    BY <2>1, <2>3, <2>4 DEF TypeOK, PlaceTypeOK, All
<1>10. CASE Firmware
  <2>1. SyncTypeOK' /\ (sync' # "none" => drvMb' \in Message)
    BY <1>0, <1>10, SyncStepType DEF Firmware, LifeInv
  <2>0. sync' = sync
    BY <1>10 DEF Firmware, FwTake, FwAnswer
  <2>2. UNCHANGED is5709
    BY <1>10 DEF Firmware, envVars
  <2>3. PlaceTypeOK'
    BY <1>0, <1>10, <2>2, SameNeeded, LoadsAssumption
       DEF Firmware, PlaceTypeOK, GiveUp, envVars, osVars, chipVars, Busy
  <2>4. LifeInv'
    BY <1>0, <1>10, <2>0, <2>1, <2>2, SameNeeded
       DEF Firmware, LifeInv, PlaceTypeOK, Prepared, Busy, GiveUp, envVars, osVars, chipVars
  <2>5. QED
    BY <2>1, <2>3, <2>4 DEF TypeOK, PlaceTypeOK, All
<1>11. QED
  BY <1>1, <1>2, <1>3, <1>4, <1>5, <1>6, <1>7, <1>8, <1>9, <1>10

\* The reset and what follows it.
LEMMA ChipStep ==
  ASSUME TypeOK, LifeInv,
         ResetChip \/ ResetStuck \/ ResetBadSwap \/ InitMask \/ InitChip \/ InitChipFails
  PROVE TypeOK' /\ LifeInv'
<1>0. SyncTypeOK /\ PlaceTypeOK
  BY DEF TypeOK, PlaceTypeOK, All
<1>1. CASE ResetChip
  <2>1. SyncTypeOK' /\ (sync' # "none" => drvMb' \in Message)
    BY <1>0, <1>1, SyncStepType DEF ResetChip, LifeInv
  <2>0. sync' = sync
    BY <1>1 DEF ResetChip, FwRestart
  <2>2. UNCHANGED is5709
    BY <1>1 DEF ResetChip, envVars
  <2>3. PlaceTypeOK'
    BY <1>0, <1>1, <2>2, SameNeeded, LoadsAssumption
       DEF ResetChip, PlaceTypeOK, GiveUp, envVars, osVars, chipVars, Busy
  <2>4. LifeInv'
    BY <1>0, <1>1, <2>0, <2>1, <2>2, SameNeeded
       DEF ResetChip, LifeInv, PlaceTypeOK, Prepared, Busy, GiveUp, envVars, osVars, chipVars
  <2>5. QED
    BY <2>1, <2>3, <2>4 DEF TypeOK, PlaceTypeOK, All
<1>2. CASE ResetStuck
  <2>1. SyncTypeOK' /\ UNCHANGED <<sync, drvMb>>
    <3>1. CASE FwRestart
      BY <1>0, <3>1 DEF FwRestart, SyncTypeOK
    <3>2. CASE UNCHANGED syncVars
      BY <1>0, <3>2 DEF SyncTypeOK, syncVars, fwVars
    <3>3. QED
      BY <1>2, <3>1, <3>2 DEF ResetStuck
  <2>2. UNCHANGED is5709
    BY <1>2 DEF ResetStuck, envVars
  <2>3. PlaceTypeOK'
    BY <1>0, <1>2, <2>2, SameNeeded, LoadsAssumption
       DEF ResetStuck, PlaceTypeOK, GiveUp, envVars, osVars, chipVars, Busy
  <2>4. LifeInv'
    BY <1>0, <1>2, <2>1, <2>2, SameNeeded
       DEF ResetStuck, LifeInv, PlaceTypeOK, Prepared, Busy, GiveUp, envVars, osVars, chipVars
  <2>5. QED
    BY <2>1, <2>3, <2>4 DEF TypeOK, PlaceTypeOK, All
<1>3. CASE ResetBadSwap
  <2>1. SyncTypeOK' /\ (sync' # "none" => drvMb' \in Message)
    BY <1>0, <1>3, SyncStepType DEF ResetBadSwap, LifeInv
  <2>0. sync' = sync
    BY <1>3 DEF ResetBadSwap, FwRestart
  <2>2. UNCHANGED is5709
    BY <1>3 DEF ResetBadSwap, envVars
  <2>3. PlaceTypeOK'
    BY <1>0, <1>3, <2>2, SameNeeded, LoadsAssumption
       DEF ResetBadSwap, PlaceTypeOK, GiveUp, envVars, osVars, chipVars, Busy
  <2>4. LifeInv'
    BY <1>0, <1>3, <2>0, <2>1, <2>2, SameNeeded
       DEF ResetBadSwap, LifeInv, PlaceTypeOK, Prepared, Busy, GiveUp, envVars, osVars, chipVars
  <2>5. QED
    BY <2>1, <2>3, <2>4 DEF TypeOK, PlaceTypeOK, All
<1>4. CASE InitMask
  <2>1. SyncTypeOK' /\ UNCHANGED <<sync, drvMb>>
    BY <1>0, <1>4, SyncAssumption DEF InitMask, SyncTypeOK, syncVars, fwVars
  <2>2. UNCHANGED is5709
    BY <1>4 DEF InitMask, envVars
  <2>3. PlaceTypeOK'
    BY <1>0, <1>4, <2>2, SameNeeded, LoadsAssumption
       DEF InitMask, PlaceTypeOK, GiveUp, envVars, osVars, chipVars, Busy
  <2>4. LifeInv'
    BY <1>0, <1>4, <2>1, <2>2, SameNeeded
       DEF InitMask, LifeInv, PlaceTypeOK, Prepared, Busy, GiveUp, envVars, osVars, chipVars
  <2>5. QED
    BY <2>1, <2>3, <2>4 DEF TypeOK, PlaceTypeOK, All
<1>5. CASE InitChip
  <2>1. SyncTypeOK' /\ UNCHANGED <<sync, drvMb>>
    BY <1>0, <1>5, SyncAssumption DEF InitChip, SyncTypeOK, syncVars, fwVars
  <2>2. UNCHANGED is5709
    BY <1>5 DEF InitChip, envVars
  <2>3. PlaceTypeOK'
    BY <1>0, <1>5, <2>2, SameNeeded, LoadsAssumption
       DEF InitChip, PlaceTypeOK, GiveUp, envVars, osVars, chipVars, Busy
  <2>4. LifeInv'
    BY <1>0, <1>5, <2>1, <2>2, SameNeeded
       DEF InitChip, LifeInv, PlaceTypeOK, Prepared, Busy, GiveUp, envVars, osVars, chipVars
  <2>5. QED
    BY <2>1, <2>3, <2>4 DEF TypeOK, PlaceTypeOK, All
<1>6. CASE InitChipFails
  <2>1. SyncTypeOK' /\ UNCHANGED <<sync, drvMb>>
    BY <1>0, <1>6, SyncAssumption DEF InitChipFails, SyncTypeOK, syncVars, fwVars
  <2>2. UNCHANGED is5709
    BY <1>6 DEF InitChipFails, envVars
  <2>3. PlaceTypeOK'
    BY <1>0, <1>6, <2>2, SameNeeded, LoadsAssumption
       DEF InitChipFails, PlaceTypeOK, GiveUp, envVars, osVars, chipVars, Busy
  <2>4. LifeInv'
    BY <1>0, <1>6, <2>1, <2>2, SameNeeded
       DEF InitChipFails, LifeInv, PlaceTypeOK, Prepared, Busy, GiveUp, envVars, osVars, chipVars
  <2>5. QED
    BY <2>1, <2>3, <2>4 DEF TypeOK, PlaceTypeOK, All
<1>7. QED
  BY <1>1, <1>2, <1>3, <1>4, <1>5, <1>6

\* The end of start() and enable(), stop() and free().
LEMMA EndStep ==
  ASSUME TypeOK, LifeInv,
         Attach \/ Enable \/ Enabled \/ Stop \/ Free
  PROVE TypeOK' /\ LifeInv'
<1>0. SyncTypeOK /\ PlaceTypeOK
  BY DEF TypeOK, PlaceTypeOK, All
<1>1. CASE Attach
  <2>1. SyncTypeOK' /\ UNCHANGED <<sync, drvMb>>
    BY <1>0, <1>1, SyncAssumption DEF Attach, SyncTypeOK, syncVars, fwVars
  <2>2. UNCHANGED is5709
    BY <1>1 DEF Attach, envVars
  <2>3. PlaceTypeOK'
    BY <1>0, <1>1, <2>2, SameNeeded, LoadsAssumption
       DEF Attach, PlaceTypeOK, GiveUp, envVars, osVars, chipVars, Busy
  <2>4. LifeInv'
    BY <1>0, <1>1, <2>1, <2>2, SameNeeded
       DEF Attach, LifeInv, PlaceTypeOK, Prepared, Busy, GiveUp, envVars, osVars, chipVars
  <2>5. QED
    BY <2>1, <2>3, <2>4 DEF TypeOK, PlaceTypeOK, All
<1>2. CASE Enable
  <2>1. SyncTypeOK' /\ UNCHANGED <<sync, drvMb>>
    BY <1>0, <1>2, SyncAssumption DEF Enable, SyncTypeOK, syncVars, fwVars
  <2>2. UNCHANGED is5709
    BY <1>2 DEF Enable, envVars
  <2>3. PlaceTypeOK'
    BY <1>0, <1>2, <2>2, SameNeeded, LoadsAssumption
       DEF Enable, PlaceTypeOK, GiveUp, envVars, osVars, chipVars, Busy
  <2>4. LifeInv'
    BY <1>0, <1>2, <2>1, <2>2, SameNeeded
       DEF Enable, LifeInv, PlaceTypeOK, Prepared, Busy, GiveUp, envVars, osVars, chipVars
  <2>5. QED
    BY <2>1, <2>3, <2>4 DEF TypeOK, PlaceTypeOK, All
<1>3. CASE Enabled
  <2>1. SyncTypeOK' /\ UNCHANGED <<sync, drvMb>>
    BY <1>0, <1>3, SyncAssumption DEF Enabled, SyncTypeOK, syncVars, fwVars
  <2>2. UNCHANGED is5709
    BY <1>3 DEF Enabled, envVars
  <2>3. PlaceTypeOK'
    BY <1>0, <1>3, <2>2, SameNeeded, LoadsAssumption
       DEF Enabled, PlaceTypeOK, GiveUp, envVars, osVars, chipVars, Busy
  <2>4. LifeInv'
    BY <1>0, <1>3, <2>1, <2>2, SameNeeded
       DEF Enabled, LifeInv, PlaceTypeOK, Prepared, Busy, GiveUp, envVars, osVars, chipVars
  <2>5. QED
    BY <2>1, <2>3, <2>4 DEF TypeOK, PlaceTypeOK, All
<1>4. CASE Stop
  <2>1. SyncTypeOK' /\ UNCHANGED <<sync, drvMb>>
    BY <1>0, <1>4, SyncAssumption DEF Stop, SyncTypeOK, syncVars, fwVars
  <2>2. UNCHANGED is5709
    BY <1>4 DEF Stop, envVars
  <2>3. PlaceTypeOK'
    BY <1>0, <1>4, <2>2, SameNeeded, LoadsAssumption
       DEF Stop, PlaceTypeOK, GiveUp, envVars, osVars, chipVars, Busy
  <2>4. LifeInv'
    BY <1>0, <1>4, <2>1, <2>2, SameNeeded
       DEF Stop, LifeInv, PlaceTypeOK, Prepared, Busy, GiveUp, envVars, osVars, chipVars
  <2>5. QED
    BY <2>1, <2>3, <2>4 DEF TypeOK, PlaceTypeOK, All
<1>5. CASE Free
  <2>1. SyncTypeOK' /\ UNCHANGED <<sync, drvMb>>
    BY <1>0, <1>5, SyncAssumption DEF Free, SyncTypeOK, syncVars, fwVars
  <2>2. UNCHANGED is5709
    BY <1>5 DEF Free, envVars
  <2>3. PlaceTypeOK'
    BY <1>0, <1>5, <2>2, SameNeeded, LoadsAssumption
       DEF Free, PlaceTypeOK, GiveUp, envVars, osVars, chipVars, Busy
  <2>4. LifeInv'
    <3>1. CASE All \subseteq buffers
      <4>1. buffers' = {} /\ pc' = "unloaded"
        BY <1>5, <3>1 DEF Free, All
      <4>2. QED
        BY <1>0, <1>5, <2>1, <2>2, <4>1 DEF Free, LifeInv, PlaceTypeOK, Prepared, Busy, envVars
    <3>2. CASE ~(All \subseteq buffers)
      <4>1. buffers' = buffers /\ pc' = "panic"
        BY <1>5, <3>2 DEF Free, All
      <4>2. pc = "failed" /\ buffers = {}
        BY <1>5, <3>2 DEF Free, LifeInv
      <4>3. QED
        BY <1>0, <1>5, <2>1, <2>2, <4>1, <4>2
           DEF Free, LifeInv, PlaceTypeOK, Prepared, Busy, envVars
    <3>3. QED
      BY <3>1, <3>2
  <2>5. QED
    BY <2>1, <2>3, <2>4 DEF TypeOK, PlaceTypeOK, All
<1>6. QED
  BY <1>1, <1>2, <1>3, <1>4, <1>5

LEMMA LifeStep ==
  ASSUME TypeOK, LifeInv, [Next]_vars
  PROVE TypeOK' /\ LifeInv'
<1>1. CASE Next
  BY <1>1, LoadOpenStep, WaitStep, ChipStep, EndStep DEF Next, Call
<1>2. CASE UNCHANGED vars
  <2>1. UNCHANGED <<envVars, sync, drvMb, fwMb, fwBusy, drvNew, polls, fwSyncSeq, op, pc>>
    BY <1>2 DEF vars, syncVars, fwVars
  <2>2. UNCHANGED <<is5709, buffers, nubOpen, source, chip, masked, isEnabled, load, firstLeft>>
    BY <1>2 DEF vars, osVars, chipVars, envVars
  <2>3. TypeOK'
    BY <2>1, <2>2, SameNeeded DEF TypeOK, SyncTypeOK, All
  <2>4. LifeInv'
    BY <2>1, <2>2, SameNeeded DEF LifeInv
  <2>5. QED
    BY <2>3, <2>4
<1>3. QED
  BY <1>1, <1>2

LEMMA LifeInvariant == Spec => [](TypeOK /\ LifeInv)
<1>1. TypeOK /\ LifeInv /\ [Next]_vars => (TypeOK /\ LifeInv)'
  BY LifeStep
<1>2. QED
  BY <1>1, LifeInit, PTL DEF Spec

\* The variables of the life cycle and of firmwareSync keep their types, however
\* often the driver is loaded: the free buffers' count never runs past the last
\* buffer that the chip needs (prepareController, Controller.cpp:101).
THEOREM TypeCorrect == Spec => []TypeOK
<1>1. QED
  BY LifeInvariant, PTL

\* isEnabled (AzulNX2Ethernet.cpp:208) is only ever set with the buffers
\* allocated, the nub open and the controller running, and nothing takes these
\* away while it is set.
THEOREM EnabledReadyTheorem == Spec => []EnabledReady
<1>1. LifeInv => EnabledReady
  BY DEF LifeInv, EnabledReady, All, Busy, Prepared
<1>2. QED
  BY <1>1, LifeInvariant, PTL

\* free() (AzulNX2Ethernet.cpp:130) frees all buffers or, after a start() that
\* failed before they were allocated, none.
THEOREM FreeCompleteTheorem == Spec => []FreeComplete
<1>1. LifeInv => FreeComplete
  BY DEF LifeInv, FreeComplete, All, Prepared
<1>2. QED
  BY <1>1, LifeInvariant, PTL
-----------------------------------------------------------------------------
(***************************************************************************)
(* firmwareSync and the bootcode.                                          *)
(***************************************************************************)
LEMMA MessageInit == Init => SeqInv /\ LateInv /\ MessageInv
BY SyncAssumption
   DEF Init, SyncInit, SeqInv, LateInv, MessageInv, Busy, Left, NoMessage

\* A call that gives up has sent no more messages than one that ends well.
LEMMA GiveUpSeq ==
  ASSUME TypeOK, LifeInv, SeqInv, GiveUp,
         pc \in {"wait0", "reset", "wait1", "setup"}, pc # "wait0" \/ sync # "none",
         UNCHANGED <<fwSyncSeq, load, op>>
  PROVE SeqInv'
<1>1. load > 0 /\ nubOpen /\ fwSyncSeq \in Nat /\ op \in {"start", "enable"}
  BY SyncAssumption DEF LifeInv, Prepared, TypeOK, SyncTypeOK
<1>2. /\ pc' \in {"failed", "idle"} /\ (op = "start" => pc' = "failed")
      /\ pc' = "idle" => op = "enable" /\ nubOpen'
  BY <1>1 DEF GiveUp
<1>3. SentHere \in 1 .. 3
  BY DEF SentHere
<1>4. fwSyncSeq = SentHere + IF op = "start" THEN 0 ELSE 3
  BY DEF SeqInv, Busy
<1>5. fwSyncSeq <= 6 /\ (op = "enable" => fwSyncSeq \in 3 .. 6)
  BY <1>1, <1>3, <1>4
<1>6. QED
  BY <1>1, <1>2, <1>5 DEF SeqInv, Busy

\* The numbers of the messages.
LEMMA SeqStep ==
  ASSUME TypeOK, LifeInv, SeqInv, Next
  PROVE SeqInv'
<1>0. /\ fwSyncSeq \in Nat /\ load \in Nat /\ op \in {"start", "enable"}
      /\ fwSyncSeq + 1 < SeqSpace => NextSeq = fwSyncSeq + 1
  BY SyncAssumption, LoadsAssumption DEF TypeOK, SyncTypeOK, NextSeq
<1>1. CASE Load
  <2>1. load' = load + 1 /\ fwSyncSeq' = 0 /\ pc' = "open" /\ op' = "start"
    BY <1>1 DEF Load
  <2>2. SentHere' = 0
    BY <2>1 DEF SentHere
  <2>3. QED
    BY <1>0, <2>1, <2>2 DEF SeqInv, Busy
<1>2. CASE Open
  BY <1>0, <1>2, SyncAssumption
     DEF Open, SeqInv, LifeInv, SentHere, Prepared, Busy, GiveUp, envVars, osVars,
         chipVars, syncVars, fwVars
<1>3. CASE OpenFails
  BY <1>0, <1>3, SyncAssumption
     DEF OpenFails, SeqInv, LifeInv, SentHere, Prepared, Busy, GiveUp, envVars, osVars,
         chipVars, syncVars, fwVars
<1>4. CASE Alloc
  BY <1>0, <1>4, SyncAssumption
     DEF Alloc, SeqInv, LifeInv, SentHere, Prepared, Busy, GiveUp, envVars, osVars,
         chipVars, syncVars, fwVars
<1>5. CASE AllocFails
  BY <1>0, <1>5, SyncAssumption
     DEF AllocFails, SeqInv, LifeInv, SentHere, Prepared, Busy, GiveUp, envVars, osVars,
         chipVars, syncVars, fwVars
<1>6. CASE SyncReset
  BY <1>0, <1>6, SyncAssumption
     DEF SyncReset, SyncSend, SeqInv, LifeInv, SentHere, Prepared, Busy, GiveUp, envVars,
         osVars, chipVars, syncVars, fwVars
<1>7. CASE Sync("wait1", "WAIT1")
  BY <1>0, <1>7, SyncAssumption
     DEF Sync, SyncSend, SeqInv, LifeInv, SentHere, Prepared, Busy, GiveUp, envVars,
         osVars, chipVars, syncVars, fwVars
<1>8. CASE Sync("wait2", "WAIT2")
  BY <1>0, <1>8, SyncAssumption
     DEF Sync, SyncSend, SeqInv, LifeInv, SentHere, Prepared, Busy, GiveUp, envVars,
         osVars, chipVars, syncVars, fwVars
<1>9. CASE Answered("wait0", "reset")
  BY <1>0, <1>9, SyncAssumption
     DEF Answered, SyncReturn, SeqInv, LifeInv, SentHere, Prepared, Busy, GiveUp,
         envVars, osVars, chipVars, syncVars, fwVars
<1>10. CASE Answered("wait1", "init")
  BY <1>0, <1>10, SyncAssumption
     DEF Answered, SyncReturn, SeqInv, LifeInv, SentHere, Prepared, Busy, GiveUp,
         envVars, osVars, chipVars, syncVars, fwVars
<1>11. CASE NotAnswered("wait0")
  BY <1>11, GiveUpSeq DEF NotAnswered, SyncReturn, envVars, syncVars
<1>12. CASE NotAnswered("wait1")
  BY <1>12, GiveUpSeq DEF NotAnswered, SyncReturn, envVars, syncVars
<1>13. CASE Wait2Over
  BY <1>0, <1>13, SyncAssumption
     DEF Wait2Over, SyncReturn, SeqInv, LifeInv, SentHere, Prepared, Busy, GiveUp,
         envVars, osVars, chipVars, syncVars, fwVars
<1>14. CASE SyncSteps
  BY <1>0, <1>14, SyncAssumption
     DEF SyncSteps, SyncPoll, SyncTimeout, SeqInv, LifeInv, SentHere, Prepared, Busy,
         GiveUp, envVars, osVars, chipVars, syncVars, fwVars
<1>15. CASE Firmware
  BY <1>0, <1>15, SyncAssumption
     DEF Firmware, FwTake, FwAnswer, SeqInv, LifeInv, SentHere, Prepared, Busy, GiveUp,
         envVars, osVars, chipVars, syncVars, fwVars
<1>16. CASE ResetChip
  BY <1>0, <1>16, SyncAssumption
     DEF ResetChip, FwRestart, SeqInv, LifeInv, SentHere, Prepared, Busy, GiveUp,
         envVars, osVars, chipVars, syncVars, fwVars
<1>17. CASE ResetStuck
  BY <1>17, GiveUpSeq DEF ResetStuck, FwRestart, envVars, syncVars
<1>18. CASE ResetBadSwap
  BY <1>18, GiveUpSeq DEF ResetBadSwap, FwRestart, envVars, syncVars
<1>19. CASE InitMask
  BY <1>0, <1>19, SyncAssumption
     DEF InitMask, SeqInv, LifeInv, SentHere, Prepared, Busy, GiveUp, envVars, osVars,
         chipVars, syncVars, fwVars
<1>20. CASE InitChip
  BY <1>0, <1>20, SyncAssumption
     DEF InitChip, SeqInv, LifeInv, SentHere, Prepared, Busy, GiveUp, envVars, osVars,
         chipVars, syncVars, fwVars
<1>21. CASE InitChipFails
  BY <1>21, GiveUpSeq DEF InitChipFails, envVars, syncVars
<1>22. CASE Attach
  BY <1>0, <1>22, SyncAssumption
     DEF Attach, SeqInv, LifeInv, SentHere, Prepared, Busy, GiveUp, envVars, osVars,
         chipVars, syncVars, fwVars
<1>23. CASE Enable
  BY <1>0, <1>23, SyncAssumption
     DEF Enable, SeqInv, LifeInv, SentHere, Prepared, Busy, GiveUp, envVars, osVars,
         chipVars, syncVars, fwVars
<1>24. CASE Enabled
  BY <1>0, <1>24, SyncAssumption
     DEF Enabled, SeqInv, LifeInv, SentHere, Prepared, Busy, GiveUp, envVars, osVars,
         chipVars, syncVars, fwVars
<1>25. CASE Stop
  BY <1>0, <1>25, SyncAssumption
     DEF Stop, SeqInv, LifeInv, SentHere, Prepared, Busy, GiveUp, envVars, osVars,
         chipVars, syncVars, fwVars
<1>26. CASE Free
  <2>1. /\ pc \in {"stopped", "failed"} /\ pc' \in {"unloaded", "panic"}
        /\ UNCHANGED <<load, fwSyncSeq>>
    BY <1>26 DEF Free, envVars, syncVars
  <2>2. load > 0 /\ fwSyncSeq <= 6
    BY <2>1 DEF LifeInv, SeqInv
  <2>3. QED
    BY <2>1, <2>2 DEF SeqInv, Busy
<1>27. QED
  BY <1>1, <1>2, <1>3, <1>4, <1>5, <1>6, <1>7, <1>8, <1>9, <1>10, <1>11, <1>12, <1>13,
     <1>14, <1>15, <1>16, <1>17, <1>18, <1>19, <1>20, <1>21, <1>22, <1>23, <1>24, <1>25, <1>26
     DEF Next, Call

\* The types of the messages, and what their numbers are.
LEMMA Numbers ==
  ASSUME TypeOK
  PROVE /\ load \in Nat /\ fwSyncSeq \in Nat
        /\ drvMb \in Message \cup Left \cup {NoMessage}
        /\ fwMb \in Message \cup Left \cup {NoMessage}
        /\ fwBusy \in Message \cup Left \cup {NoMessage}
        /\ NoMessage.seq = 0 /\ NoMessage.load = 0
        /\ drvMb.seq \in Nat /\ fwMb.seq \in Nat /\ fwBusy.seq \in Nat
        /\ drvMb.load \in Nat /\ fwMb.load \in Nat /\ fwBusy.load \in Nat
<1>1. /\ load \in Nat /\ fwSyncSeq \in Nat
      /\ drvMb \in Message \cup Left \cup {NoMessage}
      /\ fwMb \in Message \cup Left \cup {NoMessage}
      /\ fwBusy \in Message \cup Left \cup {NoMessage}
  BY SyncAssumption, LoadsAssumption DEF TypeOK, SyncTypeOK
<1>2. \A m \in Message : m.seq \in Nat /\ m.load \in Nat
  BY SyncAssumption DEF Message
<1>3. \A m \in Left : m.seq \in Nat /\ m.load \in Nat
  BY SyncAssumption DEF Left
<1>4. QED
  BY <1>1, <1>2, <1>3 DEF NoMessage

\* Steps of the driver that are no business of the bootcode's.
LEMMA QuietSync ==
  ASSUME \/ Open \/ OpenFails \/ Alloc \/ AllocFails \/ InitMask \/ InitChip
         \/ InitChipFails \/ Attach \/ Enable \/ Enabled \/ Stop \/ Free
  PROVE UNCHANGED <<envVars, syncVars>>
BY DEF Open, OpenFails, Alloc, AllocFails, InitMask, InitChip, InitChipFails, Attach, Enable,
       Enabled, Stop, Free

LEMMA NotLoad ==
  ASSUME Next, ~Load
  PROVE UNCHANGED envVars
<1>1. CASE \/ Open \/ OpenFails \/ Alloc \/ AllocFails \/ InitMask \/ InitChip
           \/ InitChipFails \/ Attach \/ Enable \/ Enabled \/ Stop \/ Free
  BY <1>1, QuietSync
<1>2. CASE ResetChip \/ ResetBadSwap \/ ResetStuck
  BY <1>2 DEF ResetChip, ResetBadSwap, ResetStuck
<1>3. CASE SyncReset \/ Sync("wait1", "WAIT1") \/ Sync("wait2", "WAIT2")
  BY <1>3 DEF SyncReset, Sync
<1>4. CASE \/ Answered("wait0", "reset") \/ Answered("wait1", "init")
           \/ NotAnswered("wait0") \/ NotAnswered("wait1") \/ Wait2Over
  BY <1>4 DEF Answered, NotAnswered, Wait2Over
<1>5. CASE SyncSteps \/ Firmware
  BY <1>5 DEF SyncSteps, Firmware
<1>6. QED
  BY <1>1, <1>2, <1>3, <1>4, <1>5 DEF Next, Call

\* A message's number is the next, whatever place it is sent from.
LEMMA SendNumber ==
  ASSUME TypeOK, LifeInv, SeqInv, pc \in {"wait0", "wait1", "wait2"}, sync = "none"
  PROVE /\ load > 0 /\ NextSeq = fwSyncSeq + 1
        /\ fwSyncSeq \in 0 .. 5
        /\ fwSyncSeq = 0 => pc = "wait0"
        /\ fwSyncSeq = 1 => pc = "wait1"
        /\ fwSyncSeq = 2 => pc = "wait2"
<1>1. load > 0 /\ op \in {"start", "enable"}
  BY DEF TypeOK, LifeInv
<1>2. /\ fwSyncSeq = SentHere + IF op = "start" THEN 0 ELSE 3
      /\ SentHere = CASE pc = "wait0" -> 0 [] pc = "wait1" -> 1 [] pc = "wait2" -> 2
  BY DEF SeqInv, SentHere, Busy
<1>3. fwSyncSeq \in 0 .. 5
  BY <1>1, <1>2
<1>4. NextSeq = fwSyncSeq + 1
  BY <1>3, SyncAssumption DEF NextSeq
<1>5. QED
  BY <1>1, <1>2, <1>3, <1>4

\* A new message has a number that no other has.
LEMMA SendMessage ==
  ASSUME TypeOK, LifeInv, SeqInv, CleanInv, NEW w \in Waits, SyncSend(w),
         \/ pc = "wait0" /\ w = "WAIT0"
         \/ pc = "wait1" /\ w = "WAIT1"
         \/ pc = "wait2" /\ w = "WAIT2",
         UNCHANGED <<load, pc>>
  PROVE CleanInv'
<1>1. sync = "none" /\ pc \in {"wait0", "wait1", "wait2"}
  BY DEF SyncSend
<1>2. fwSyncSeq \in Nat /\ load > 0
  BY <1>1, SendNumber
<1>3. /\ fwSyncSeq \in 0 .. 5
      /\ fwSyncSeq = 0 => pc = "wait0"
      /\ fwSyncSeq = 1 => pc = "wait1"
      /\ fwSyncSeq = 2 => pc = "wait2"
  BY <1>1, SendNumber
<1>4. fwSyncSeq' = fwSyncSeq + 1 /\ fwSyncSeq' \in 1 .. SeqSpace - 1
  BY <1>1, <1>3, SendNumber, SyncAssumption DEF SyncSend
<1>5. /\ drvMb' = [wait |-> w, code |-> "RESET", seq |-> fwSyncSeq', load |-> load]
      /\ fwMb' = fwMb /\ fwBusy' = fwBusy /\ drvNew' /\ sync' = "poll"
  BY DEF SyncSend
<1>6. Sent(w)' /\ Older(drvMb)'
  BY <1>4, <1>5, Numbers DEF Sent, Older, Message
<1>7. fwMb.seq # fwSyncSeq' /\ fwBusy.seq # fwSyncSeq'
  <2>1. CASE fwSyncSeq = 0
    BY <1>4, <2>1 DEF CleanInv, NoFirstInv
  <2>2. CASE fwSyncSeq > 0
    <3>1. Older(fwMb) /\ Older(fwBusy)
      BY <1>3, <2>2 DEF CleanInv, OwnInv
    <3>2. QED
      BY <1>3, <1>4, <3>1, Numbers DEF Older
  <2>3. QED
    BY <1>3, <2>1, <2>2
<1>8. drvMb'.seq = fwSyncSeq'
  BY <1>5
<1>9. OwnInv'
  <2>1. SUFFICES ASSUME fwSyncSeq' >= 2 \/ pc' \in {"reset", "wait1"}
                 PROVE Older(fwMb)' /\ Older(fwBusy)'
    BY <1>6 DEF OwnInv
  <2>2. fwSyncSeq > 0
    BY <1>2, <1>3, <1>4, <2>1
  <2>3. Older(fwMb) /\ Older(fwBusy)
    BY <1>3, <2>2 DEF CleanInv, OwnInv
  <2>4. QED
    BY <1>3, <1>4, <1>5, <2>3 DEF Older
<1>10. NoFirstInv'
  BY <1>4 DEF NoFirstInv
<1>11. AnswerInv'
  BY <1>5, <1>6, <1>7, <1>8 DEF AnswerInv
<1>12. QED
  BY <1>9, <1>10, <1>11 DEF CleanInv

\* Steps that leave the mailboxes alone.
LEMMA SameMessage ==
  ASSUME LifeInv, CleanInv, UNCHANGED <<load, syncVars>>, sync = "none",
         pc' \in {"reset", "wait1", "init", "setup", "wait2"} =>
           \/ pc = "init" /\ pc' = "setup"
           \/ pc = "setup" /\ pc' = "wait2"
  PROVE CleanInv'
<1>1. UNCHANGED <<load, fwSyncSeq, sync, drvMb, drvNew, fwMb, fwBusy>>
  BY DEF syncVars, fwVars
<1>2. OwnInv' /\ NoFirstInv'
  BY <1>1 DEF CleanInv, OwnInv, NoFirstInv, Older
<1>3. AnswerInv'
  BY <1>1 DEF CleanInv, AnswerInv, Sent, Answer
<1>4. QED
  BY <1>2, <1>3 DEF CleanInv

\* A call of firmwareSync returns: what it reports as answered is answered.
LEMMA ReturnMessage ==
  ASSUME TypeOK, LifeInv, SeqInv, CleanInv, UNCHANGED load,
         \/ SyncReturn("ok") /\ pc = "wait0" /\ pc' = "reset"
         \/ SyncReturn("ok") /\ pc = "wait1" /\ pc' = "init"
         \/ /\ SyncReturn("ok") \/ SyncReturn("failed")
            /\ pc' \notin {"reset", "wait1", "init", "setup", "wait2"}
  PROVE CleanInv'
<1>1. sync # "none" /\ sync' = "none" /\ UNCHANGED <<fwSyncSeq, drvMb, drvNew, fwMb, fwBusy>>
  BY DEF SyncReturn, fwVars
<1>2. pc' = "reset" => Sent("WAIT0") /\ Answer
  BY DEF CleanInv, AnswerInv, SyncReturn
<1>3. pc' = "init" => Sent("WAIT1") /\ Answer
  BY DEF CleanInv, AnswerInv, SyncReturn
<1>4. OwnInv'
  <2>1. CASE pc' = "reset"
    BY <1>1, <1>2, <2>1, Numbers DEF OwnInv, Older, Sent, Answer
  <2>2. CASE pc' # "reset"
    BY <1>1, <2>2 DEF CleanInv, OwnInv, Older
  <2>3. QED
    BY <2>1, <2>2
<1>5. NoFirstInv'
  BY <1>1 DEF CleanInv, NoFirstInv
<1>6. AnswerInv'
  BY <1>1, <1>2, <1>3 DEF AnswerInv, Sent, Answer
<1>7. QED
  BY <1>4, <1>5, <1>6 DEF CleanInv

\* A poll that finds the number of the message has found its answer.
LEMMA PollMessage ==
  ASSUME TypeOK, LifeInv, CleanInv, SyncPoll, UNCHANGED <<load, pc>>
  PROVE CleanInv'
<1>1. /\ sync = "poll" /\ sync' \in {"poll", "ok"}
      /\ UNCHANGED <<fwSyncSeq, drvMb, drvNew, fwMb, fwBusy>>
  BY DEF SyncPoll, fwVars
<1>2. pc \in {"wait0", "wait1", "wait2"} /\ drvMb.seq = fwSyncSeq
  BY <1>1 DEF LifeInv, CleanInv, AnswerInv, Sent
<1>3. sync' = "ok" => fwMb = drvMb
  BY <1>1, <1>2 DEF SyncPoll, CleanInv, AnswerInv
<1>4. OwnInv' /\ NoFirstInv'
  BY <1>1 DEF CleanInv, OwnInv, NoFirstInv, Older
<1>5. AnswerInv'
  BY <1>1, <1>2, <1>3 DEF CleanInv, AnswerInv, Sent, Answer
<1>6. QED
  BY <1>4, <1>5 DEF CleanInv

\* After a time-out nothing is taken for an answer until the next message.
LEMMA TimeoutMessage ==
  ASSUME TypeOK, LifeInv, CleanInv, SyncTimeout, UNCHANGED <<load, pc>>
  PROVE CleanInv'
<1>1. /\ sync = "poll" /\ sync' = "failed" /\ UNCHANGED <<fwSyncSeq, fwMb, fwBusy>>
      /\ drvMb' = drvMb \/ drvMb' = [drvMb EXCEPT !.code = "TIMEOUT"]
  BY DEF SyncTimeout
<1>2. pc \in {"wait0", "wait1", "wait2"} /\ drvMb \in Message
  BY <1>1 DEF LifeInv
<1>3. /\ drvMb' \in Message /\ drvMb'.load = drvMb.load
      /\ drvMb'.wait = drvMb.wait /\ drvMb'.seq = drvMb.seq
  BY <1>1, <1>2 DEF Message
<1>4. OwnInv' /\ NoFirstInv'
  <2>1. drvMb # NoMessage /\ fwSyncSeq > 0
    BY <1>1, <1>2 DEF Message, NoMessage, Waits, CleanInv, AnswerInv, Sent
  <2>2. QED
    BY <1>1, <1>3, <2>1 DEF CleanInv, OwnInv, NoFirstInv, Older
<1>5. \A w \in Waits : Sent(w) => Sent(w)'
  BY <1>1, <1>3 DEF Sent
<1>6. AnswerInv'
  BY <1>1, <1>2, <1>5 DEF CleanInv, AnswerInv, Waits
<1>7. QED
  BY <1>4, <1>6 DEF CleanInv

\* The bootcode takes the message that is there, or answers the one it has taken.
LEMMA TakeMessage ==
  ASSUME TypeOK, LifeInv, CleanInv, FwTake, UNCHANGED <<load, pc>>
  PROVE CleanInv'
<1>1. /\ drvNew /\ fwBusy = NoMessage /\ fwBusy' = drvMb /\ ~drvNew'
      /\ UNCHANGED <<fwSyncSeq, sync, drvMb, fwMb>>
  BY DEF FwTake
<1>2. pc \notin {"reset", "init", "setup"}
  BY <1>1 DEF CleanInv, AnswerInv, Answer
<1>3. OwnInv' /\ NoFirstInv'
  BY <1>1 DEF CleanInv, OwnInv, NoFirstInv, Older
<1>4. sync \in {"poll", "ok"} => fwMb # drvMb
  BY <1>1 DEF CleanInv, AnswerInv, Answer
<1>5. AnswerInv'
  BY <1>1, <1>2, <1>4 DEF CleanInv, AnswerInv, Sent
<1>6. QED
  BY <1>3, <1>5 DEF CleanInv

LEMMA AnswerMessage ==
  ASSUME TypeOK, LifeInv, CleanInv, FwAnswer, UNCHANGED <<load, pc>>
  PROVE CleanInv'
<1>1. /\ fwBusy # NoMessage /\ fwMb' = fwBusy /\ fwBusy' = NoMessage
      /\ UNCHANGED <<fwSyncSeq, sync, drvMb, drvNew>>
  BY DEF FwAnswer
<1>2. pc \notin {"reset", "init", "setup"}
  BY <1>1 DEF CleanInv, AnswerInv, Answer
<1>3. OwnInv' /\ NoFirstInv'
  BY <1>1, Numbers DEF CleanInv, OwnInv, NoFirstInv, Older
<1>4. ASSUME sync \in {"poll", "ok"}
      PROVE /\ drvMb # NoMessage /\ NoMessage.seq # fwSyncSeq
            /\ fwBusy = drvMb => ~drvNew
            /\ fwBusy # drvMb => fwBusy.seq # fwSyncSeq
            /\ sync = "ok" => fwBusy = NoMessage
  <2>1. pc \in {"wait0", "wait1", "wait2"} /\ drvMb \in Message
    BY <1>4 DEF LifeInv
  <2>2. drvMb # NoMessage /\ fwSyncSeq > 0
    BY <1>4, <2>1 DEF CleanInv, AnswerInv, Sent, Message, NoMessage, Waits
  <2>3. QED
    BY <1>4, <2>2, Numbers DEF CleanInv, AnswerInv, Answer
<1>5. sync \in {"poll", "ok"} =>
        /\ fwMb' = drvMb' => Answer'
        /\ fwMb' # drvMb' => fwMb'.seq # fwSyncSeq'
        /\ fwBusy' = drvMb' => ~drvNew'
        /\ fwBusy' # drvMb' => fwBusy'.seq # fwSyncSeq'
  BY <1>1, <1>4 DEF Answer
<1>6. sync # "ok"
  BY <1>1, <1>4
<1>7. AnswerInv'
  BY <1>1, <1>2, <1>5, <1>6 DEF CleanInv, AnswerInv, Sent
<1>8. QED
  BY <1>3, <1>7 DEF CleanInv

\* After a reset the bootcode has forgotten, and firmwareSync is not awaited.
LEMMA RestartMessage ==
  ASSUME TypeOK, LifeInv, CleanInv, FwRestart, UNCHANGED load, pc = "reset",
         pc' \in {"wait1", "failed", "idle"}
  PROVE CleanInv'
<1>1. /\ sync = "none" /\ fwBusy' = NoMessage /\ fwMb' \in {fwMb, NoMessage}
      /\ UNCHANGED <<fwSyncSeq, sync, drvMb, drvNew>>
  BY DEF LifeInv, FwRestart
<1>2. OwnInv' /\ NoFirstInv'
  BY <1>1, Numbers DEF CleanInv, OwnInv, NoFirstInv, Older
<1>3. AnswerInv'
  BY <1>1 DEF AnswerInv
<1>4. QED
  BY <1>2, <1>3 DEF CleanInv

LEMMA QuietMessage ==
  ASSUME LifeInv, CleanInv,
         \/ Open \/ OpenFails \/ Alloc \/ AllocFails \/ InitMask \/ InitChip
         \/ InitChipFails \/ Attach \/ Enable \/ Enabled \/ Stop \/ Free
  PROVE CleanInv'
<1>1. UNCHANGED <<load, syncVars>>
  BY QuietSync DEF envVars
<1>2. pc \notin {"wait0", "wait1", "wait2"}
  BY DEF Open, OpenFails, Alloc, AllocFails, InitMask, InitChip, InitChipFails,
         Attach, Enable, Enabled, Stop, Free
<1>3. sync = "none"
  BY <1>2 DEF LifeInv
<1>4. pc' \in {"reset", "wait1", "init", "setup", "wait2"} =>
        \/ pc = "init" /\ pc' = "setup"
        \/ pc = "setup" /\ pc' = "wait2"
  BY DEF Open, OpenFails, Alloc, AllocFails, InitMask, InitChip, InitChipFails,
         Attach, Enable, Enabled, Stop, Free, GiveUp
<1>5. QED
  BY <1>1, <1>3, <1>4, SameMessage

\* A driver that does not find the number of its first message has a clean start.
LEMMA LoadMessage ==
  ASSUME TypeOK, LifeInv, Load
  PROVE MessageInv'
<1>1. /\ pc = "unloaded" /\ fwSyncSeq' = 0 /\ pc' = "open" /\ firstLeft' = FirstIsLeft
      /\ UNCHANGED <<sync, drvMb, drvNew, fwMb, fwBusy>>
  BY DEF Load, fwVars
<1>2. sync = "none"
  BY <1>1 DEF LifeInv
<1>3. ~firstLeft' => fwMb.seq # 1 /\ fwBusy.seq # 1 /\ (drvNew => drvMb.seq # 1)
  BY <1>1 DEF FirstIsLeft
<1>4. ~firstLeft' => CleanInv'
  BY <1>1, <1>2, <1>3 DEF CleanInv, OwnInv, NoFirstInv, AnswerInv
<1>5. QED
  BY <1>4 DEF MessageInv

LEMMA MessageStep ==
  ASSUME TypeOK, LifeInv, SeqInv, MessageInv, Next
  PROVE MessageInv'
<1>1. CASE Load
  BY <1>1, LoadMessage
<1>2. CASE ~Load
  <2>1. UNCHANGED <<load, firstLeft>>
    BY <1>2, NotLoad DEF envVars
  <2>2. SUFFICES ASSUME ~firstLeft, load > 0 PROVE CleanInv'
    BY <2>1 DEF MessageInv
  <2>3. CleanInv
    BY <2>2 DEF MessageInv
  <2>4. CASE SyncReset \/ Sync("wait1", "WAIT1") \/ Sync("wait2", "WAIT2")
    BY <2>1, <2>3, <2>4, SendMessage DEF SyncReset, Sync, Waits
  <2>5. CASE \/ Answered("wait0", "reset") \/ Answered("wait1", "init")
             \/ NotAnswered("wait0") \/ NotAnswered("wait1") \/ Wait2Over
    BY <2>1, <2>3, <2>5, ReturnMessage DEF Answered, NotAnswered, Wait2Over, GiveUp
  <2>6. CASE SyncSteps
    BY <2>1, <2>3, <2>6, PollMessage, TimeoutMessage DEF SyncSteps
  <2>7. CASE Firmware
    BY <2>1, <2>3, <2>7, TakeMessage, AnswerMessage DEF Firmware
  <2>8. CASE ResetChip \/ ResetBadSwap \/ (ResetStuck /\ FwRestart)
    BY <2>1, <2>3, <2>8, RestartMessage DEF ResetChip, ResetBadSwap, ResetStuck, GiveUp
  <2>9. CASE ResetStuck /\ ~FwRestart
    <3>1. UNCHANGED <<syncVars>> /\ pc = "reset" /\ pc' \in {"failed", "idle"}
      BY <2>9 DEF ResetStuck, GiveUp
    <3>2. sync = "none"
      BY <3>1 DEF LifeInv
    <3>3. QED
      BY <2>1, <2>3, <3>1, <3>2, SameMessage
  <2>10. CASE \/ Open \/ OpenFails \/ Alloc \/ AllocFails \/ InitMask \/ InitChip
              \/ InitChipFails \/ Attach \/ Enable \/ Enabled \/ Stop \/ Free
    BY <2>3, <2>10, QuietMessage
  <2>11. QED
    BY <1>2, <2>4, <2>5, <2>6, <2>7, <2>8, <2>9, <2>10 DEF Next, Call
<1>3. QED
  BY <1>1, <1>2

\* A message of this driver's stays what it is, and a new one has a new number.
LEMMA LateStep ==
  ASSUME TypeOK, LifeInv, SeqInv, LateInv, Next
  PROVE LateInv'
<1>0. /\ load \in Nat /\ fwSyncSeq \in Nat
      /\ \A m \in {drvMb, fwMb, fwBusy, NoMessage} : m.load \in Nat /\ m.seq \in Nat
      /\ NoMessage.load = 0
  BY Numbers
<1>1. CASE Load
  <2>1. /\ load' = load + 1 /\ UNCHANGED <<sync, drvMb, fwMb, fwBusy>> /\ pc = "unloaded"
    BY <1>1 DEF Load, fwVars
  <2>2. sync = "none"
    BY <2>1 DEF LifeInv
  <2>3. \A m \in {drvMb, fwMb, fwBusy} : m.load <= load
    BY <2>1 DEF LateInv
  <2>4. QED
    BY <1>0, <2>1, <2>2, <2>3 DEF LateInv, Earlier
<1>2. CASE ~Load
  <2>1. UNCHANGED load
    BY <1>2, NotLoad DEF envVars
  <2>2. SUFFICES /\ \A m \in {drvMb', fwMb', fwBusy'} : m.load <= load
                 /\ load > 0 => Earlier'
    BY <2>1 DEF LateInv
  <2>3. /\ \A m \in {drvMb, fwMb, fwBusy, NoMessage} : m.load <= load
        /\ load > 0 => Earlier
    BY <1>0 DEF LateInv
  <2>4. CASE SyncReset \/ Sync("wait1", "WAIT1") \/ Sync("wait2", "WAIT2")
    <3>1. PICK w \in Waits : SyncSend(w)
      BY <2>4 DEF SyncReset, Sync, Waits
    <3>2. fwSyncSeq' = fwSyncSeq + 1
      BY <2>4, <3>1, SendNumber DEF SyncReset, Sync, SyncSend
    <3>3. drvMb'.seq = fwSyncSeq' /\ drvMb'.load = load /\ UNCHANGED <<fwMb, fwBusy>>
      BY <3>1, <3>2 DEF SyncSend
    <3>4. QED
      BY <1>0, <2>1, <2>3, <3>2, <3>3 DEF Earlier
  <2>5. CASE \/ Answered("wait0", "reset") \/ Answered("wait1", "init")
             \/ NotAnswered("wait0") \/ NotAnswered("wait1") \/ Wait2Over
    <3>1. sync' = "none" /\ UNCHANGED <<fwSyncSeq, drvMb, fwMb, fwBusy>>
      BY <2>5 DEF Answered, NotAnswered, Wait2Over, SyncReturn, fwVars
    <3>2. QED
      BY <2>1, <2>3, <3>1 DEF Earlier
  <2>6. CASE SyncSteps /\ SyncPoll
    BY <2>1, <2>3, <2>6 DEF SyncPoll, Earlier, fwVars
  <2>7. CASE SyncSteps /\ SyncTimeout
    <3>1. /\ sync = "poll" /\ sync' = "failed" /\ UNCHANGED <<fwSyncSeq, fwMb, fwBusy>>
          /\ drvMb' = drvMb \/ drvMb' = [drvMb EXCEPT !.code = "TIMEOUT"]
      BY <2>7 DEF SyncTimeout
    <3>2. drvMb \in Message
      BY <3>1 DEF LifeInv
    <3>3. drvMb'.seq = drvMb.seq /\ drvMb'.load = drvMb.load
      BY <3>1, <3>2 DEF Message
    <3>4. QED
      BY <2>1, <2>3, <3>1, <3>3 DEF Earlier
  <2>8. CASE Firmware
    <3>1. /\ \/ fwBusy' = drvMb /\ fwMb' = fwMb
             \/ fwMb' = fwBusy /\ fwBusy' = NoMessage
          /\ UNCHANGED <<fwSyncSeq, sync, drvMb>>
      BY <2>8 DEF Firmware, FwTake, FwAnswer
    <3>2. QED
      BY <1>0, <2>1, <2>3, <3>1 DEF Earlier
  <2>9. CASE ResetChip \/ ResetBadSwap \/ ResetStuck
    <3>1. /\ fwMb' \in {fwMb, NoMessage} /\ fwBusy' \in {fwBusy, NoMessage}
          /\ UNCHANGED <<fwSyncSeq, sync, drvMb>>
      BY <2>9 DEF ResetChip, ResetBadSwap, ResetStuck, FwRestart, syncVars, fwVars
    <3>2. QED
      BY <1>0, <2>1, <2>3, <3>1 DEF Earlier
  <2>10. CASE \/ Open \/ OpenFails \/ Alloc \/ AllocFails \/ InitMask \/ InitChip
              \/ InitChipFails \/ Attach \/ Enable \/ Enabled \/ Stop \/ Free
    <3>1. UNCHANGED <<fwSyncSeq, sync, drvMb, fwMb, fwBusy>>
      BY <2>10, QuietSync DEF syncVars, fwVars
    <3>2. QED
      BY <2>1, <2>3, <3>1 DEF Earlier
  <2>11. QED
    BY <1>2, <2>4, <2>5, <2>6, <2>7, <2>8, <2>9, <2>10 DEF Next, Call, SyncSteps
<1>3. QED
  BY <1>1, <1>2

LEMMA MessageStutter ==
  ASSUME SeqInv, LateInv, MessageInv, UNCHANGED vars
  PROVE SeqInv' /\ LateInv' /\ MessageInv'
<1>1. UNCHANGED <<load, firstLeft, fwSyncSeq, sync, drvMb, drvNew, fwMb, fwBusy, pc, op,
                  nubOpen>>
  BY DEF vars, envVars, syncVars, fwVars, osVars
<1>2. SeqInv' /\ LateInv'
  BY <1>1 DEF SeqInv, LateInv, Earlier, SentHere, Busy
<1>3. CleanInv => OwnInv' /\ NoFirstInv'
  BY <1>1 DEF CleanInv, OwnInv, NoFirstInv, Older
<1>4. CleanInv => AnswerInv'
  BY <1>1 DEF CleanInv, AnswerInv, Sent, Answer
<1>5. QED
  BY <1>1, <1>2, <1>3, <1>4 DEF MessageInv, CleanInv

LEMMA MessageInvariant == Spec => [](TypeOK /\ LifeInv /\ SeqInv /\ LateInv /\ MessageInv)
<1> DEFINE I == TypeOK /\ LifeInv /\ SeqInv /\ LateInv /\ MessageInv
<1>1. Init => I
  BY LifeInit, MessageInit
<1>2. I /\ [Next]_vars => I'
  BY LifeStep, SeqStep, LateStep, MessageStep, MessageStutter
<1>3. QED
  BY <1>1, <1>2, PTL DEF Spec

\* A poll that finds the number it looks for.
LEMMA PollSucceeds ==
  ASSUME LifeInv, [Next]_vars, sync = "poll", sync' = "ok"
  PROVE SyncPoll
<1>1. UNCHANGED sync => FALSE
  OBVIOUS
<1>2. Next
  BY <1>1 DEF vars, syncVars
<1>3. CASE Load
  BY <1>1, <1>3 DEF Load
<1>4. CASE \/ Open \/ OpenFails \/ Alloc \/ AllocFails \/ InitMask \/ InitChip
           \/ InitChipFails \/ Attach \/ Enable \/ Enabled \/ Stop \/ Free
  BY <1>1, <1>4, QuietSync DEF syncVars
<1>5. CASE ResetChip \/ ResetBadSwap \/ ResetStuck
  BY <1>1, <1>5 DEF ResetChip, ResetBadSwap, ResetStuck, FwRestart, syncVars
<1>6. CASE SyncReset \/ Sync("wait1", "WAIT1") \/ Sync("wait2", "WAIT2")
  BY <1>6 DEF SyncReset, Sync, SyncSend
<1>7. CASE \/ Answered("wait0", "reset") \/ Answered("wait1", "init")
           \/ NotAnswered("wait0") \/ NotAnswered("wait1") \/ Wait2Over
  BY <1>7 DEF Answered, NotAnswered, Wait2Over, SyncReturn
<1>8. CASE SyncSteps
  BY <1>8 DEF SyncSteps, SyncTimeout
<1>9. CASE Firmware
  BY <1>1, <1>9 DEF Firmware, FwTake, FwAnswer
<1>10. QED
  BY <1>2, <1>3, <1>4, <1>5, <1>6, <1>7, <1>8, <1>9 DEF Next, Call

\* What a successful poll has found, by the two invariants.
LEMMA PollFinds ==
  ASSUME LifeInv, LateInv, MessageInv, SyncPoll, sync' = "ok"
  PROVE fwMb = drvMb \/ (firstLeft /\ fwMb.load # load)
<1>1. sync = "poll" /\ fwMb.seq = drvMb.seq
  BY DEF SyncPoll
<1>2. load > 0 /\ pc \in {"wait0", "wait1", "wait2"}
  BY <1>1 DEF LifeInv
<1>3. CASE firstLeft
  BY <1>1, <1>2, <1>3 DEF LateInv, Earlier
<1>4. CASE ~firstLeft
  BY <1>1, <1>2, <1>4 DEF MessageInv, CleanInv, AnswerInv, Sent
<1>5. QED
  BY <1>3, <1>4

\* However often the driver is loaded, whatever an earlier user of the chip or an
\* earlier driver has left in the mailboxes and however late the bootcode answers,
\* firmwareSync (Private.cpp:362) takes the late answer to an own message for no
\* other; and what it takes is the answer to the message it has just sent, unless
\* the number of the first was there when the driver was loaded.  Then it need
\* not be, as stale_answer shows.
THEOREM AckTheorem == Spec => AckNotLate
<1> DEFINE I == TypeOK /\ LifeInv /\ SeqInv /\ LateInv /\ MessageInv
<1>1. I /\ [Next]_vars =>
        [sync = "poll" /\ sync' = "ok" =>
           fwMb = drvMb \/ (firstLeft /\ fwMb.load # load)]_syncVars
  BY PollSucceeds, PollFinds
<1>2. QED
  BY <1>1, MessageInvariant, PTL DEF Spec, AckNotLate

\* A driver that did not find the number of its first message when it was loaded
\* resets the chip, and sets it up afterwards, only with the bootcode's agreement
\* to this very reset (Controller.cpp:168, :225).
THEOREM AgreesTheorem == Spec => []FirmwareAgrees
<1>1. LifeInv /\ MessageInv => FirmwareAgrees
  BY DEF LifeInv, MessageInv, CleanInv, AnswerInv, FirmwareAgrees, Sent, Answer
<1>2. QED
  BY <1>1, MessageInvariant, PTL
=============================================================================
