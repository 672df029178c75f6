---------------------------- MODULE FirmwareSync ----------------------------
(***************************************************************************)
(* The driver's conversation with the bootcode of the device: firmwareSync *)
(* of Private.cpp and the two mailboxes in shared memory.                  *)
(*                                                                         *)
(* The driver numbers its messages, writes one to NX2_DRV_MB and polls     *)
(* NX2_FW_MB until the number in it is that of the message, so many times. *)
(* The bootcode takes its time, or hangs.  The mailboxes are memory of the *)
(* device: they outlive the driver, whose numbers start from 0 each time   *)
(* it is loaded, and nothing clears them before its first message.  What   *)
(* an earlier user of the chip left there, it finds.                       *)
(***************************************************************************)
EXTENDS Naturals

CONSTANTS
  SeqSpace,   \* values of fwSyncSeq, 2^16 in the code
  MaxPolls,   \* FW_ACK_TIME_OUT_MS: 1000 in the code
  LeftSeqs    \* numbers that other users of the chip may have left behind

\* A driver sends six messages at most, three in start() and three in enable().
ASSUME SyncAssumption == /\ SeqSpace \in Nat /\ SeqSpace > 6
                         /\ MaxPolls \in Nat \ {0}
                         /\ LeftSeqs \subseteq 0 .. SeqSpace - 1

VARIABLES
  load,        \* how many drivers have been loaded so far
  firstLeft,   \* history: the driver found the number of its first message
  fwSyncSeq,
  sync,        \* the call of firmwareSync: "none", "poll", "ok" or "failed"
  polls,       \* how often it has read NX2_FW_MB
  drvMb,       \* NX2_DRV_MB
  drvNew,      \* the bootcode has not seen what drvMb holds
  fwMb,        \* NX2_FW_MB: the message answered; the register has its number
  fwBusy       \* the message the bootcode is working on

fwVars == <<drvNew, fwMb, fwBusy>>
syncVars == <<fwSyncSeq, sync, polls, drvMb, fwVars>>

Waits == {"WAIT0", "WAIT1", "WAIT2"}

\* "load" only tells apart the messages of two drivers; it is not sent.
Message == [wait : Waits, code : {"RESET", "TIMEOUT"},
            seq : 0 .. SeqSpace - 1, load : Nat]
NoMessage == [wait |-> "none", code |-> "none", seq |-> 0, load |-> 0]

\* Messages of other users of the chip, before the driver.
Left == {[wait |-> "old", code |-> "old", seq |-> s, load |-> 0] : s \in LeftSeqs}

SyncInit ==
  /\ load = 0 /\ firstLeft = FALSE
  /\ fwSyncSeq = 0 /\ sync = "none" /\ polls = 0
  /\ drvMb \in Left \cup {NoMessage} /\ drvNew = (drvMb # NoMessage)
  /\ fwMb \in Left \cup {NoMessage} /\ fwBusy \in Left \cup {NoMessage}

\* The number of a driver's first message is there, or on its way, already.
FirstIsLeft == 1 \in {fwMb.seq, fwBusy.seq} \/ (drvNew /\ drvMb.seq = 1)

NextSeq == (fwSyncSeq + 1) % SeqSpace

\* A mutant: the running sequence does not run.
SyncSendSame(w) ==
  /\ sync = "none"
  /\ fwSyncSeq' = 1
  /\ drvMb' = [wait |-> w, code |-> "RESET", seq |-> 1, load |-> load]
  /\ drvNew' = TRUE
  /\ sync' = "poll" /\ polls' = 0
  /\ UNCHANGED <<fwMb, fwBusy>>

SyncSend(w) ==
  /\ sync = "none"
  /\ fwSyncSeq' = NextSeq
  /\ drvMb' = [wait |-> w, code |-> "RESET", seq |-> NextSeq, load |-> load]
  /\ drvNew' = TRUE
  /\ sync' = "poll" /\ polls' = 0
  /\ UNCHANGED <<fwMb, fwBusy>>

\* A mutant: it is polled until the answer comes.
SyncPollForever ==
  /\ sync = "poll"
  /\ sync' = IF fwMb.seq = drvMb.seq THEN "ok" ELSE "poll"
  /\ UNCHANGED <<fwSyncSeq, polls, drvMb, fwVars>>

\* A mutant: it is polled once too often.
SyncPollLonger ==
  /\ sync = "poll" /\ polls <= MaxPolls
  /\ sync' = IF fwMb.seq = drvMb.seq THEN "ok" ELSE "poll"
  /\ polls' = polls + 1
  /\ UNCHANGED <<fwSyncSeq, drvMb, fwVars>>

SyncPoll ==
  /\ sync = "poll" /\ polls < MaxPolls
  /\ sync' = IF fwMb.seq = drvMb.seq THEN "ok" ELSE "poll"
  /\ polls' = polls + 1
  /\ UNCHANGED <<fwSyncSeq, drvMb, fwVars>>

\* The bootcode is told that its answer is no longer awaited, but for WAIT0.
SyncTimeout ==
  /\ sync = "poll" /\ polls = MaxPolls
  /\ sync' = "failed"
  /\ IF drvMb.wait = "WAIT0" THEN UNCHANGED <<drvMb, drvNew>>
     ELSE drvMb' = [drvMb EXCEPT !.code = "TIMEOUT"] /\ drvNew' = TRUE
  /\ UNCHANGED <<fwSyncSeq, polls, fwMb, fwBusy>>

\* The caller goes on with the result.
SyncReturn(result) ==
  /\ sync = result
  /\ sync' = "none" /\ polls' = 0
  /\ UNCHANGED <<fwSyncSeq, drvMb, fwVars>>
-----------------------------------------------------------------------------
\* The bootcode: it takes the message the mailbox holds now, works on it and
\* answers with its number.
FwTake ==
  /\ drvNew /\ fwBusy = NoMessage
  /\ fwBusy' = drvMb /\ drvNew' = FALSE
  /\ UNCHANGED <<fwSyncSeq, sync, polls, drvMb, fwMb>>

FwAnswer ==
  /\ fwBusy # NoMessage
  /\ fwMb' = fwBusy /\ fwBusy' = NoMessage
  /\ UNCHANGED <<fwSyncSeq, sync, polls, drvMb, drvNew>>

\* A reset of the chip restarts it; what becomes of its mailbox is its own
\* affair.
FwRestart ==
  /\ fwBusy' = NoMessage
  /\ fwMb' \in {fwMb, NoMessage}
  /\ UNCHANGED <<fwSyncSeq, sync, polls, drvMb, drvNew>>
-----------------------------------------------------------------------------
SyncTypeOK ==
  /\ fwSyncSeq \in 0 .. SeqSpace - 1
  /\ sync \in {"none", "poll", "ok", "failed"} /\ polls \in 0 .. MaxPolls
  /\ {drvMb, fwMb, fwBusy} \subseteq Message \cup Left \cup {NoMessage}
  /\ drvNew \in BOOLEAN

\* "Wait for bootcode to acknowledge" (Private.cpp:362): when firmwareSync
\* reports success the bootcode has answered the message just sent, and not
\* one of before, an earlier user's or its own.
AckIsAnswer == sync = "ok" => fwMb = drvMb

\* What firmwareSync (Private.cpp:362) takes for the answer to its message is
\* never the late answer to another one of the same driver; and it is the
\* answer, whatever else was left in the mailboxes, unless the driver found the
\* number of its first message there when it was loaded.
AckNotLate == [][sync = "poll" /\ sync' = "ok" =>
                   fwMb = drvMb \/ (firstLeft /\ fwMb.load # load)]_syncVars
=============================================================================
