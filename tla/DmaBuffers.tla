----------------------------- MODULE DmaBuffers -----------------------------
(***************************************************************************)
(* What a DMA buffer is made of: allocDmaBuffer and freeDmaBuffer of       *)
(* Private.cpp.  A memory descriptor, then a command that maps it, then    *)
(* its address: each may fail, and what was done before is then taken      *)
(* back.  Whether prepare() has wired the memory in between nobody looks:  *)
(* nothing that follows depends on it, and a descriptor here may be wired  *)
(* or not.                                                                 *)
(***************************************************************************)
EXTENDS Naturals, FiniteSets

VARIABLES
  allocStep,   \* "desc", "cmd", "segment", "failed", or "ok" when no call is under way
  descs,       \* the buffers whose descriptor exists
  cmds         \* the buffers whose command exists

bufVars == <<allocStep, descs, cmds>>

BuffersInit == allocStep = "ok" /\ descs = {} /\ cmds = {}

AllocBegin ==
  /\ allocStep = "ok"
  /\ allocStep' = "desc"
  /\ UNCHANGED <<descs, cmds>>

\* The descriptor is made, and prepared or not; or there is no memory.
AllocDesc(b) ==
  /\ allocStep = "desc"
  /\ \/ descs' = descs \cup {b} /\ allocStep' = "cmd"
     \/ UNCHANGED descs /\ allocStep' = "failed"
  /\ UNCHANGED cmds

\* complete() and release() of the descriptor.
DescGone(b) == descs' = descs \ {b}

AllocCmd(b) ==
  /\ allocStep = "cmd"
  /\ \/ /\ cmds' = cmds \cup {b} /\ allocStep' = "segment"
        /\ UNCHANGED descs
     \/ /\ DescGone(b) /\ allocStep' = "failed"
        /\ UNCHANGED cmds

\* A mutant: the command is forgotten on the way out.
AllocSegmentLeak(b) ==
  /\ allocStep = "segment"
  /\ \/ /\ allocStep' = "ok"
        /\ UNCHANGED <<descs, cmds>>
     \/ /\ DescGone(b) /\ allocStep' = "failed"
        /\ UNCHANGED cmds

\* The physical address is had, or everything goes back.
AllocSegment(b) ==
  /\ allocStep = "segment"
  /\ \/ /\ allocStep' = "ok"
        /\ UNCHANGED <<descs, cmds>>
     \/ /\ cmds' = cmds \ {b} /\ DescGone(b)
        /\ allocStep' = "failed"

AllocStep(b) == AllocDesc(b) \/ AllocCmd(b) \/ AllocSegment(b)

\* freeDmaBuffer for each of a set of buffers.
FreeBuffers(bs) ==
  /\ cmds' = cmds \ bs /\ descs' = descs \ bs
  /\ allocStep' = "ok"
-----------------------------------------------------------------------------
BuffersTypeOK(all) ==
  /\ allocStep \in {"desc", "cmd", "segment", "ok", "failed"}
  /\ {descs, cmds} \subseteq SUBSET all

\* Between two calls every descriptor and every command is part of a buffer the
\* driver has recorded, and every such buffer has both: no failed step leaves
\* something behind that nobody frees.
NoneLeft(recorded) ==
  allocStep \in {"ok", "failed"} => descs = recorded /\ cmds = recorded
=============================================================================
