-------------------------- MODULE InterruptsProofs --------------------------
(***************************************************************************)
(* Proofs about Interrupts, for every bound on the rings, every width of   *)
(* the status index, every number of polls and every set of PHY states:    *)
(* types, the acknowledgement of the status index, the mode of the EMAC    *)
(* and the report of the link.                                             *)
(***************************************************************************)
EXTENDS Interrupts, TLAPS

\* What makes LinkReported inductive: flaps tells whether the attention bit is
\* acknowledged; a read is under way or in the register, never both, and one that
\* nobody waits for is marked; what an unmarked read has seen is good as long as
\* nothing has changed since the acknowledgement, and so is the report once it
\* has been made.
LinkInv ==
  /\ ~isEnabled => pc = "idle" /\ linkAck = FALSE
  /\ isEnabled => /\ attn = phy.up
                  /\ flaps = 0 => attn = linkAck
                  /\ flaps = 1 => attn # linkAck
  /\ mdio # {} => wire = {}
  /\ pc # "phyRead" => mdio = {} /\ \A r \in wire : r.old
  /\ pc = "phyRead" /\ flaps = 0 =>
       \A r \in wire \cup mdio : r.old \/ r.state \in {phy, Unseen}
  /\ isEnabled /\ pc # "phyRead" /\ flaps = 0 /\ ~late => LinkTold
-----------------------------------------------------------------------------
(***************************************************************************)
(* The operators of PhyLink.                                               *)
(***************************************************************************)
\* MediaOf yields a speed and a duplex mode, and none only for an unknown speed.
LEMMA MediaOfType ==
  ASSUME NEW s
  PROVE /\ MediaOf(s) \in [speed : {0, 10, 100, 1000}, duplex : {"none", "half", "full"}]
        /\ MediaOf(s) # NoMedia => s \in Speeds
<1>1. CASE s \in Speeds
  BY <1>1 DEF MediaOf
<1>2. CASE s \notin Speeds
  BY <1>2 DEF MediaOf, NoMedia
<1>3. QED
  BY <1>1, <1>2

\* The mode for a medium sets no other bits than updatePHYMediaState clears.
LEMMA ModeOfBits ==
  ASSUME NEW m
  PROVE ModeOf(m) \subseteq ModeBits
<1>1. PortOf(m) \subseteq PORT_MII_10
  BY DEF PortOf, PORT_MII_10, PORT_MII, PORT_GMII
<1>2. QED
  BY <1>1 DEF ModeOf, ModeBits, HALF_DUPLEX

\* What a read under way may become: a new one, one given up, one that has seen.
LEMMA ReadTypes ==
  ASSUME NEW reads \in SUBSET Reads, NEW s \in PhyStatus
  PROVE /\ {NewRead} \subseteq Reads
        /\ GivenUp(reads) \subseteq Reads /\ GivenUp({NewRead}) \subseteq Reads
        /\ {[r EXCEPT !.state = s] : r \in reads} \subseteq Reads
<1>1. \A r \in Reads : /\ [r EXCEPT !.old = TRUE] \in Reads
                        /\ [r EXCEPT !.state = s] \in Reads
  BY DEF Reads
<1>2. NewRead \in Reads
  BY DEF Reads, NewRead
<1>3. QED
  BY <1>1, <1>2 DEF GivenUp

\* What updatePHYMediaState leaves behind has the right types.
LEMMA UpdateMediaType ==
  ASSUME PhyTypeOK, NEW s \in PhyStatus, UpdateMedia(s)
  PROVE /\ emac' \subseteq ModeBits
        /\ mediaState' \in [speed : {0, 10, 100, 1000}, duplex : {"none", "half", "full"}]
        /\ currentMediumIndex' \in Speeds \cup {"auto"}
        /\ osLink' \in [up : BOOLEAN, medium : Speeds \cup {"auto", "none"}]
<1>1. emac' \subseteq ModeBits
  BY ModeOfBits DEF UpdateMedia, PhyTypeOK
<1>2. mediaState' \in [speed : {0, 10, 100, 1000}, duplex : {"none", "half", "full"}]
  BY MediaOfType DEF UpdateMedia
<1>3. currentMediumIndex' \in Speeds \cup {"auto"}
  BY DEF UpdateMedia, PhyTypeOK
<1>4. osLink' \in [up : BOOLEAN, medium : Speeds \cup {"auto", "none"}]
  BY <1>3 DEF UpdateMedia, LinkDown
<1>5. QED
  BY <1>1, <1>2, <1>3, <1>4

\* updatePHYMediaState puts the EMAC into the mode of the medium it reports.
LEMMA UpdateMediaMode ==
  ASSUME PhyTypeOK, NEW s \in PhyStatus, UpdateMedia(s)
  PROVE MacFollowsMedium'
<1> SUFFICES ASSUME osLink'.up, mediaState' # NoMedia
             PROVE emac' = ModeOf(MediaOf(osLink'.medium))
  BY DEF MacFollowsMedium
<1>1. s.up
  BY DEF UpdateMedia, LinkDown, PhyStatus
<1>2. s.speed \in Speeds
  BY MediaOfType DEF UpdateMedia
<1>3. osLink'.medium = s.speed /\ mediaState' = MediaOf(s.speed)
  BY <1>1, <1>2 DEF UpdateMedia
<1>4. emac' = (emac \ ModeBits) \cup ModeOf(mediaState')
  BY <1>1 DEF UpdateMedia
<1>5. QED
  BY <1>3, <1>4 DEF PhyTypeOK

\* The state of the link it reports is the one it was given.
LEMMA UpdateMediaTold ==
  ASSUME NEW s \in PhyStatus, UpdateMedia(s)
  PROVE /\ osLink'.up = s.up
        /\ s.up /\ s.speed \in Speeds => osLink'.medium = s.speed
  BY DEF UpdateMedia, LinkDown, PhyStatus
-----------------------------------------------------------------------------
(***************************************************************************)
(* Types.                                                                  *)
(***************************************************************************)
LEMMA InitType == Init => TypeOK
<1> SUFFICES ASSUME Init PROVE TypeOK
  OBVIOUS
<1>1. PhyTypeOK
  <2>1. phy \in PhyStatus /\ wire = {} /\ mdio = {} /\ polls \in 0 .. PhyPolls - 1
    BY PhyAssumption DEF Init, PhyInit
  <2>2. emac \subseteq ModeBits /\ currentMediumIndex \in Speeds \cup {"auto"}
    BY DEF Init, PhyInit
  <2>3. mediaState \in [speed : {0, 10, 100, 1000}, duplex : {"none", "half", "full"}]
    BY DEF Init, PhyInit, NoMedia
  <2>4. osLink \in [up : BOOLEAN, medium : Speeds \cup {"auto", "none"}] /\ late \in BOOLEAN
    BY DEF Init, PhyInit, LinkDown
  <2>5. QED
    BY <2>1, <2>2, <2>3, <2>4 DEF PhyTypeOK
<1>2. ahead \in [Sources -> 0 .. Backlog]
  BY InterruptsAssumption DEF Init
<1>3. /\ statusIndex \in 0 .. IndexMax - 1 /\ lastStatusIndex \in 0 .. IndexMax - 1
      /\ acked \in 0 .. IndexMax - 1 /\ flaps \in 0 .. 2 /\ pc = "idle"
  BY InterruptsAssumption DEF Init
<1>4. /\ isEnabled \in BOOLEAN /\ masked \in BOOLEAN /\ msi \in BOOLEAN
      /\ attn \in BOOLEAN /\ attnAck \in BOOLEAN /\ linkAck \in BOOLEAN
  BY Zenon DEF Init
<1>5. QED
  BY <1>1, <1>2, <1>3, <1>4 DEF TypeOK

\* A step of the status index stays in its range.
LEMMA IndexStep == TypeOK => (statusIndex + 1) % IndexMax \in 0 .. IndexMax - 1
  BY InterruptsAssumption, SMTT(30) DEF TypeOK

LEMMA NextType == TypeOK /\ [Next]_vars => TypeOK'
<1> SUFFICES ASSUME TypeOK, [Next]_vars PROVE TypeOK'
  OBVIOUS
<1> USE DEF linkVars, phyVars, mdioVars, mediaVars, blockVars
<1>1. CASE Enable
  <2>0. /\ phy' = phy /\ polls' = polls /\ mdio' = mdio
        /\ wire' = wire \/ wire' = GivenUp({NewRead})
        /\ late' \in BOOLEAN
    BY <1>1, Zenon DEF Enable
  <2>1. phy' \in PhyStatus /\ wire' \subseteq Reads
    BY <2>0, ReadTypes DEF TypeOK, PhyTypeOK
  <2>2. UpdateMedia(phy) \/ UNCHANGED mediaVars
    BY <1>1 DEF Enable, KeepMedia
  <2>3. PhyTypeOK'
    BY <2>0, <2>1, <2>2, UpdateMediaType DEF TypeOK, PhyTypeOK
  <2>4. attn' \in BOOLEAN /\ attnAck' \in BOOLEAN /\ linkAck' \in BOOLEAN
    BY <1>1, <2>1 DEF Enable, WriteBlock, TypeOK, PhyStatus
  <2>5. isEnabled' \in BOOLEAN /\ masked' \in BOOLEAN /\ msi' \in BOOLEAN
    BY <1>1, Zenon DEF Enable
  <2>6. statusIndex' \in 0 .. IndexMax - 1 /\ ahead' \in [Sources -> 0 .. Backlog]
    BY <1>1, IndexStep, Zenon DEF Enable, WriteBlock, TypeOK
  <2>7. /\ lastStatusIndex' \in 0 .. IndexMax - 1 /\ acked' \in 0 .. IndexMax - 1
        /\ pc' = pc /\ flaps' \in 0 .. 2
    BY <1>1 DEF Enable, TypeOK
  <2>8. QED
    BY <2>3, <2>4, <2>5, <2>6, <2>7 DEF TypeOK
<1>2. CASE IrqEnter \/ IrqMask \/ IrqLink \/ IrqSample \/ IrqAck \/ IrqUnmask
  <2>1. CASE IrqEnter
    <3>1. msi' \in BOOLEAN
      BY <2>1, Zenon DEF IrqEnter
    <3>2. pc' = "mask"
      BY <2>1, Zenon DEF IrqEnter
    <3>3. UNCHANGED <<isEnabled, ahead, statusIndex, linkVars, lastStatusIndex, masked, acked>>
      BY <2>1, Zenon DEF IrqEnter
    <3>4. QED
      BY <3>1, <3>2, <3>3 DEF TypeOK, PhyTypeOK
  <2>2. CASE IrqMask
    BY <1>2, <2>2 DEF IrqMask, TypeOK, PhyTypeOK
  <2>3. CASE IrqLink
    BY <1>2, <2>3 DEF IrqLink, TypeOK, PhyTypeOK
  <2>4. CASE IrqSample
    BY <1>2, <2>4 DEF IrqSample, TypeOK, PhyTypeOK
  <2>5. CASE IrqAck
    BY <1>2, <2>5 DEF IrqAck, TypeOK, PhyTypeOK
  <2>6. CASE IrqUnmask
    <3>1. msi' \in BOOLEAN /\ masked' \in BOOLEAN
      BY <2>6, Zenon DEF IrqUnmask
    <3>2. pc' = "idle" /\ acked' = lastStatusIndex
      BY <2>6, Zenon DEF IrqUnmask
    <3>3. UNCHANGED <<isEnabled, ahead, statusIndex, linkVars, lastStatusIndex>>
      BY <2>6, Zenon DEF IrqUnmask
    <3>4. QED
      BY <3>1, <3>2, <3>3 DEF TypeOK, PhyTypeOK
  <2>7. QED
    BY <1>2, <2>1, <2>2, <2>3, <2>4, <2>5, <2>6
<1>3. CASE PhyAck
  BY <1>3, ReadTypes, PhyAssumption DEF PhyAck, MdioStart, TypeOK, PhyTypeOK
<1>4. CASE PhyPoll
  BY <1>4, PhyAssumption DEF PhyPoll, MdioPollAgain, TypeOK, PhyTypeOK
<1>5. CASE PhyRead
  <2>1. PICK s \in PhyStatus : UpdateMedia(s) \/ UNCHANGED mediaVars
    <3>1. phy \in PhyStatus /\ \A r \in mdio : r.state \in PhyStatus
      BY DEF TypeOK, PhyTypeOK, Reads
    <3>2. QED
      BY <1>5, <3>1, Zenon DEF PhyRead, MdioDone, KeepMedia
  <2>2. /\ phy' = phy /\ mdio' = {} /\ polls' = 0 /\ late' \in BOOLEAN
        /\ wire' = wire \/ wire' = GivenUp(wire)
    <3>1. \A r \in mdio : r.old \in BOOLEAN
      BY DEF TypeOK, PhyTypeOK, Reads
    <3>2. QED
      BY <1>5, <3>1, Zenon DEF PhyRead, MdioDone
  <2>3. PhyTypeOK'
    BY <2>1, <2>2, ReadTypes, UpdateMediaType, PhyAssumption DEF TypeOK, PhyTypeOK
  <2>4. QED
    BY <1>5, <2>2, <2>3, IndexStep DEF PhyRead, WriteBlock, TypeOK, PhyTypeOK, PhyStatus
<1>6. CASE \E s \in Sources : IrqSource(s)
  <2>1. PICK s \in Sources : IrqSource(s)
    BY <1>6
  <2>2. ahead' \in [Sources -> 0 .. Backlog]
    BY <2>1, InterruptsAssumption DEF IrqSource, TypeOK
  <2>3. pc' \in {"rx", "sample"}
    BY <2>1 DEF IrqSource, After, Sources
  <2>4. QED
    BY <2>1, <2>2, <2>3 DEF IrqSource, TypeOK, PhyTypeOK
<1>7. CASE PhyAnswer
  <2>1. CASE MdioSense
    <3>1. mdio' = mdio /\ polls' = polls /\ wire' = {[r EXCEPT !.state = phy] : r \in wire}
      BY <2>1, Zenon DEF MdioSense
    <3>2. wire' \subseteq Reads
      <4>1. phy \in PhyStatus /\ wire \in SUBSET Reads
        BY DEF TypeOK, PhyTypeOK
      <4>2. {[r EXCEPT !.state = phy] : r \in wire} \subseteq Reads
        BY <4>1, ReadTypes, Zenon
      <4>3. QED
        BY <3>1, <4>2, Zenon
    <3>3. QED
      BY <1>7, <3>1, <3>2 DEF PhyAnswer, TypeOK, PhyTypeOK
  <2>2. CASE MdioAnswer(pc = "phyRead")
    <3>1. mdio' \subseteq wire /\ wire' = {} /\ polls' = polls
      BY <2>2, Zenon DEF MdioAnswer
    <3>2. mdio' \subseteq {r \in Reads : r.state # Unseen}
      BY <2>2 DEF MdioAnswer, TypeOK, PhyTypeOK
    <3>3. QED
      BY <1>7, <3>1, <3>2 DEF PhyAnswer, TypeOK, PhyTypeOK
  <2>3. QED
    BY <1>7, <2>1, <2>2 DEF PhyAnswer
<1>8. CASE \E s \in Sources : DevUpdate(s)
  <2>1. PICK s \in Sources : DevUpdate(s)
    BY <1>8
  <2>2. [ahead EXCEPT ![s] = @ + 1] \in [Sources -> 0 .. Backlog]
    BY <2>1, InterruptsAssumption DEF DevUpdate, TypeOK
  <2>3. QED
    BY <2>1, <2>2, IndexStep DEF DevUpdate, WriteBlock, TypeOK, PhyTypeOK, PhyStatus
<1>9. CASE \E p \in PhyStates : PhyChange(p)
  BY <1>9, IndexStep, PhyAssumption
  DEF PhyChange, WriteBlock, TypeOK, PhyTypeOK, PhyStatus
<1>10. CASE UNCHANGED vars
  BY <1>10 DEF vars, TypeOK, PhyTypeOK
<1>11. QED
  BY <1>1, <1>2, <1>3, <1>4, <1>5, <1>6, <1>7, <1>8, <1>9, <1>10 DEF Next, Handler

\* The variables of the interrupt handshake and of the link (interruptOccurred,
\* handlePHYInterrupt) keep their types.
THEOREM TypeCorrect == Spec => []TypeOK
<1>1. QED
  BY InitType, NextType, PTL DEF Spec
-----------------------------------------------------------------------------
(***************************************************************************)
(* The status index and the mask.                                          *)
(***************************************************************************)
LEMMA NextIndexAck == IndexAckComplete /\ [Next]_vars => IndexAckComplete'
<1> SUFFICES ASSUME IndexAckComplete, [Next]_vars,
                    isEnabled', pc' = "idle"
             PROVE ~masked' /\ (msi' \/ acked' = statusIndex')
  BY DEF IndexAckComplete
<1> USE DEF linkVars, phyVars, mdioVars, mediaVars, blockVars
<1>1. CASE Enable
  BY <1>1, Zenon DEF Enable
<1>2. CASE IrqEnter \/ IrqMask \/ IrqLink \/ PhyAck \/ PhyRead \/ IrqSample \/ IrqAck
  <2>1. pc' # "idle"
    BY <1>2 DEF IrqEnter, IrqMask, IrqLink, PhyAck, PhyRead, IrqSample, IrqAck
  <2>2. QED
    BY <2>1
<1>3. CASE PhyPoll
  <2>1. pc = "phyRead" /\ pc' = pc
    BY <1>3, Zenon DEF PhyPoll
  <2>2. QED
    BY <2>1
<1>4. CASE \E s \in Sources : IrqSource(s)
  <2>1. pc' # "idle"
    BY <1>4 DEF IrqSource, After, Sources
  <2>2. QED
    BY <2>1
<1>5. CASE IrqUnmask
  <2>1. ~masked' /\ acked' = lastStatusIndex /\ statusIndex' = statusIndex
        /\ (msi' <=> msi \/ lastStatusIndex # statusIndex)
    BY <1>5, Zenon DEF IrqUnmask
  <2>2. QED
    BY <2>1, Zenon
<1>6. CASE PhyAnswer
  BY <1>6, Zenon DEF PhyAnswer, IndexAckComplete
<1>7. CASE (\E s \in Sources : DevUpdate(s)) \/ (\E p \in PhyStates : PhyChange(p))
  <2>1. isEnabled /\ pc' = pc /\ masked' = masked /\ (msi' <=> msi \/ ~masked)
    BY <1>7, Zenon DEF DevUpdate, PhyChange
  <2>2. QED
    BY <2>1, Zenon DEF IndexAckComplete
<1>8. CASE UNCHANGED vars
  BY <1>8, Zenon DEF vars, IndexAckComplete
<1>9. QED
  BY <1>1, <1>2, <1>3, <1>4, <1>5, <1>6, <1>7, <1>8 DEF Next, Handler

\* However the device's writes and interruptOccurred interleave, the device is
\* not left masked, nor with a newer index and no interrupt on its way.
THEOREM IndexAckTheorem == Spec => []IndexAckComplete
<1>1. Init => IndexAckComplete
  BY Zenon DEF Init, IndexAckComplete
<1>2. QED
  BY <1>1, NextIndexAck, PTL DEF Spec
-----------------------------------------------------------------------------
(***************************************************************************)
(* The link.                                                               *)
(***************************************************************************)
LEMMA NextMacFollows == TypeOK /\ MacFollowsMedium /\ [Next]_vars => MacFollowsMedium'
<1> SUFFICES ASSUME TypeOK, MacFollowsMedium, [Next]_vars PROVE MacFollowsMedium'
  OBVIOUS
<1> USE DEF linkVars, phyVars, mediaVars
<1>1. CASE \E s \in PhyStatus : UpdateMedia(s)
  BY <1>1, UpdateMediaMode DEF TypeOK
<1>2. CASE UNCHANGED mediaVars
  BY <1>2 DEF MacFollowsMedium
<1>3. CASE Enable
  <2>1. phy \in PhyStatus
    BY DEF TypeOK, PhyTypeOK
  <2>2. UpdateMedia(phy) \/ UNCHANGED mediaVars
    BY <1>3, Zenon DEF Enable, KeepMedia
  <2>3. QED
    BY <2>1, <2>2, <1>1, <1>2
<1>4. CASE PhyRead
  <2>1. (\E s \in PhyStatus : UpdateMedia(s)) \/ UNCHANGED mediaVars
    <3>1. \A r \in mdio : r.state \in PhyStatus
      BY DEF TypeOK, PhyTypeOK, Reads
    <3>2. QED
      BY <1>4, <3>1, Zenon DEF PhyRead, MdioDone, KeepMedia
  <2>2. QED
    BY <2>1, <1>1, <1>2
<1>5. CASE ~Enable /\ ~PhyRead
  <2>1. UNCHANGED mediaVars
    BY <1>5 DEF Next, Handler, IrqEnter, IrqMask, IrqLink, PhyAck, PhyPoll, IrqSource,
       IrqSample, IrqAck, IrqUnmask, PhyAnswer, DevUpdate, PhyChange, vars
  <2>2. QED
    BY <2>1, <1>2
<1>6. QED
  BY <1>3, <1>4, <1>5

\* While the link is reported up, the EMAC is in the mode of the medium reported,
\* whatever updatePHYMediaState read before and however often it could not.
THEOREM MacFollowsTheorem == Spec => []MacFollowsMedium
<1>1. Init => MacFollowsMedium
  BY DEF Init, PhyInit, LinkDown, MacFollowsMedium
<1>2. QED
  BY <1>1, NextMacFollows, TypeCorrect, PTL DEF Spec

\* Where nothing of the link, its acknowledgement and its report changes.
LEMMA LinkInvStable ==
  ASSUME LinkInv, UNCHANGED <<isEnabled, phy, attn, linkAck, flaps, osLink, late>>,
         pc = "phyRead" => pc' = "phyRead", pc # "phyRead" => pc' # "phyRead",
         pc # "idle" => isEnabled, pc = "idle" /\ pc' # "idle" => isEnabled,
         UNCHANGED <<wire, mdio>>
  PROVE LinkInv'
  BY DEF LinkInv, LinkTold

LEMMA NextLinkInv == TypeOK /\ LinkInv /\ [Next]_vars => LinkInv'
<1> SUFFICES ASSUME TypeOK, LinkInv, [Next]_vars PROVE LinkInv'
  OBVIOUS
<1> USE DEF linkVars, phyVars, mdioVars, mediaVars, blockVars
<1>1. CASE Enable
  <2>1. /\ phy' = phy /\ linkAck' = linkAck /\ pc' = pc /\ ~isEnabled /\ isEnabled'
        /\ mdio' = mdio /\ (wire' = wire \/ wire' = GivenUp({NewRead}))
        /\ attn' = phy.up /\ flaps' = IF phy.up THEN 1 ELSE 0
    BY <1>1, Zenon DEF Enable, WriteBlock
  <2>2. pc = "idle" /\ linkAck = FALSE
    BY <2>1 DEF LinkInv
  <2>3. late' \/ UpdateMedia(phy)
    BY <1>1, Zenon DEF Enable
  <2>4. late' \/ LinkTold'
    BY <2>1, <2>3, UpdateMediaTold DEF LinkTold, TypeOK, PhyTypeOK
  <2>5. phy.up \in BOOLEAN
    BY DEF TypeOK, PhyTypeOK, PhyStatus
  <2>6. /\ flaps' = 0 => attn' = linkAck'
        /\ flaps' = 1 => attn' # linkAck'
    <3>1. CASE phy.up = TRUE
      <4>1. flaps' = 1 /\ attn' = TRUE /\ linkAck' = FALSE
        BY <2>1, <2>2, <3>1, Zenon
      <4>2. flaps' # 0
        BY <4>1
      <4>3. QED
        BY <4>1, <4>2, Zenon
    <3>2. CASE phy.up = FALSE
      <4>1. flaps' = 0 /\ attn' = FALSE /\ linkAck' = FALSE
        BY <2>1, <2>2, <3>2, Zenon
      <4>2. flaps' # 1
        BY <4>1
      <4>3. QED
        BY <4>1, <4>2, Zenon
    <3>3. QED
      BY <2>5, <3>1, <3>2, Zenon
  <2>7. \A r \in wire' : r.old
    BY <2>1, <2>2 DEF LinkInv, GivenUp, NewRead
  <2>8. mdio' # {} => wire' = {}
    BY <2>1, <2>2 DEF LinkInv
  <2>9. QED
    BY <2>1, <2>2, <2>4, <2>6, <2>7, <2>8 DEF LinkInv
<1>2. CASE \/ IrqEnter \/ IrqMask \/ IrqSample \/ IrqAck \/ IrqUnmask
           \/ \E s \in Sources : IrqSource(s)
  <2>1. UNCHANGED <<isEnabled, phy, attn, linkAck, flaps, osLink, late, wire, mdio>>
    BY <1>2, Zenon DEF IrqEnter, IrqMask, IrqSample, IrqAck, IrqUnmask, IrqSource
  <2>2. pc # "phyRead" /\ pc' # "phyRead" /\ (pc = "idle" => isEnabled)
    BY <1>2 DEF IrqEnter, IrqMask, IrqSample, IrqAck, IrqUnmask, IrqSource, Sources, After
  <2>3. QED
    BY <2>1, <2>2, LinkInvStable DEF LinkInv
<1>3. CASE IrqLink
  <2>1. UNCHANGED <<isEnabled, phy, attn, linkAck, flaps, osLink, late, wire, mdio>>
    BY <1>3, Zenon DEF IrqLink
  <2>2. pc = "link" /\ pc' \in {"phyAck", "tx"}
    BY <1>3, Zenon DEF IrqLink
  <2>3. QED
    BY <2>1, <2>2, LinkInvStable DEF LinkInv
<1>4. CASE PhyAck
  <2>1. /\ UNCHANGED <<isEnabled, phy, attn, osLink, late>> /\ linkAck' = attn
        /\ pc = "phyAck" /\ pc' = "phyRead" /\ flaps' = 0
        /\ mdio' = {} /\ (wire' = {NewRead} \/ wire' = wire)
    BY <1>4, Zenon DEF PhyAck, MdioStart
  <2>2. \A r \in wire' : r.old \/ r.state = Unseen
    BY <2>1 DEF LinkInv, NewRead
  <2>3. QED
    BY <2>1, <2>2 DEF LinkInv
<1>5. CASE PhyPoll
  <2>1. UNCHANGED <<isEnabled, phy, attn, linkAck, flaps, osLink, late, wire, mdio>>
    BY <1>5, Zenon DEF PhyPoll, MdioPollAgain
  <2>2. pc = "phyRead" /\ pc' = pc
    BY <1>5, Zenon DEF PhyPoll, MdioPollAgain
  <2>3. QED
    BY <2>1, <2>2, LinkInvStable DEF LinkInv
<1>6. CASE PhyRead
  <2>1. /\ UNCHANGED <<isEnabled, phy, linkAck, flaps>> /\ attn' = phy.up
        /\ pc = "phyRead" /\ pc' = "tx"
    BY <1>6, Zenon DEF PhyRead, WriteBlock
  <2>2. isEnabled /\ attn' = attn
    BY <2>1 DEF LinkInv
  <2>3. /\ late' \/ \E r \in mdio : UpdateMedia(r.state) /\ ~r.old
        /\ mdio' = {}
        /\ (mdio # {} /\ wire' = wire) \/ wire' = GivenUp(wire)
    BY <1>6, Zenon DEF PhyRead, MdioDone
  <2>4. ASSUME flaps = 0, ~late' PROVE LinkTold'
    <3>1. UpdateMedia(phy)
      BY <2>1, <2>3, <2>4 DEF LinkInv, TypeOK, PhyTypeOK
    <3>2. QED
      BY <2>1, <3>1, UpdateMediaTold DEF LinkTold, TypeOK, PhyTypeOK
  <2>5. \A r \in wire' : r.old
    <3>1. wire \subseteq Reads /\ (mdio # {} => wire = {})
      BY DEF LinkInv, TypeOK, PhyTypeOK
    <3>2. QED
      BY <2>3, <3>1 DEF GivenUp, Reads
  <2>6. QED
    BY <2>1, <2>2, <2>3, <2>4, <2>5 DEF LinkInv
<1>7. CASE PhyAnswer
  <2>1. UNCHANGED <<isEnabled, phy, attn, linkAck, flaps, osLink, late, pc>>
    BY <1>7, Zenon DEF PhyAnswer
  <2>2. CASE MdioSense
    <3>1. mdio' = mdio /\ mdio = {} /\ wire' = {[r EXCEPT !.state = phy] : r \in wire}
      BY <2>2 DEF MdioSense, LinkInv
    <3>2. \A q \in wire' : \E r \in wire : q.old = r.old /\ q.state = phy
      BY <3>1 DEF TypeOK, PhyTypeOK, Reads
    <3>3. QED
      BY <2>1, <3>1, <3>2 DEF LinkInv, LinkTold
  <2>3. CASE MdioAnswer(pc = "phyRead")
    <3>1. wire' = {} /\ mdio' \subseteq wire /\ (pc # "phyRead" => mdio' = {})
      BY <2>3, Zenon DEF MdioAnswer
    <3>2. QED
      BY <2>1, <3>1 DEF LinkInv, LinkTold
  <2>4. QED
    BY <1>7, <2>2, <2>3 DEF PhyAnswer
<1>8. CASE \E s \in Sources : DevUpdate(s)
  <2>1. /\ UNCHANGED <<isEnabled, phy, linkAck, flaps, osLink, late, pc, wire, mdio>>
        /\ attn' = phy.up /\ isEnabled
    BY <1>8, Zenon DEF DevUpdate, WriteBlock
  <2>2. attn' = attn
    BY <2>1 DEF LinkInv
  <2>3. QED
    BY <2>1, <2>2, LinkInvStable DEF LinkInv
<1>9. CASE \E p \in PhyStates : PhyChange(p)
  <2>1. /\ UNCHANGED <<isEnabled, linkAck, pc, wire, mdio>> /\ attn' = phy'.up /\ isEnabled
        /\ phy'.up # phy.up
        /\ flaps' = IF attn = linkAck /\ pc # "phyRead" THEN 1 ELSE IF flaps = 0 THEN 1 ELSE 2
    BY <1>9, Zenon DEF PhyChange, WriteBlock
  <2>2. attn = phy.up /\ (flaps = 0 => attn = linkAck)
    BY <2>1 DEF LinkInv
  <2>3. attn \in BOOLEAN /\ linkAck \in BOOLEAN /\ flaps' \in {1, 2}
    BY <2>1 DEF TypeOK
  <2>4. flaps' = 1 => attn = linkAck
    BY <2>1, <2>2
  <2>5. flaps' = 1 => attn' # linkAck'
    BY <2>1, <2>2, <2>4
  <2>6. QED
    BY <2>1, <2>3, <2>5 DEF LinkInv
<1>10. CASE UNCHANGED vars
  <2>1. UNCHANGED <<isEnabled, phy, attn, linkAck, flaps, osLink, late, pc, wire, mdio>>
    BY <1>10, Zenon DEF vars
  <2>2. QED
    BY <2>1, LinkInvStable DEF LinkInv
<1>11. QED
  BY <1>1, <1>2, <1>3, <1>4, <1>5, <1>6, <1>7, <1>8, <1>9, <1>10 DEF Next, Handler

\* A link whose state handlePHYInterrupt has acknowledged is reported as it is,
\* unless the last read of the PHY failed or took the answer to an earlier one, or
\* the link changed twice meanwhile.
THEOREM LinkReportedTheorem == Spec => []LinkReported
<1>1. Init => LinkInv
  BY DEF Init, PhyInit, LinkInv
<1>2. TypeOK /\ LinkInv => LinkReported
  <2> SUFFICES ASSUME TypeOK, LinkInv, LinkSettled, flaps < 2 PROVE LinkTold
    BY DEF LinkReported
  <2>1. isEnabled /\ pc = "idle" /\ attn = linkAck /\ ~late
    BY DEF LinkSettled
  <2>2. flaps = 0
    BY <2>1 DEF LinkInv, TypeOK
  <2>3. QED
    BY <2>1, <2>2 DEF LinkInv
<1>3. QED
  BY <1>1, <1>2, NextLinkInv, TypeCorrect, PTL DEF Spec
=============================================================================
