------------------------------ MODULE PhyLink -------------------------------
(***************************************************************************)
(* The link: what the PHY says, how updatePHYMediaState (PHY.cpp) learns   *)
(* it over MDIO and what it makes of it - the port and duplex mode of the  *)
(* EMAC and the link state reported to the network stack.                  *)
(*                                                                         *)
(* An MDIO read takes its time: the PHY looks at its link at some moment   *)
(* and the answer is there some time later, in the 16 bits the one         *)
(* register has for every read.  readPhyReg16 polls for it PhyPolls times; *)
(* a read given up on goes on, and nothing in the next answer tells which  *)
(* of the two it belongs to.                                               *)
(***************************************************************************)
EXTENDS Naturals

CONSTANTS
  Is5706,     \* NX2_CHIP_NUM is that of the 5706
  PhyPolls,   \* NX2_PHY_TIMEOUT, 50 in the code
  PhyStates   \* bound: the states the PHY takes

\* The speeds PHY_AUX_STATUS tells; two of its values are none of them.
Speeds == {"10HD", "10FD", "100HD", "100FD", "1000HD", "1000FD"}
PhyStatus == [up : BOOLEAN, speed : Speeds \cup {"other"}]

ASSUME PhyAssumption == /\ Is5706 \in BOOLEAN
                        /\ PhyPolls \in Nat \ {0}
                        /\ PhyStates \subseteq PhyStatus

VARIABLES
  phy,                  \* what the PHY would answer now
  wire,                 \* the MDIO read under way: {}, or {what it has seen}
  mdio,                 \* NX2_EMAC_MDIO_COMM: {what was read}, {} while busy or
                        \* when nobody waits for it
  polls,                \* how often it has been polled
  emac,                 \* NX2_EMAC_MODE: the bits set
  mediaState,           \* speed and duplex
  currentMediumIndex,
  osLink,               \* what setLinkStatus was last told
  late                  \* updatePHYMediaState has last given up, or taken the
                        \* answer to a read that had been given up

mdioVars == <<wire, mdio, polls>>
mediaVars == <<emac, mediaState, currentMediumIndex, osLink>>

\* NX2_EMAC_MODE by its bits: MII_10 has both bits of the port.
PORT_MII == {2}
PORT_GMII == {3}
PORT_MII_10 == {2, 3}
HALF_DUPLEX == {1}
MAC_LOOP == {4}
FORCE_LINK == {11}
EMAC_25G == {5}
ModeBits == PORT_MII_10 \cup HALF_DUPLEX \cup MAC_LOOP \cup FORCE_LINK \cup EMAC_25G

\* A read: what the PHY has seen, and whether the driver has given it up.
Unseen == [up |-> FALSE, speed |-> "unseen"]
Reads == [state : PhyStatus \cup {Unseen}, old : BOOLEAN]
NewRead == [state |-> Unseen, old |-> FALSE]
GivenUp(reads) == {[r EXCEPT !.old = TRUE] : r \in reads}

NoMedia == [speed |-> 0, duplex |-> "none"]
LinkDown == [up |-> FALSE, medium |-> "none"]

MediaOf(s) ==
  IF s \notin Speeds THEN NoMedia ELSE
  [speed |-> IF s \in {"10HD", "10FD"} THEN 10
             ELSE IF s \in {"100HD", "100FD"} THEN 100 ELSE 1000,
   duplex |-> IF s \in {"10HD", "100HD", "1000HD"} THEN "half" ELSE "full"]

\* 10 MBit/s is a port mode of its own on the 5706 only.
PortOf(media) == CASE media.speed = 10 /\ Is5706 -> PORT_MII_10
                   [] media.speed = 10 /\ ~Is5706 -> PORT_MII
                   [] media.speed = 100 -> PORT_MII
                   [] OTHER -> PORT_GMII

ModeOf(media) ==
  PortOf(media) \cup (IF media.duplex = "half" THEN HALF_DUPLEX ELSE {})

PhyInit ==
  /\ phy \in PhyStates
  /\ wire = {} /\ mdio = {} /\ polls = 0
  /\ emac \in {{}, ModeBits}   \* the code does not tell what a reset leaves
  /\ mediaState = NoMedia /\ currentMediumIndex = "auto"
  /\ osLink = LinkDown /\ late = FALSE
-----------------------------------------------------------------------------
\* readPhyReg16: the read is started, also while an earlier one, given up on, is
\* still under way; the device then drops that or finishes it first.
MdioStart ==
  /\ wire' = {NewRead} \/ (wire # {} /\ UNCHANGED wire)
  /\ mdio' = {} /\ polls' = 0

\* The PHY looks at its link.
MdioSense ==
  /\ \E r \in wire : r.state = Unseen
  /\ wire' = {[r EXCEPT !.state = phy] : r \in wire}
  /\ UNCHANGED <<mdio, polls>>

\* The answer is there: what the PHY has seen, however long ago.  Nobody takes
\* the one that comes while the driver does not wait.
MdioAnswer(waiting) ==
  /\ wire # {} /\ \A r \in wire : r.state # Unseen
  /\ mdio' = (IF waiting THEN wire ELSE {}) /\ wire' = {}
  /\ UNCHANGED polls

MdioPollAgain ==
  /\ mdio = {} /\ polls + 1 < PhyPolls
  /\ polls' = polls + 1
  /\ UNCHANGED <<wire, mdio>>

\* A mutant: the old mode of the port is not taken out first.
UpdateMediaKeeping(s) ==
  /\ mediaState' = MediaOf(s.speed)
  /\ currentMediumIndex' = IF s.speed \in Speeds THEN s.speed ELSE currentMediumIndex
  /\ emac' = emac \cup (IF s.up THEN ModeOf(mediaState') ELSE {})
  /\ osLink' = IF s.up THEN [up |-> TRUE, medium |-> currentMediumIndex'] ELSE LinkDown

\* updatePHYMediaState once the PHY has answered.  A speed that is none of the
\* six leaves the index of the medium as it was.
UpdateMedia(s) ==
  /\ mediaState' = MediaOf(s.speed)
  /\ currentMediumIndex' = IF s.speed \in Speeds THEN s.speed ELSE currentMediumIndex
  /\ emac' = (emac \ ModeBits) \cup (IF s.up THEN ModeOf(mediaState') ELSE {})
  /\ osLink' = IF s.up THEN [up |-> TRUE, medium |-> currentMediumIndex'] ELSE LinkDown

\* updatePHYMediaState when it has not: nothing is changed or reported.
KeepMedia == UNCHANGED mediaVars

\* The read is over: there is an answer, or it has been polled for long enough.
MdioDone ==
  /\ polls' = 0 /\ mdio' = {}
  /\ \/ \E r \in mdio : UpdateMedia(r.state) /\ late' = r.old /\ UNCHANGED wire
     \/ /\ mdio = {} /\ polls + 1 = PhyPolls
        /\ KeepMedia /\ late' = TRUE /\ wire' = GivenUp(wire)
-----------------------------------------------------------------------------
PhyTypeOK ==
  /\ phy \in PhyStatus
  /\ wire \subseteq Reads /\ mdio \subseteq {r \in Reads : r.state # Unseen} /\ polls \in 0 .. PhyPolls - 1
  /\ emac \subseteq ModeBits
  /\ mediaState \in [speed : {0, 10, 100, 1000}, duplex : {"none", "half", "full"}]
  /\ currentMediumIndex \in Speeds \cup {"auto"}
  /\ osLink \in [up : BOOLEAN, medium : Speeds \cup {"auto", "none"}]
  /\ late \in BOOLEAN

\* "PHY link speed is dependent on the link speed" (PHY.cpp:357): while a link
\* is reported up, the port and the duplex mode of the EMAC are those of the
\* medium reported, through every change of speed and every read that failed in
\* between; loop-back and a forced link do not survive.  (A speed the PHY
\* cannot name leaves the medium reported to chance.)
MacFollowsMedium ==
  osLink.up /\ mediaState # NoMedia => emac = ModeOf(MediaOf(osLink.medium))
=============================================================================
