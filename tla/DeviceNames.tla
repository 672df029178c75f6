---------------------------- MODULE DeviceNames -----------------------------
(***************************************************************************)
(* How the driver calls a controller: getDeviceVendor and getDeviceModel   *)
(* of Private.cpp, a search for the first row of a table that fits.        *)
(***************************************************************************)
EXTENDS Naturals, FiniteSetsExt

BRCM_VENDORID == \h14E4
HP_VENDORID == \h103C
PCI_ANY_ID == \hFFFF
AnyBoard == <<PCI_ANY_ID, PCI_ANY_ID>>

Row(device, sub, vendor, model) ==
  [id |-> <<BRCM_VENDORID, device>>, sub |-> sub, vendor |-> vendor, model |-> model]
HP(device, sub, model) == Row(device, <<HP_VENDORID, sub>>, "HP", model)
QLogic(device, model) == Row(device, AnyBoard, "QLogic", model)

deviceNames ==
  << HP(\h164A, \h3101, "NC370T"), HP(\h164A, \h3106, "NC370i"),
     HP(\h164A, \h3070, "NC380T"), HP(\h164A, \h1709, "NC371i"),
     QLogic(\h164A, "BCM5706"),
     HP(\h16AA, \h3102, "NC370F"), QLogic(\h16AA, "BCM5706S"),
     HP(\h164C, \h7037, "NC373T"), HP(\h164C, \h7039, "NC373i"),
     HP(\h164C, \h7045, "NC374m"), QLogic(\h164C, "BCM5708"),
     HP(\h16AC, \h1706, "NC373m"), HP(\h16AC, \h703B, "NC373i"),
     HP(\h16AC, \h703D, "NC373F"), QLogic(\h16AC, "BCM5708S"),
     HP(\h1639, \h7055, "NC382i"), HP(\h1639, \h7059, "NC382T"),
     QLogic(\h1639, "BCM5709"),
     HP(\h163A, \h171D, "NC382m"), HP(\h163A, \h7056, "NC382i"),
     QLogic(\h163A, "BCM5709S"),
     QLogic(\h163B, "BCM5716") >>
Rows == DOMAIN deviceNames

\* What carries a chip of a number: the plain, the serdes one, and the 5716.
IdsOf(num) == {<<BRCM_VENDORID, d>> : d \in
                 CASE num = 5706 -> {\h164A, \h16AA}
                   [] num = 5708 -> {\h164C, \h16AC}
                   [] num = 5709 -> {\h1639, \h163A, \h163B}}

Fits(row, id, sub) ==
  row.id = id /\ \A k \in 1 .. 2 : row.sub[k] \in {sub[k], PCI_ANY_ID}

Hits(id, sub) == {i \in Rows : Fits(deviceNames[i], id, sub)}

Name(row) == [vendor |-> row.vendor, model |-> row.model]

\* A mutant: the last row that fits.
getDeviceLast(id, sub) ==
  IF Hits(id, sub) = {} THEN [vendor |-> "Unknown", model |-> "Unknown"]
  ELSE Name(deviceNames[Max(Hits(id, sub))])

getDevice(id, sub) ==
  IF Hits(id, sub) = {} THEN [vendor |-> "Unknown", model |-> "Unknown"]
  ELSE Name(deviceNames[Min(Hits(id, sub))])
-----------------------------------------------------------------------------
\* Boards of the table, one of its makers that it does not have, another's.
SubIds == {deviceNames[i].sub : i \in Rows} \cup {<<HP_VENDORID, 1>>, <<BRCM_VENDORID, 1>>}

RowsOf(id, sub) == {i \in Rows : deviceNames[i].id = id /\ deviceNames[i].sub = sub}

\* The rows meant for a board: its own, or those of its chip for any board.
BestRows(id, sub) == IF RowsOf(id, sub) # {} THEN RowsOf(id, sub) ELSE RowsOf(id, AnyBoard)

\* A board the table lists is called by its own row and every other one by the
\* row of its chip, wherever the rows stand; no controller of this chip is
\* unknown.
NamedBest(num) ==
  \A id \in IdsOf(num), sub \in SubIds :
    \E i \in BestRows(id, sub) : getDevice(id, sub) = Name(deviceNames[i])
=============================================================================
