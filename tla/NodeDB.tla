------------------------------- MODULE NodeDB -------------------------------
(***************************************************************************)
(* The node database of a Meshtastic device (src/mesh/NodeDB.cpp): the    *)
(* in-RAM DeviceState (peer table, own node number, channel settings,     *)
(* region), its persistence to "/db.proto" through "/db.proto.tmp", the   *)
(* boot sequence NodeDB::init, and the runtime handlers that merge mesh   *)
(* packets into the peer table.  Power may fail at any step.               *)
(*                                                                         *)
(* All mutation runs on one cooperative thread, so each handler is one    *)
(* action.  The only exception is saveToDisk, whose file operations are   *)
(* separate steps because a power loss can fall between any two of them. *)
(***************************************************************************)
EXTENDS Naturals, FiniteSets

CONSTANTS
    MaxNodes,       \* MAX_NUM_NODES: capacity of devicestate.node_db
    NumReserved,    \* NUM_RESERVED: node numbers below it are reserved
    Broadcast,      \* NODENUM_BROADCAST: the largest node number
    OurMacNum,      \* the node number packed from our MAC bytes 2..5
    Users,          \* User payloads (model values)
    NoUser,         \* the all-zero User of a fresh NodeInfo
    OwnerUser,      \* our own owner record built by installDefaultDeviceState
    Macs,           \* MAC addresses (model values)
    MacOf,          \* MacOf[u]: the macaddr field of User u
    Regions,        \* RegionCode values other than Unset
    RegionUnset,    \* RegionCode_Unset
    RegionStrs,     \* values of myNodeInfo.region (legacy region string)
    EmptyStr,       \* the empty string "" among them
    LegacyRegionOf, \* what the "1.0-<NAME>" lookup of init() yields per string
    HwVersion,      \* build constant HW_VERSION (EmptyStr when the build sets none)
    Senders,        \* node numbers that inbound packets may carry in mp.from
    NoFile,         \* a file that does not exist
    CorruptFile,    \* a file pb_decode rejects
    PartialFile,    \* a file whose writing was cut short
    InitialFlash,   \* contents of /db.proto when the device is first powered
    MaxGeneration,  \* bound on radioGeneration, to keep the model finite
    LongWidths      \* widths of long a build may have: 32 on the ESP32 and
                    \* nRF52 targets, 64 on a 64-bit host

Slots      == 1..MaxNodes
NodeNums   == 0..Broadcast
UserVals   == Users \cup {NoUser}
RegionCodes == Regions \cup {RegionUnset}

(* DEVICESTATE_CUR_VER and DEVICESTATE_MIN_VER *)
CurVer == 11
MinVer == CurVer

ASSUME MaxNodesAssumption   == MaxNodes \in Nat \ {0}
ASSUME ReservedAssumption   == NumReserved \in Nat \ {0} /\ Broadcast \in Nat /\ NumReserved < Broadcast
(* The non-reserved range has more values than the table has slots, so  *)
(* some value of it is always free.  Only a 64-bit build draws from the  *)
(* whole range (RandomDraws).                                             *)
ASSUME RangeAssumption      == Broadcast - NumReserved > MaxNodes
ASSUME LongAssumption       == LongWidths \subseteq {32, 64} /\ LongWidths # {}
ASSUME MacNumAssumption     == OurMacNum \in NodeNums
ASSUME UserAssumption       == OwnerUser \in Users /\ NoUser \notin Users
ASSUME MacAssumption        == /\ MacOf \in [UserVals -> Macs]
                               /\ MacOf[NoUser] # MacOf[OwnerUser]
ASSUME RegionAssumption     == RegionUnset \notin Regions /\ EmptyStr \in RegionStrs
ASSUME LegacyAssumption     == /\ LegacyRegionOf \in [RegionStrs -> RegionCodes]
                               /\ HwVersion \in RegionStrs
ASSUME SendersAssumption    == Senders \subseteq NodeNums
ASSUME GenerationAssumption == MaxGeneration \in Nat

OurMac == MacOf[OwnerUser]

(* A NodeInfo record as far as the node number and the owner matter; its *)
(* position, last-seen time and snr are modelled in NodeCatalog.          *)
NodeRec == [num: NodeNums, user: UserVals, hasUser: BOOLEAN]

BlankNode == [num |-> 0, user |-> NoUser, hasUser |-> FALSE]

(* The DeviceState record, in RAM and as the decoded content of a file.   *)
DeviceState == [ver: 0..CurVer, nodes: [Slots -> NodeRec],
                numNodes: 0..MaxNodes, myNodeNum: NodeNums,
                region: RegionCodes, regionStr: RegionStrs]

(* memset(&devicestate, 0, sizeof(devicestate))                           *)
ZeroDS == [ver |-> 0, nodes |-> [i \in Slots |-> BlankNode], numNodes |-> 0,
           myNodeNum |-> 0,
           region |-> RegionUnset, regionStr |-> EmptyStr]

ASSUME FileAssumption  == /\ {NoFile, CorruptFile, PartialFile} \cap DeviceState = {}
                          /\ NoFile # CorruptFile /\ NoFile # PartialFile
                          /\ CorruptFile # PartialFile
(* No two occupied slots of a table hold the same node number.           *)
UniqueIn(d) == \A i, j \in 1..d.numNodes : d.nodes[i].num = d.nodes[j].num => i = j

(* A file found at power-on was written by this firmware or an older one, *)
(* so its table has unique node numbers, or it does not decode.           *)
ASSUME FlashAssumption == /\ InitialFlash \subseteq ({NoFile, CorruptFile} \cup DeviceState)
                          /\ \A f \in InitialFlash \cap DeviceState : UniqueIn(f)

VARIABLES
    phase,      \* "off", "running", or the step saveToDisk is at
    ds,         \* devicestate in RAM
    radioGen,   \* radioGeneration
    primary,    \* /db.proto: NoFile, CorruptFile, or a decodable DeviceState
    tmp,        \* /db.proto.tmp: NoFile, PartialFile, or a DeviceState
    bootAsserted, \* history: the capacity assert fired inside NodeDB::init
    longWidth,  \* the width of long in the build the device runs, fixed
    pickHung    \* history: the collision loop of pickNewNodeNum never ended

vars == <<phase, ds, radioGen, primary, tmp, bootAsserted, longWidth, pickHung>>

Phases == {"off", "running", "encoding", "removing", "renaming"}

-----------------------------------------------------------------------------
(***************************************************************************)
(* Peer table helpers                                                      *)
(***************************************************************************)

(* Seeded fault: the scan of getNode stops one slot short.               *)
FoundAt_offByOne(d, n) == {i \in 1..(d.numNodes - 1) : d.nodes[i].num = n}

(* Indices of the occupied slots holding node number n.                   *)
FoundAt(d, n) == {i \in 1..d.numNodes : d.nodes[i].num = n}

(* getNode: the first occupied slot holding n, 0 for NULL.                *)
getNode(d, n) == IF FoundAt(d, n) = {} THEN 0
                 ELSE CHOOSE i \in FoundAt(d, n) : \A j \in FoundAt(d, n) : i <= j

(* Seeded fault: the assert reads numNodes <= MAX_NUM_NODES.              *)
WouldOverflow_offByOne(d, n) == getNode(d, n) = 0 /\ d.numNodes > MaxNodes

(* The assert "numNodes < MAX_NUM_NODES" of getOrCreateNode would fail. *)
WouldOverflow(d, n) == getNode(d, n) = 0 /\ d.numNodes = MaxNodes

(* getOrCreateNode: append a zeroed record carrying n when n is missing.  *)
getOrCreateNode(d, n) ==
    IF getNode(d, n) # 0 THEN d
    ELSE [d EXCEPT !.numNodes = @ + 1,
                   !.nodes[d.numNodes + 1] = [BlankNode EXCEPT !.num = n]]

(* The slot getOrCreateNode(d, n) returns.                                *)
SlotOf(d, n) == getNode(getOrCreateNode(d, n), n)

-----------------------------------------------------------------------------
(***************************************************************************)
(* pickNewNodeNum                                                          *)
(***************************************************************************)

(* Seeded fault: the reserved range test is one short.                   *)
ClampReserved_offByOne(r) == IF r = Broadcast \/ r < NumReserved - 1 THEN NumReserved ELSE r

ClampReserved(r) == IF r = Broadcast \/ r < NumReserved THEN NumReserved ELSE r

StartNum(d) == ClampReserved(IF d.myNodeNum = 0 THEN OurMacNum ELSE d.myNodeNum)

(* Seeded fault: the memcmp result of the loop condition is negated.      *)
TakenByOther_sameMac(d, r) == getNode(d, r) # 0 /\ MacOf[d.nodes[getNode(d, r)].user] = OurMac

(* The loop condition: r is held by a record whose macaddr is not ours.   *)
TakenByOther(d, r) == getNode(d, r) # 0 /\ MacOf[d.nodes[getNode(d, r)].user] # OurMac

(* Line 342: random(NUM_RESERVED, NODENUM_BROADCAST) is Arduino's        *)
(* long random(long howsmall, long howbig), which returns howsmall when   *)
(* howsmall >= howbig and a value of [howsmall, howbig) otherwise.        *)
(* NODENUM_BROADCAST is UINT32_MAX: a 64-bit long keeps it, a 32-bit long *)
(* turns it into -1, so there every draw is NUM_RESERVED.                 *)
RandomDraws(w) == IF w = 32 THEN {NumReserved} ELSE NumReserved..(Broadcast - 1)

(* The values the loop can end with: the start value when free, else a   *)
(* free value the draws can reach.  The set is empty when none is free:   *)
(* the loop then never ends.                                              *)
PickNodeNum(d) ==
    IF ~TakenByOther(d, StartNum(d)) THEN {StartNum(d)}
    ELSE {r \in RandomDraws(longWidth) : ~TakenByOther(d, r)}

-----------------------------------------------------------------------------
(***************************************************************************)
(* resetRadioConfig and installDefaultDeviceState                          *)
(***************************************************************************)

(* The channel settings that resetRadioConfig installs and normalises are *)
(* modelled in ChannelConfig; here a call of it only counts in            *)
(* radioGeneration and, with factory_reset, wipes the state.              *)

(* installDefaultDeviceState: wipe, default channel, owner, provisional   *)
(* node number (the table is empty, so the pick is the start value), and  *)
(* the region code and string restored when they were set.               *)
installDefaultDeviceState(d) ==
    LET z == ZeroDS
    IN  [z EXCEPT !.myNodeNum = StartNum(z),
                  !.region    = IF d.region # RegionUnset THEN d.region ELSE @,
                  !.regionStr = IF d.regionStr # EmptyStr THEN d.regionStr ELSE @]

(* resetRadioConfig(): factory is preferences.factory_reset.             *)
resetRadioConfig(d, factory) ==
    IF factory THEN installDefaultDeviceState(d) ELSE d

(* radioGeneration increments of installDefaultDeviceState / resetRadioConfig *)
GenInstall == 1
GenReset(factory) == IF factory THEN 2 ELSE 1

-----------------------------------------------------------------------------
(***************************************************************************)
(* loadFromDisk: the states RAM can hold after it, for a given file.      *)
(* A failed decode leaves whatever pb_decode wrote before failing, which  *)
(* installDefaultDeviceState then reads the region from.                  *)
(***************************************************************************)
PartialDecodes ==
    [ver: {0}, nodes: {ZeroDS.nodes}, numNodes: {0}, myNodeNum: {0},
     region: RegionCodes, regionStr: RegionStrs]

LoadResults(d, f) ==
    IF f = NoFile THEN {d}
    ELSE IF f = CorruptFile
         THEN {installDefaultDeviceState(p) : p \in PartialDecodes}
    ELSE IF f.ver < MinVer THEN {installDefaultDeviceState(f)}
    ELSE {f}

LoadGen(f) == IF f = NoFile \/ (f # CorruptFile /\ f.ver >= MinVer) THEN 0 ELSE GenInstall

(* init(): lines 298-312, HW_VERSION then the "1.0-<REGION>" migration.   *)
MigrateRegion(d) ==
    LET s == IF HwVersion # EmptyStr THEN HwVersion ELSE d.regionStr
    IN  [d EXCEPT !.regionStr = s,
                  !.region = IF @ = RegionUnset THEN LegacyRegionOf[s] ELSE @]

(* updateUser: info->user = p; info->has_user = true (slot i of d).       *)
SetUser(d, i, u) == [d EXCEPT !.nodes[i] = [@ EXCEPT !.user = u, !.hasUser = TRUE]]

(* init(): after the pick, our own record carries our owner.             *)
AddOwnRecord(d) ==
    SetUser(getOrCreateNode(d, d.myNodeNum), SlotOf(d, d.myNodeNum), OwnerUser)

-----------------------------------------------------------------------------
(***************************************************************************)
(* Actions                                                                 *)
(***************************************************************************)

Init ==
    /\ phase = "off"
    /\ ds = ZeroDS
    /\ radioGen = 0
    /\ primary \in InitialFlash
    /\ tmp = NoFile
    /\ bootAsserted = FALSE
    /\ longWidth \in LongWidths
    /\ pickHung = FALSE

(* NodeDB::init at power-on: installDefaultDeviceState, loadFromDisk,     *)
(* pickNewNodeNum, own record, region migration, resetRadioConfig.  When  *)
(* the own record does not fit, the assert reboots the device.            *)
Boot ==
    /\ phase = "off"
    /\ \E loaded \in LoadResults(installDefaultDeviceState(ZeroDS), primary) :
       \E r \in PickNodeNum(loaded) :
         LET picked == [loaded EXCEPT !.myNodeNum = r]
         IN  IF WouldOverflow(picked, r)
             THEN /\ bootAsserted' = TRUE
                  /\ UNCHANGED <<phase, ds, radioGen>>
             ELSE /\ ds' = resetRadioConfig(MigrateRegion(AddOwnRecord(picked)), FALSE)
                  /\ radioGen' = GenInstall + LoadGen(primary) + GenReset(FALSE)
                  /\ phase' = "running"
                  /\ UNCHANGED bootAsserted
    /\ UNCHANGED <<primary, tmp, longWidth, pickHung>>

(* NodeDB::init at power-on when the collision loop of pickNewNodeNum    *)
(* (lines 340-345) finds no free value to draw: it spins until the power *)
(* is cut, which returns the device to "off".                             *)
BootHang ==
    /\ phase = "off"
    /\ \E loaded \in LoadResults(installDefaultDeviceState(ZeroDS), primary) :
          PickNodeNum(loaded) = {}
    /\ pickHung' = TRUE
    /\ UNCHANGED <<phase, ds, radioGen, primary, tmp, bootAsserted, longWidth>>

(* NodeDB::updateFrom for a decoded packet: upsert the sender; a user    *)
(* payload goes to updateUser, which overwrites the record's user.  The   *)
(* position, data and default branches leave num and user alone (their    *)
(* effect on the record is modelled in NodeCatalog).  A new sender with   *)
(* the table full fails the assert of getOrCreateNode: the device reboots. *)
updateFrom(from, isUser, user) ==
    /\ phase = "running"
    /\ IF WouldOverflow(ds, from)
       THEN /\ phase' = "off"
            /\ ds' = ZeroDS
            /\ radioGen' = 0
       ELSE LET g == getOrCreateNode(ds, from)
                i == SlotOf(ds, from)
            IN  /\ ds' = IF isUser THEN SetUser(g, i, user) ELSE g
                /\ UNCHANGED <<phase, radioGen>>
    /\ UNCHANGED <<primary, tmp, bootAsserted, longWidth, pickHung>>

(* A phone client writes a new region and factory_reset flag, then        *)
(* MeshService reloads them through resetRadioConfig.                     *)
SetRadioConfig(region, factory) ==
    /\ phase = "running"
    /\ radioGen + GenReset(factory) <= MaxGeneration
    /\ ds' = resetRadioConfig([ds EXCEPT !.region = region], factory)
    /\ radioGen' = radioGen + GenReset(factory)
    /\ UNCHANGED <<phase, primary, tmp, bootAsserted, longWidth, pickHung>>

(* saveToDisk, step 1: FS.open(preftmp) truncates the temporary file.     *)
(* A failed open only logs, a stutter.                                    *)
SaveOpen ==
    /\ phase = "running"
    /\ tmp' = PartialFile
    /\ phase' = "encoding"
    /\ UNCHANGED <<ds, radioGen, primary, bootAsserted, longWidth, pickHung>>

(* Seeded fault: a failed encode falls through to remove and rename.     *)
SaveEncode_renameOnFailure ==
    /\ phase = "encoding"
    /\ ds' = [ds EXCEPT !.ver = CurVer]
    /\ \/ tmp' = [ds EXCEPT !.ver = CurVer]
       \/ UNCHANGED tmp
    /\ phase' = "removing"
    /\ UNCHANGED <<radioGen, primary, bootAsserted, longWidth, pickHung>>

(* step 2: stamp the version, pb_encode; on failure close and stop.       *)
SaveEncode ==
    /\ phase = "encoding"
    /\ ds' = [ds EXCEPT !.ver = CurVer]
    /\ \/ /\ tmp' = [ds EXCEPT !.ver = CurVer]
          /\ phase' = "removing"
       \/ /\ phase' = "running"
          /\ UNCHANGED tmp
    /\ UNCHANGED <<radioGen, primary, bootAsserted, longWidth, pickHung>>

(* step 3: FS.remove(preffile), whose failure is only logged.             *)
SaveRemove ==
    /\ phase = "removing"
    /\ primary' \in {NoFile, primary}
    /\ phase' = "renaming"
    /\ UNCHANGED <<ds, radioGen, tmp, bootAsserted, longWidth, pickHung>>

(* step 4: FS.rename(preftmp, preffile), whose failure is only logged.    *)
SaveRename ==
    /\ phase = "renaming"
    /\ \/ /\ primary' = tmp
          /\ tmp' = NoFile
       \/ UNCHANGED <<primary, tmp>>
    /\ phase' = "running"
    /\ UNCHANGED <<ds, radioGen, bootAsserted, longWidth, pickHung>>

(* Power loss: RAM is gone, the files stay as they are.                   *)
PowerLoss ==
    /\ phase # "off"
    /\ phase' = "off"
    /\ ds' = ZeroDS
    /\ radioGen' = 0
    /\ UNCHANGED <<primary, tmp, bootAsserted, longWidth, pickHung>>

Next ==
    \/ Boot
    \/ BootHang
    \/ \E from \in Senders, isUser \in BOOLEAN, user \in Users :
          updateFrom(from, isUser, user)
    \/ \E region \in RegionCodes, factory \in BOOLEAN :
          SetRadioConfig(region, factory)
    \/ SaveOpen
    \/ SaveEncode
    \/ SaveRemove
    \/ SaveRename
    \/ PowerLoss

Spec == Init /\ [][Next]_vars

(* Outside saveToDisk the temporary file is never read (SaveOpen truncates *)
(* it first and loadFromDisk ignores it), so states differing only there   *)
(* behave alike.                                                          *)
LiveTmp == IF phase \in {"removing", "renaming"} THEN tmp ELSE NoFile
View == <<phase, ds, radioGen, primary, LiveTmp, bootAsserted, longWidth, pickHung>>

-----------------------------------------------------------------------------
(***************************************************************************)
(* Properties                                                              *)
(***************************************************************************)

FileVals == {NoFile, CorruptFile, PartialFile} \cup DeviceState

TypeOK ==
    /\ phase \in Phases
    /\ ds \in DeviceState
    /\ radioGen \in Nat
    /\ primary \in FileVals
    /\ tmp \in FileVals
    /\ bootAsserted \in BOOLEAN
    /\ longWidth \in LongWidths
    /\ pickHung \in BOOLEAN

(* Peer numbers are unique in the RAM table and in every file the code   *)
(* wrote: getOrCreateNode appends only after getNode missed, and a save  *)
(* or load copies the table whole.                                        *)
UniqueNums ==
    /\ UniqueIn(ds)
    /\ primary \in DeviceState => UniqueIn(primary)
    /\ tmp \in DeviceState => UniqueIn(tmp)

(* While the device runs, its node number is neither reserved nor the    *)
(* broadcast address, whatever was loaded from flash (pickNewNodeNum).    *)
NodeNumValid ==
    phase # "off" => ds.myNodeNum \in NumReserved..(Broadcast - 1)

(* saveToDisk never leaves a torn file under /db.proto: a power loss or  *)
(* an encode failure leaves the previous file in place.                   *)
PrimaryNeverPartial == primary # PartialFile

(* The strengthening PrimaryNeverPartial needs: once saveToDisk is past   *)
(* the encode, the temporary file it renames holds a whole DeviceState.   *)
SaveInv == phase \in {"removing", "renaming"} => tmp \in DeviceState

(* Booting never takes over the record of another device: every record   *)
(* of the loaded file whose user has another MAC keeps that user (the    *)
(* collision loop of pickNewNodeNum).                                     *)
BootKeepsPeers ==
    [][ (Boot /\ phase' = "running" /\ primary \in DeviceState /\ primary.ver >= MinVer) =>
        \A i \in 1..primary.numNodes :
           MacOf[primary.nodes[i].user] # OurMac =>
             ds'.nodes[i].user = primary.nodes[i].user ]_vars

(* The inductive invariant the proofs in NodeDB_proofs rest on.           *)
IInv == TypeOK /\ UniqueNums /\ NodeNumValid /\ PrimaryNeverPartial /\ SaveInv

(* Spec section 3: once init completes, the table holds our own record.  *)
OwnEntryExists == phase # "off" => getNode(ds, ds.myNodeNum) # 0

(* Spec section 4.3: init returns with a well-formed state; the capacity *)
(* assert of getOrCreateNode never fires during boot.                     *)
NoBootAssert == ~bootAsserted

(* Spec section 4.3, step 3: while the candidate is another device's,    *)
(* pickNewNodeNum draws a new one from the non-reserved range; the loop  *)
(* always ends with a number and init completes.                          *)
PickTerminates == ~pickHung

(* Spec section 3: 0 and the broadcast address are never peer keys.       *)
NoReservedPeerKeys == \A i \in 1..ds.numNodes : ds.nodes[i].num \notin {0, Broadcast}

=============================================================================
