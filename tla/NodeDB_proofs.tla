---------------------------- MODULE NodeDB_proofs ----------------------------
(***************************************************************************)
(* Proofs about NodeDB for every value of the constants: the type          *)
(* invariant, unique node numbers in RAM and in the files, a valid own    *)
(* node number while running, and no torn /db.proto.  All four follow    *)
(* from the inductive invariant IInv of NodeDB.                            *)
(***************************************************************************)
EXTENDS NodeDB, TLAPS

USE MaxNodesAssumption, ReservedAssumption, MacNumAssumption

(* The three file markers are distinct.                                  *)
LEMMA FileDistinct ==
    /\ NoFile # CorruptFile /\ NoFile # PartialFile /\ CorruptFile # PartialFile
BY FileAssumption

-----------------------------------------------------------------------------
(* Lemmas on the DeviceState record                                        *)

(* A DeviceState is the record of its six fields, each of its type.       *)
LEMMA DSElim ==
    ASSUME NEW d \in DeviceState
    PROVE  /\ d = [ver |-> d.ver, nodes |-> d.nodes, numNodes |-> d.numNodes,
                   myNodeNum |-> d.myNodeNum, region |-> d.region,
                   regionStr |-> d.regionStr]
           /\ d.ver \in 0..CurVer
           /\ d.nodes \in [Slots -> NodeRec]
           /\ d.numNodes \in 0..MaxNodes
           /\ d.myNodeNum \in NodeNums
           /\ d.region \in RegionCodes
           /\ d.regionStr \in RegionStrs
BY DEF DeviceState

(* A record of six well-typed fields is a DeviceState.                    *)
LEMMA DSIntro ==
    ASSUME NEW v \in 0..CurVer, NEW nd \in [Slots -> NodeRec],
           NEW c \in 0..MaxNodes, NEW m \in NodeNums,
           NEW r \in RegionCodes, NEW s \in RegionStrs
    PROVE  [ver |-> v, nodes |-> nd, numNodes |-> c, myNodeNum |-> m,
            region |-> r, regionStr |-> s] \in DeviceState
BY DEF DeviceState

(* The zeroed device state is well typed and has an empty table.          *)
LEMMA ZeroFacts == ZeroDS \in DeviceState /\ UniqueIn(ZeroDS)
<1>1. BlankNode \in NodeRec
  BY UserAssumption DEF BlankNode, NodeRec, UserVals, NodeNums
<1>2. [i \in Slots |-> BlankNode] \in [Slots -> NodeRec]
  BY <1>1
<1>3. 0 \in 0..CurVer /\ 0 \in NodeNums /\ RegionUnset \in RegionCodes
  BY DEF CurVer, NodeNums, RegionCodes
<1>4. ZeroDS \in DeviceState
  <2>1. EmptyStr \in RegionStrs
    BY RegionAssumption
  <2>2. [ver |-> 0, nodes |-> [i \in Slots |-> BlankNode], numNodes |-> 0,
         myNodeNum |-> 0, region |-> RegionUnset, regionStr |-> EmptyStr] \in DeviceState
    BY <1>2, <1>3, <2>1, DSIntro
  <2>. QED
    BY <2>2 DEF ZeroDS
<1>. QED
  BY <1>4 DEF UniqueIn, ZeroDS

-----------------------------------------------------------------------------
(* Lemmas on the peer-table helpers                                        *)

(* In a table with unique numbers, getNode returns 0 exactly when n is    *)
(* missing, and otherwise an occupied slot holding n.                     *)
LEMMA GetNodeFacts ==
    ASSUME NEW d \in DeviceState, UniqueIn(d), NEW n
    PROVE  /\ getNode(d, n) = 0 <=> FoundAt(d, n) = {}
           /\ getNode(d, n) # 0 => /\ getNode(d, n) \in 1..d.numNodes
                                   /\ d.nodes[getNode(d, n)].num = n
<1>1. CASE FoundAt(d, n) = {}
  BY <1>1 DEF getNode
<1>2. CASE FoundAt(d, n) # {}
  <2>1. PICK i \in FoundAt(d, n) : TRUE
    BY <1>2
  <2>2. \A j \in FoundAt(d, n) : j = i
    BY <2>1 DEF FoundAt, UniqueIn
  <2>3. \E k \in FoundAt(d, n) : \A j \in FoundAt(d, n) : k <= j
    BY <2>1, <2>2, MaxNodesAssumption DEF FoundAt, DeviceState
  <2>4. getNode(d, n) \in FoundAt(d, n)
    BY <1>2, <2>3 DEF getNode
  <2>5. FoundAt(d, n) \subseteq 1..d.numNodes
    BY DEF FoundAt
  <2>. QED
    BY <1>2, <2>4, <2>5 DEF FoundAt
<1>. QED
  BY <1>1, <1>2

(* getOrCreateNode keeps a well-typed table with unique numbers, returns  *)
(* a slot holding n, and touches nothing but the table.                   *)
LEMMA GetOrCreateFacts ==
    ASSUME NEW d \in DeviceState, UniqueIn(d), NEW n \in NodeNums,
           ~WouldOverflow(d, n)
    PROVE  LET g == getOrCreateNode(d, n)
           IN  /\ g \in DeviceState
               /\ UniqueIn(g)
               /\ SlotOf(d, n) \in 1..g.numNodes
               /\ g.nodes[SlotOf(d, n)].num = n
               /\ g.myNodeNum = d.myNodeNum
<1> DEFINE g == getOrCreateNode(d, n)
<1>1. CASE getNode(d, n) # 0
  <2>1. g = d
    BY <1>1 DEF getOrCreateNode
  <2>. QED
    BY <1>1, <2>1, GetNodeFacts DEF SlotOf
<1>2. CASE getNode(d, n) = 0
  <2>1. d.numNodes < MaxNodes
    BY <1>2, MaxNodesAssumption DEF WouldOverflow, DeviceState
  <2>2. FoundAt(d, n) = {}
    BY <1>2, GetNodeFacts
  <2>3. g = [d EXCEPT !.numNodes = @ + 1,
                      !.nodes[d.numNodes + 1] = [BlankNode EXCEPT !.num = n]]
    BY <1>2 DEF getOrCreateNode
  <2>4. d.numNodes + 1 \in Slots
    BY <2>1 DEF DeviceState, Slots
  <2>5. [BlankNode EXCEPT !.num = n] \in NodeRec
    BY UserAssumption DEF BlankNode, NodeRec, UserVals
  <2>6. g \in DeviceState
    <3>1. g = [ver |-> d.ver,
               nodes |-> [d.nodes EXCEPT ![d.numNodes + 1] = [BlankNode EXCEPT !.num = n]],
               numNodes |-> d.numNodes + 1, myNodeNum |-> d.myNodeNum,
               region |-> d.region, regionStr |-> d.regionStr]
      BY <2>3 DEF DeviceState
    <3>2. [d.nodes EXCEPT ![d.numNodes + 1] = [BlankNode EXCEPT !.num = n]] \in [Slots -> NodeRec]
      BY <2>4, <2>5 DEF DeviceState
    <3>3. d.numNodes + 1 \in 0..MaxNodes
      BY <2>1 DEF DeviceState
    <3>. QED
      BY <3>1, <3>2, <3>3 DEF DeviceState
  <2>7. /\ g.nodes[d.numNodes + 1].num = n
        /\ \A i \in 1..d.numNodes : g.nodes[i] = d.nodes[i]
    BY <2>3, <2>4 DEF Slots, DeviceState
  <2>8. UniqueIn(g)
    BY <2>2, <2>3, <2>7 DEF UniqueIn, FoundAt, DeviceState
  <2>9. d.numNodes + 1 \in FoundAt(g, n)
    BY <2>3, <2>7 DEF FoundAt, DeviceState
  <2>10. SlotOf(d, n) \in 1..g.numNodes /\ g.nodes[SlotOf(d, n)].num = n
    BY <2>6, <2>8, <2>9, GetNodeFacts DEF SlotOf
  <2>. QED
    BY <2>3, <2>6, <2>8, <2>10
<1>. QED
  BY <1>1, <1>2

(* Overwriting the user of an occupied slot keeps the table well typed   *)
(* and its numbers unique (updateUser, and init for our own record).      *)
LEMMA SetUserFacts ==
    ASSUME NEW d \in DeviceState, UniqueIn(d), NEW i \in 1..d.numNodes,
           NEW u \in UserVals
    PROVE  LET e == SetUser(d, i, u)
           IN  /\ e \in DeviceState
               /\ UniqueIn(e)
               /\ e.myNodeNum = d.myNodeNum
<1> DEFINE e == SetUser(d, i, u)
<1>1. i \in Slots /\ d.nodes \in [Slots -> NodeRec]
  BY DSElim DEF Slots
<1>2. d.nodes[i] \in NodeRec
  BY <1>1
<1>3. [d.nodes[i] EXCEPT !.user = u, !.hasUser = TRUE] \in NodeRec
  BY <1>2 DEF NodeRec
<1> DEFINE nd == [d.nodes EXCEPT ![i] = [d.nodes[i] EXCEPT !.user = u, !.hasUser = TRUE]]
<1>4. nd \in [Slots -> NodeRec]
  BY <1>1, <1>3
<1>5. e = [ver |-> d.ver, nodes |-> nd, numNodes |-> d.numNodes,
           myNodeNum |-> d.myNodeNum, region |-> d.region, regionStr |-> d.regionStr]
  BY DSElim DEF SetUser
<1>6. e \in DeviceState
  BY <1>4, <1>5, DSElim, DSIntro
<1>7. \A k \in 1..d.numNodes : e.nodes[k].num = d.nodes[k].num
  BY <1>1, <1>2, <1>5 DEF NodeRec
<1>. QED
  BY <1>5, <1>6, <1>7 DEF UniqueIn

(* ClampReserved turns any node number into a usable one.                 *)
LEMMA ClampValid ==
    ASSUME NEW x \in NodeNums
    PROVE  ClampReserved(x) \in NumReserved..(Broadcast - 1)
BY DEF ClampReserved, NodeNums

(* pickNewNodeNum ends with a usable node number.                         *)
LEMMA PickValid ==
    ASSUME NEW d \in DeviceState
    PROVE  PickNodeNum(d) \subseteq NumReserved..(Broadcast - 1)
<1>1. StartNum(d) \in NumReserved..(Broadcast - 1)
  <2>1. (IF d.myNodeNum = 0 THEN OurMacNum ELSE d.myNodeNum) \in NodeNums
    BY DEF DeviceState
  <2>. QED
    BY <2>1, ClampValid DEF StartNum
<1>. QED
  BY <1>1 DEF PickNodeNum, RandomDraws

(* installDefaultDeviceState yields an empty, well-typed table and a     *)
(* usable provisional node number.                                        *)
LEMMA InstallDefaultFacts ==
    ASSUME NEW d, d.region \in RegionCodes, d.regionStr \in RegionStrs
    PROVE  LET z == installDefaultDeviceState(d)
           IN  /\ z \in DeviceState
               /\ UniqueIn(z)
               /\ z.myNodeNum \in NumReserved..(Broadcast - 1)
<1> DEFINE z == ZeroDS
           rg == IF d.region # RegionUnset THEN d.region ELSE z.region
           rs == IF d.regionStr # EmptyStr THEN d.regionStr ELSE z.regionStr
<1>1. z \in DeviceState /\ z.numNodes = 0
  BY ZeroFacts DEF ZeroDS
<1>2. StartNum(z) \in NumReserved..(Broadcast - 1)
  BY ClampValid DEF StartNum, ZeroDS, NodeNums
<1>3. installDefaultDeviceState(d) =
        [ver |-> z.ver, nodes |-> z.nodes, numNodes |-> z.numNodes,
         myNodeNum |-> StartNum(z), region |-> rg, regionStr |-> rs]
  <2>1. z = [ver |-> z.ver, nodes |-> z.nodes, numNodes |-> z.numNodes,
             myNodeNum |-> z.myNodeNum, region |-> z.region, regionStr |-> z.regionStr]
    BY <1>1, DSElim
  <2>2. installDefaultDeviceState(d) =
          [z EXCEPT !.myNodeNum = StartNum(z), !.region = rg, !.regionStr = rs]
    BY DEF installDefaultDeviceState
  <2>. QED
    BY <2>1, <2>2
<1>4. rg \in RegionCodes /\ rs \in RegionStrs /\ StartNum(z) \in NodeNums
  BY <1>1, <1>2, DSElim DEF NodeNums
<1>5. installDefaultDeviceState(d) \in DeviceState
  BY <1>1, <1>3, <1>4, DSElim, DSIntro
<1>. QED
  BY <1>1, <1>2, <1>3, <1>5 DEF UniqueIn

(* Every state loadFromDisk can leave is well typed with unique numbers,  *)
(* whatever the file holds, provided it is not a torn file.                *)
LEMMA LoadFacts ==
    ASSUME NEW d \in DeviceState, UniqueIn(d),
           NEW f \in {NoFile, CorruptFile} \cup DeviceState,
           f \in DeviceState => UniqueIn(f)
    PROVE  \A l \in LoadResults(d, f) : l \in DeviceState /\ UniqueIn(l)
<1>1. CASE f = NoFile
  <2>1. LoadResults(d, f) = {d}
    BY <1>1 DEF LoadResults
  <2>. QED
    BY <2>1
<1>2. CASE f = CorruptFile
  <2>1. LoadResults(d, f) = {installDefaultDeviceState(p) : p \in PartialDecodes}
    BY <1>2, FileDistinct DEF LoadResults
  <2>2. ASSUME NEW p \in PartialDecodes
        PROVE  installDefaultDeviceState(p) \in DeviceState
               /\ UniqueIn(installDefaultDeviceState(p))
    <3>1. p.region \in RegionCodes /\ p.regionStr \in RegionStrs
      BY DEF PartialDecodes
    <3>. QED
      BY <3>1, InstallDefaultFacts
  <2>. QED
    BY <2>1, <2>2
<1>3. CASE f \in DeviceState /\ f.ver < MinVer
  <2>1. f # NoFile /\ f # CorruptFile
    BY <1>3, FileAssumption
  <2>2. LoadResults(d, f) = {installDefaultDeviceState(f)}
    BY <1>3, <2>1 DEF LoadResults
  <2>. QED
    BY <1>3, <2>2, InstallDefaultFacts DEF DeviceState
<1>4. CASE f \in DeviceState /\ ~(f.ver < MinVer)
  <2>1. f # NoFile /\ f # CorruptFile
    BY <1>4, FileAssumption
  <2>2. LoadResults(d, f) = {f}
    BY <1>4, <2>1 DEF LoadResults
  <2>. QED
    BY <1>4, <2>2
<1>. QED
  BY <1>1, <1>2, <1>3, <1>4

(* The region migration of init() touches only the region fields.        *)
LEMMA MigrateFacts ==
    ASSUME NEW d \in DeviceState, UniqueIn(d)
    PROVE  /\ MigrateRegion(d) \in DeviceState
           /\ UniqueIn(MigrateRegion(d))
           /\ MigrateRegion(d).myNodeNum = d.myNodeNum
<1> DEFINE s == IF HwVersion # EmptyStr THEN HwVersion ELSE d.regionStr
           rg == IF d.region = RegionUnset THEN LegacyRegionOf[s] ELSE d.region
<1>1. s \in RegionStrs /\ rg \in RegionCodes
  BY DSElim, LegacyAssumption
<1>2. MigrateRegion(d) =
        [ver |-> d.ver, nodes |-> d.nodes, numNodes |-> d.numNodes,
         myNodeNum |-> d.myNodeNum, region |-> rg, regionStr |-> s]
  <2>1. d = [ver |-> d.ver, nodes |-> d.nodes, numNodes |-> d.numNodes,
             myNodeNum |-> d.myNodeNum, region |-> d.region, regionStr |-> d.regionStr]
    BY DSElim
  <2>2. MigrateRegion(d) = [d EXCEPT !.regionStr = s, !.region = rg]
    BY DEF MigrateRegion
  <2>. QED
    BY <2>1, <2>2
<1>3. MigrateRegion(d) \in DeviceState
  BY <1>1, <1>2, DSElim, DSIntro
<1>. QED
  BY <1>2, <1>3 DEF UniqueIn

(* init() adds our own record without breaking the table.                 *)
LEMMA AddOwnFacts ==
    ASSUME NEW d \in DeviceState, UniqueIn(d), ~WouldOverflow(d, d.myNodeNum)
    PROVE  /\ AddOwnRecord(d) \in DeviceState
           /\ UniqueIn(AddOwnRecord(d))
           /\ AddOwnRecord(d).myNodeNum = d.myNodeNum
<1> DEFINE n == d.myNodeNum
           g == getOrCreateNode(d, n)
           i == SlotOf(d, n)
<1>1. n \in NodeNums
  BY DEF DeviceState
<1>2. /\ g \in DeviceState /\ UniqueIn(g)
      /\ i \in 1..g.numNodes /\ g.myNodeNum = n
  BY <1>1, GetOrCreateFacts
<1>3. AddOwnRecord(d) = SetUser(g, i, OwnerUser)
  BY DEF AddOwnRecord
<1>4. OwnerUser \in UserVals
  BY UserAssumption DEF UserVals
<1>. QED
  BY <1>2, <1>3, <1>4, SetUserFacts

-----------------------------------------------------------------------------
(* The inductive invariant                                                 *)

LEMMA InitIInv == Init => IInv
<1> SUFFICES ASSUME Init PROVE IInv
  OBVIOUS
<1>1. ZeroDS \in DeviceState /\ UniqueIn(ZeroDS)
  BY UserAssumption, RegionAssumption
     DEF ZeroDS, DeviceState, BlankNode, NodeRec, UserVals, RegionCodes, NodeNums, CurVer, UniqueIn
<1>2. primary \in {NoFile, CorruptFile} \cup DeviceState /\ (primary \in DeviceState => UniqueIn(primary))
  BY FlashAssumption DEF Init
<1>3. primary # PartialFile
  BY <1>2, FileAssumption
<1>. QED
  BY <1>1, <1>2, <1>3, FileAssumption
  DEF Init, IInv, TypeOK, UniqueNums, NodeNumValid, PrimaryNeverPartial, SaveInv, FileVals, Phases

(* Boot preserves IInv: both the assert outcome and a completed init.    *)
LEMMA BootIInv == IInv /\ Boot => IInv'
<1> SUFFICES ASSUME IInv, Boot PROVE IInv'
  OBVIOUS
<1>1. PICK loaded \in LoadResults(installDefaultDeviceState(ZeroDS), primary) :
        \E r \in PickNodeNum(loaded) :
          LET picked == [loaded EXCEPT !.myNodeNum = r]
          IN  IF WouldOverflow(picked, r)
              THEN /\ bootAsserted' = TRUE
                   /\ UNCHANGED <<phase, ds, radioGen>>
              ELSE /\ ds' = resetRadioConfig(MigrateRegion(AddOwnRecord(picked)), FALSE)
                   /\ radioGen' = GenInstall + LoadGen(primary) + GenReset(FALSE)
                   /\ phase' = "running"
                   /\ UNCHANGED bootAsserted
  BY DEF Boot
<1>2. loaded \in DeviceState /\ UniqueIn(loaded)
  <2>1. installDefaultDeviceState(ZeroDS) \in DeviceState
        /\ UniqueIn(installDefaultDeviceState(ZeroDS))
    BY InstallDefaultFacts, RegionAssumption DEF ZeroDS, RegionCodes
  <2>2. primary \in {NoFile, CorruptFile} \cup DeviceState
    BY FileAssumption DEF IInv, TypeOK, PrimaryNeverPartial, FileVals
  <2>. QED
    BY <1>1, <2>1, <2>2, LoadFacts DEF IInv, UniqueNums
<1>2a. UNCHANGED <<primary, tmp, longWidth, pickHung>>
  BY DEF Boot
<1>3. PICK r \in PickNodeNum(loaded) :
        LET picked == [loaded EXCEPT !.myNodeNum = r]
        IN  IF WouldOverflow(picked, r)
            THEN /\ bootAsserted' = TRUE
                 /\ UNCHANGED <<phase, ds, radioGen>>
            ELSE /\ ds' = resetRadioConfig(MigrateRegion(AddOwnRecord(picked)), FALSE)
                 /\ radioGen' = GenInstall + LoadGen(primary) + GenReset(FALSE)
                 /\ phase' = "running"
                 /\ UNCHANGED bootAsserted
  BY <1>1
<1> DEFINE picked == [loaded EXCEPT !.myNodeNum = r]
<1>4. r \in NumReserved..(Broadcast - 1)
  BY <1>2, PickValid
<1>5. picked \in DeviceState /\ UniqueIn(picked) /\ picked.myNodeNum = r
  BY <1>2, <1>4 DEF DeviceState, UniqueIn, NodeNums
<1>6. CASE WouldOverflow(picked, r)
  <2>1. bootAsserted' = TRUE /\ UNCHANGED <<phase, ds, radioGen>>
    BY <1>3, <1>6
  <2>. QED
    BY <2>1, <1>2a DEF IInv, TypeOK, UniqueNums, NodeNumValid, PrimaryNeverPartial, SaveInv
<1>7. CASE ~WouldOverflow(picked, r)
  <2>1. /\ ds' = resetRadioConfig(MigrateRegion(AddOwnRecord(picked)), FALSE)
        /\ radioGen' = GenInstall + LoadGen(primary) + GenReset(FALSE)
        /\ phase' = "running"
        /\ UNCHANGED bootAsserted
    BY <1>3, <1>7
  <2>2. AddOwnRecord(picked) \in DeviceState /\ UniqueIn(AddOwnRecord(picked))
        /\ AddOwnRecord(picked).myNodeNum = r
    BY <1>5, <1>7, AddOwnFacts
  <2>3. ds' \in DeviceState /\ UniqueIn(ds') /\ ds'.myNodeNum = r
    BY <2>1, <2>2, MigrateFacts DEF resetRadioConfig
  <2>4. radioGen' \in Nat
    BY <2>1 DEF GenInstall, LoadGen, GenReset
  <2>. QED
    BY <1>2a, <1>4, <2>1, <2>3, <2>4
    DEF IInv, TypeOK, UniqueNums, NodeNumValid, PrimaryNeverPartial, SaveInv, Phases
<1>. QED
  BY <1>6, <1>7

(* A boot whose collision loop spins changes only the history.         *)
LEMMA BootHangIInv == IInv /\ BootHang => IInv'
<1> SUFFICES ASSUME IInv, BootHang PROVE IInv'
  OBVIOUS
<1>1. pickHung' = TRUE
      /\ UNCHANGED <<phase, ds, radioGen, primary, tmp, bootAsserted, longWidth>>
  BY DEF BootHang
<1>. QED
  BY <1>1 DEF IInv, TypeOK, UniqueNums, NodeNumValid, PrimaryNeverPartial, SaveInv

(* A merged packet preserves IInv; a new sender on a full table reboots. *)
LEMMA UpdateFromIInv ==
    ASSUME NEW from \in Senders, NEW isUser \in BOOLEAN, NEW user \in Users
    PROVE  IInv /\ updateFrom(from, isUser, user) => IInv'
<1> SUFFICES ASSUME IInv, updateFrom(from, isUser, user) PROVE IInv'
  OBVIOUS
<1>0. /\ ds \in DeviceState /\ UniqueIn(ds)
      /\ UNCHANGED <<primary, tmp, bootAsserted, longWidth, pickHung>>
      /\ phase = "running"
  BY DEF IInv, TypeOK, UniqueNums, updateFrom
<1>1. CASE WouldOverflow(ds, from)
  <2>1. phase' = "off" /\ ds' = ZeroDS /\ radioGen' = 0
    BY <1>1 DEF updateFrom
  <2>2. ZeroDS \in DeviceState /\ UniqueIn(ZeroDS)
    BY UserAssumption, RegionAssumption
       DEF ZeroDS, DeviceState, BlankNode, NodeRec, UserVals, RegionCodes, NodeNums, CurVer, UniqueIn
  <2>. QED
    BY <1>0, <2>1, <2>2
    DEF IInv, TypeOK, UniqueNums, NodeNumValid, PrimaryNeverPartial, SaveInv, Phases
<1>2. CASE ~WouldOverflow(ds, from)
  <2> DEFINE g == getOrCreateNode(ds, from)
             i == SlotOf(ds, from)
  <2>1. from \in NodeNums
    BY SendersAssumption
  <2>2. /\ g \in DeviceState /\ UniqueIn(g)
        /\ i \in 1..g.numNodes /\ g.myNodeNum = ds.myNodeNum
    BY <1>0, <1>2, <2>1, GetOrCreateFacts
  <2>3. /\ ds' = IF isUser
                 THEN SetUser(g, i, user)
                 ELSE g
        /\ UNCHANGED <<phase, radioGen>>
    BY <1>2 DEF updateFrom
  <2>4. ds' \in DeviceState /\ UniqueIn(ds') /\ ds'.myNodeNum = ds.myNodeNum
    BY <2>2, <2>3, SetUserFacts, UserAssumption DEF UserVals
  <2>. QED
    BY <1>0, <2>3, <2>4
    DEF IInv, TypeOK, UniqueNums, NodeNumValid, PrimaryNeverPartial, SaveInv
<1>. QED
  BY <1>1, <1>2

(* A client's new region, with or without factory reset, preserves IInv. *)
LEMMA SetRadioConfigIInv ==
    ASSUME NEW region \in RegionCodes, NEW factory \in BOOLEAN
    PROVE  IInv /\ SetRadioConfig(region, factory) => IInv'
<1> SUFFICES ASSUME IInv, SetRadioConfig(region, factory) PROVE IInv'
  OBVIOUS
<1> DEFINE e == [ds EXCEPT !.region = region]
<1>1. ds \in DeviceState /\ UniqueIn(ds)
  BY DEF IInv, TypeOK, UniqueNums
<1>2. e \in DeviceState /\ UniqueIn(e) /\ e.myNodeNum = ds.myNodeNum
  BY <1>1 DEF DeviceState, UniqueIn
<1>3. ds' = resetRadioConfig(e, factory) /\ radioGen' = radioGen + GenReset(factory)
      /\ UNCHANGED <<phase, primary, tmp, bootAsserted, longWidth, pickHung>>
  BY DEF SetRadioConfig
<1>4. ds' \in DeviceState /\ UniqueIn(ds')
      /\ ds'.myNodeNum \in NumReserved..(Broadcast - 1)
  <2>1. CASE factory
    BY <1>2, <1>3, <2>1, InstallDefaultFacts DEF resetRadioConfig, DeviceState
  <2>2. CASE ~factory
    BY <1>2, <1>3, <2>2 DEF resetRadioConfig, IInv, NodeNumValid, SetRadioConfig
  <2>. QED
    BY <2>1, <2>2
<1>5. radioGen' \in Nat
  BY <1>3 DEF IInv, TypeOK, GenReset
<1>. QED
  BY <1>3, <1>4, <1>5
  DEF IInv, TypeOK, UniqueNums, NodeNumValid, PrimaryNeverPartial, SaveInv

(* The four steps of saveToDisk and a power loss preserve IInv.          *)
LEMMA SaveIInv ==
    IInv /\ (SaveOpen \/ SaveEncode \/ SaveRemove \/ SaveRename \/ PowerLoss) => IInv'
<1> SUFFICES ASSUME IInv, SaveOpen \/ SaveEncode \/ SaveRemove \/ SaveRename \/ PowerLoss
             PROVE IInv'
  OBVIOUS
<1>0. ds \in DeviceState /\ UniqueIn(ds)
  BY DEF IInv, TypeOK, UniqueNums
<1>1. CASE SaveOpen
  BY <1>1, FileAssumption
  DEF SaveOpen, IInv, TypeOK, UniqueNums, NodeNumValid, PrimaryNeverPartial, SaveInv,
      FileVals, Phases
<1>2. CASE SaveEncode
  <2>1. [ds EXCEPT !.ver = CurVer] \in DeviceState /\ UniqueIn([ds EXCEPT !.ver = CurVer])
    BY <1>0 DEF DeviceState, UniqueIn, CurVer
  <2>2. [ds EXCEPT !.ver = CurVer].myNodeNum = ds.myNodeNum
    BY <1>0 DEF DeviceState
  <2>. QED
    BY <1>2, <2>1, <2>2
    DEF SaveEncode, IInv, TypeOK, UniqueNums, NodeNumValid, PrimaryNeverPartial, SaveInv,
        FileVals, Phases
<1>3. CASE SaveRemove
  BY <1>3, FileAssumption
  DEF SaveRemove, IInv, TypeOK, UniqueNums, NodeNumValid, PrimaryNeverPartial, SaveInv,
      FileVals, Phases
<1>4. CASE SaveRename
  <2>1. tmp \in DeviceState /\ UniqueIn(tmp)
    BY <1>4 DEF SaveRename, IInv, SaveInv, UniqueNums
  <2>2. tmp # PartialFile
    BY <2>1, FileAssumption
  <2>. QED
    BY <1>4, <2>1, <2>2, FileAssumption
    DEF SaveRename, IInv, TypeOK, UniqueNums, NodeNumValid, PrimaryNeverPartial, SaveInv,
        FileVals, Phases
<1>5. CASE PowerLoss
  <2>1. ZeroDS \in DeviceState /\ UniqueIn(ZeroDS)
    BY UserAssumption, RegionAssumption
       DEF ZeroDS, DeviceState, BlankNode, NodeRec, UserVals, RegionCodes, NodeNums, CurVer, UniqueIn
  <2>. QED
    BY <1>5, <2>1
    DEF PowerLoss, IInv, TypeOK, UniqueNums, NodeNumValid, PrimaryNeverPartial, SaveInv, Phases
<1>. QED
  BY <1>1, <1>2, <1>3, <1>4, <1>5

LEMMA NextIInv == IInv /\ [Next]_vars => IInv'
<1> SUFFICES ASSUME IInv, [Next]_vars PROVE IInv'
  OBVIOUS
<1>1. CASE Boot
  BY <1>1, BootIInv
<1>1a. CASE BootHang
  BY <1>1a, BootHangIInv
<1>2. CASE \E from \in Senders, isUser \in BOOLEAN, user \in Users :
              updateFrom(from, isUser, user)
  BY <1>2, UpdateFromIInv
<1>3. CASE \E region \in RegionCodes, factory \in BOOLEAN : SetRadioConfig(region, factory)
  BY <1>3, SetRadioConfigIInv
<1>4. CASE SaveOpen \/ SaveEncode \/ SaveRemove \/ SaveRename \/ PowerLoss
  BY <1>4, SaveIInv
<1>5. CASE UNCHANGED vars
  BY <1>5 DEF vars, IInv, TypeOK, UniqueNums, NodeNumValid, PrimaryNeverPartial, SaveInv
<1>. QED
  BY <1>1, <1>1a, <1>2, <1>3, <1>4, <1>5 DEF Next

-----------------------------------------------------------------------------
(* The theorems                                                            *)

THEOREM IInvHolds == Spec => []IInv
BY InitIInv, NextIInv, PTL DEF Spec

(* Every reachable state is well typed.                                    *)
THEOREM TypeCorrect == Spec => []TypeOK
BY IInvHolds, PTL DEF IInv

(* getOrCreateNode, loadFromDisk, factory reset and saveToDisk never put *)
(* two records with one node number into the RAM table or a file.         *)
THEOREM UniqueNumsHold == Spec => []UniqueNums
BY IInvHolds, PTL DEF IInv

(* pickNewNodeNum leaves the running device with a usable node number.   *)
THEOREM NodeNumValidHolds == Spec => []NodeNumValid
BY IInvHolds, PTL DEF IInv

(* saveToDisk never leaves a torn /db.proto, whatever step power fails at. *)
THEOREM PrimaryIntact == Spec => []PrimaryNeverPartial
BY IInvHolds, PTL DEF IInv

=============================================================================
