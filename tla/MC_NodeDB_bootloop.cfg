CONSTANTS
    MaxNodes = 2
    NumReserved = 2
    Broadcast = 6
    OurMacNum = 1
    uOwner = uOwner
    uPeer = uPeer
    uZero = uZero
    macOurs = macOurs
    macPeer = macPeer
    macZero = macZero
    rEU = rEU
    rUnset = rUnset
    Users <- MC_Users
    NoUser = uZero
    OwnerUser = uOwner
    Macs = {macOurs, macPeer, macZero}
    MacOf <- MC_MacOf
    Regions = {rEU}
    RegionUnset = rUnset
    RegionStrs <- MC_RegionStrs
    LegacyRegionOf <- MC_LegacyRegionOf
    HwVersion = ""
    EmptyStr = ""
    Senders = {2, 3, 4}
    NoFile = NoFile
    CorruptFile = CorruptFile
    PartialFile = PartialFile
    InitialFlash <- MC_InitialFlash
    MaxGeneration = 4
    LongWidths = {32, 64}
SPECIFICATION Spec
INVARIANT NoBootAssert
VIEW View
