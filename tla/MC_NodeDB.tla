------------------------------ MODULE MC_NodeDB ------------------------------
(* A small instance: 3 slots, node numbers 0..6 of which 0 and 1 are       *)
(* reserved and 6 is broadcast, our MAC packing to the reserved 1.        *)
EXTENDS NodeDB

CONSTANTS uOwner, uPeer, uZero, macOurs, macPeer, macZero, rEU, rUnset

MC_Users == {uOwner, uPeer}
MC_MacOf == [u \in {uOwner, uPeer, uZero} |->
               IF u = uOwner THEN macOurs ELSE IF u = uPeer THEN macPeer ELSE macZero]
MC_RegionStrs == {"", "1.0-EU"}
MC_LegacyRegionOf == [s \in MC_RegionStrs |-> IF s = "1.0-EU" THEN rEU ELSE rUnset]
(* The device is first powered with no file, a corrupt one, or one of an *)
(* older firmware that still carries a region.                            *)
MC_InitialFlash ==
    {NoFile, CorruptFile,
     [ZeroDS EXCEPT !.ver = 10, !.region = rEU, !.regionStr = "1.0-EU"]}
=============================================================================
