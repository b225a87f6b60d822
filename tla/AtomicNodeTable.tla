--------------------------- MODULE AtomicNodeTable ---------------------------
(***************************************************************************)
(* What the peer table promises its readers (spec sections 5 and 9): a    *)
(* fixed-capacity, append-only array of distinct node numbers, extended    *)
(* one whole record at a time and otherwise only reset as a whole.         *)
(***************************************************************************)
EXTENDS Naturals, Sequences

CONSTANTS MaxNodes, Keys

VARIABLE tbl   \* the node numbers of the records, in slot order

(* The node numbers held in the table.                                   *)
Held == {tbl[i] : i \in 1..Len(tbl)}

Init == tbl = <<>>

(* A record for a node number not yet held fills the next free slot.    *)
AddRecord(n) ==
    /\ n \notin Held
    /\ Len(tbl) < MaxNodes
    /\ tbl' = Append(tbl, n)

(* The whole table is forgotten.                                         *)
Reset == tbl' = <<>>

Next == (\E n \in Keys : AddRecord(n)) \/ Reset

Spec == Init /\ [][Next]_tbl

(* The first slot holding n, 0 if none: what a lookup returns.           *)
Lookup(n) ==
    IF n \in Held
    THEN CHOOSE i \in 1..Len(tbl) : tbl[i] = n /\ \A j \in 1..(i - 1) : tbl[j] # n
    ELSE 0

=============================================================================
