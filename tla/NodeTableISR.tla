---------------------------- MODULE NodeTableISR ----------------------------
(***************************************************************************)
(* The peer table as an interrupt sees it.  NodeDB::getNode is documented  *)
(* as callable from an ISR; the main context meanwhile appends with        *)
(* getOrCreateNode, whose three statements (count increment, memset of the *)
(* slot, write of num) are separate steps here, and wipes the table with   *)
(* installDefaultDeviceState.  An ISR preempts the main context and runs   *)
(* to completion, so every lookup it makes sees one state between two     *)
(* main-context statements: the properties quantify over those states and *)
(* over every key the ISR may look up.                                     *)
(*                                                                         *)
(* Only node numbers are kept: getNode reads nothing else.                 *)
(***************************************************************************)
EXTENDS Naturals

CONSTANTS
    MaxNodes,   \* MAX_NUM_NODES
    Keys        \* nonzero node numbers packets may carry

ASSUME ISRAssumption == MaxNodes \in Nat \ {0} /\ Keys \subseteq Nat \ {0}

Slots == 1..MaxNodes

VARIABLES
    nums,       \* nodes[i].num for every slot, occupied or not
    numNodes,   \* *numNodes
    pc,         \* where the main context is inside getOrCreateNode
    pending     \* the n of the getOrCreateNode in progress

vars == <<nums, numNodes, pc, pending>>

(* getNode(n) over the first c slots: the first slot holding n, 0 if none. *)
LookupIn(c, n) ==
    IF \E i \in 1..c : nums[i] = n
    THEN CHOOSE i \in 1..c : nums[i] = n /\ \A j \in 1..(i - 1) : nums[j] # n
    ELSE 0

(* NodeDB::getNode as an ISR runs it: a scan bounded by the current count. *)
IsrGetNode(n) == LookupIn(numNodes, n)

(* The slots whose construction getOrCreateNode has finished.            *)
Committed == IF pc = "idle" THEN numNodes ELSE numNodes - 1

Init ==
    /\ nums = [i \in Slots |-> 0]
    /\ numNodes = 0
    /\ pc = "idle"
    /\ pending = 0

(* Seeded fault: getOrCreateNode appends without looking n up first.     *)
Claim_noLookup(n) ==
    /\ pc = "idle"
    /\ numNodes < MaxNodes
    /\ numNodes' = numNodes + 1
    /\ pc' = "memset"
    /\ pending' = n
    /\ UNCHANGED nums

(* Seeded fault: the table assert accepts numNodes = MAX_NUM_NODES.      *)
Claim_noAssert(n) ==
    /\ pc = "idle"
    /\ IsrGetNode(n) = 0
    /\ numNodes <= MaxNodes
    /\ numNodes' = numNodes + 1
    /\ pc' = "memset"
    /\ pending' = n
    /\ UNCHANGED nums

(* getOrCreateNode, lines 565-570: getNode misses, the assert holds, and  *)
(* info = &nodes[numNodes++] publishes the slot before it is built.       *)
Claim(n) ==
    /\ pc = "idle"
    /\ IsrGetNode(n) = 0
    /\ numNodes < MaxNodes
    /\ numNodes' = numNodes + 1
    /\ pc' = "memset"
    /\ pending' = n
    /\ UNCHANGED nums

(* The assert fails on a full table: the device reboots, RAM is zeroed.  *)
Overflow(n) ==
    /\ pc = "idle"
    /\ IsrGetNode(n) = 0
    /\ numNodes = MaxNodes
    /\ nums' = [i \in Slots |-> 0]
    /\ numNodes' = 0
    /\ UNCHANGED <<pc, pending>>

(* line 573: memset(info, 0, sizeof the record).                          *)
Clear ==
    /\ pc = "memset"
    /\ nums' = [nums EXCEPT ![numNodes] = 0]
    /\ pc' = "setnum"
    /\ UNCHANGED <<numNodes, pending>>

(* line 574: info->num = n; getOrCreateNode returns.                      *)
SetNum ==
    /\ pc = "setnum"
    /\ nums' = [nums EXCEPT ![numNodes] = pending]
    /\ pc' = "idle"
    /\ pending' = 0
    /\ UNCHANGED numNodes

(* Seeded fault: the wipe forgets the table but not its contents.        *)
Wipe_countOnly ==
    /\ pc = "idle"
    /\ numNodes' = 0
    /\ UNCHANGED <<nums, pc, pending>>

(* installDefaultDeviceState, lines 228-230 (a factory reset): the memset *)
(* zeroes the count, which precedes node_db in DeviceState, then the      *)
(* slots; *numNodes = 0 restates it.                                      *)
Wipe ==
    /\ pc = "idle"
    /\ nums' = [i \in Slots |-> 0]
    /\ numNodes' = 0
    /\ UNCHANGED <<pc, pending>>

Next ==
    \/ \E n \in Keys : Claim(n) \/ Overflow(n)
    \/ Clear
    \/ SetNum
    \/ Wipe

Spec == Init /\ [][Next]_vars

(* The abstract table: the finished slots.                                *)
CommittedTable == [i \in 1..Committed |-> nums[i]]

Abs == INSTANCE AtomicNodeTable WITH tbl <- CommittedTable

-----------------------------------------------------------------------------
TypeOK ==
    /\ nums \in [Slots -> Keys \cup {0}]
    /\ numNodes \in 0..MaxNodes
    /\ pc \in {"idle", "memset", "setnum"}
    /\ pending \in Keys \cup {0}

(* Whatever point of getOrCreateNode or of a wipe the ISR interrupts, its *)
(* getNode for any nonzero node number answers as the table of finished   *)
(* slots does: no stale record is found in the slot being built, and no   *)
(* finished record is missed.                                             *)
IsrSeesCommitted == \A n \in Keys : IsrGetNode(n) = Abs!Lookup(n)

(* The append-only table of spec section 9: the finished slots of the     *)
(* statement-level getOrCreateNode and wipes behave as a table of         *)
(* distinct numbers extended one whole record at a time or reset.         *)
ImplementsAtomicTable == Abs!Spec

(* Spec section 5: no slot below the count is ever half-initialised, i.e. *)
(* every slot the ISR can scan holds a real node number.                  *)
NoHalfSlotVisible == \A i \in 1..numNodes : nums[i] # 0

=============================================================================
