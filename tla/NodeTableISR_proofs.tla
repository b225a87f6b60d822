------------------------- MODULE NodeTableISR_proofs -------------------------
(***************************************************************************)
(* Proofs for NodeTableISR, for every capacity and key set: the state is  *)
(* well typed, an interrupt's getNode answers as the abstract table, and   *)
(* the statement-level table implements AtomicNodeTable.                  *)
(***************************************************************************)
EXTENDS NodeTableISR, Sequences, TLAPS

(* The inductive invariant.  Slots past the finished ones are zero: every *)
(* wipe zeroes all slots, and the slot being built is zero until its num  *)
(* is written.  The finished slots hold distinct numbers, and the number  *)
(* being added is in none of them: the lookup at the start of             *)
(* getOrCreateNode missed it.                                             *)
IInv ==
    /\ TypeOK
    /\ pc # "idle" => numNodes >= 1 /\ pending \in Keys
    /\ \A i \in Slots : i > Committed => nums[i] = 0
    /\ \A i, j \in 1..Committed : nums[i] = nums[j] => i = j
    /\ pc # "idle" => \A i \in 1..(numNodes - 1) : nums[i] # pending

(* LookupIn returns the only slot among the first c that holds n.        *)
LEMMA LookupInHit ==
    ASSUME NEW c \in Nat, NEW n, NEW i \in 1..c, nums[i] = n,
           \A j \in 1..c : nums[j] = n => j = i
    PROVE  LookupIn(c, n) = i
<1>1. \A j \in 1..(i - 1) : nums[j] # n
  OBVIOUS
<1>2. \E k \in 1..c : nums[k] = n /\ \A j \in 1..(k - 1) : nums[j] # n
  BY <1>1
<1>. QED
  BY <1>2 DEF LookupIn

(* LookupIn returns 0 when none of the first c slots holds n.            *)
LEMMA LookupInMiss ==
    ASSUME NEW c \in Nat, NEW n, \A j \in 1..c : nums[j] # n
    PROVE  LookupIn(c, n) = 0
BY DEF LookupIn

(* The same two facts for the abstract lookup on the finished slots.     *)
LEMMA AbsLookupHit ==
    ASSUME NEW c \in Nat, c = Committed, NEW n, NEW i \in 1..c, nums[i] = n,
           \A j \in 1..c : nums[j] = n => j = i
    PROVE  Abs!Lookup(n) = i
<1>1. Len(CommittedTable) = c /\ \A j \in 1..c : CommittedTable[j] = nums[j]
  BY DEF CommittedTable
<1>2. n \in Abs!Held
  BY <1>1 DEF Abs!Held
<1>3. \E k \in 1..c : CommittedTable[k] = n /\ \A j \in 1..(k - 1) : CommittedTable[j] # n
  BY <1>1
<1>. QED
  BY <1>1, <1>2, <1>3 DEF Abs!Lookup

LEMMA AbsLookupMiss ==
    ASSUME NEW c \in Nat, c = Committed, NEW n, \A j \in 1..c : nums[j] # n
    PROVE  Abs!Lookup(n) = 0
<1>1. Len(CommittedTable) = c /\ \A j \in 1..c : CommittedTable[j] = nums[j]
  BY DEF CommittedTable
<1>. QED
  BY <1>1 DEF Abs!Lookup, Abs!Held

-----------------------------------------------------------------------------
(* The count and the finished prefix are numbers within the capacity.    *)
LEMMA CommittedRange ==
    ASSUME IInv
    PROVE  /\ Committed \in 0..MaxNodes
           /\ pc # "idle" => Committed = numNodes - 1
           /\ pc = "idle" => Committed = numNodes
BY ISRAssumption DEF IInv, TypeOK, Committed

LEMMA InitIInv == Init => IInv
BY ISRAssumption DEF Init, IInv, TypeOK, Committed, Slots

(* On an idle table, a missed lookup means no slot below the count holds *)
(* the number.                                                            *)
LEMMA IdleMiss ==
    ASSUME IInv, pc = "idle", NEW n \in Keys, IsrGetNode(n) = 0
    PROVE  \A i \in 1..numNodes : nums[i] # n
<1>1. Committed = numNodes /\ numNodes \in Nat
  BY CommittedRange, ISRAssumption DEF IInv, TypeOK
<1>2. SUFFICES ASSUME NEW i \in 1..numNodes, nums[i] = n PROVE FALSE
  OBVIOUS
<1>3. \A j \in 1..numNodes : nums[j] = n => j = i
  BY <1>1, <1>2 DEF IInv
<1>4. LookupIn(numNodes, n) = i
  BY <1>1, <1>2, <1>3, LookupInHit
<1>. QED
  BY <1>2, <1>4 DEF IsrGetNode

LEMMA ClaimIInv ==
    ASSUME IInv, NEW n \in Keys, Claim(n) PROVE IInv'
<1>1. \A i \in 1..numNodes : nums[i] # n
  BY IdleMiss DEF Claim
<1>2. Committed' = Committed
  BY CommittedRange DEF Claim, Committed
<1>. QED
  BY <1>1, <1>2, ISRAssumption DEF IInv, TypeOK, Claim

LEMMA OverflowIInv ==
    ASSUME IInv, NEW n \in Keys, Overflow(n) PROVE IInv'
BY ISRAssumption DEF IInv, TypeOK, Overflow, Committed, Slots

LEMMA ClearIInv ==
    ASSUME IInv, Clear PROVE IInv'
<1>1. Committed' = Committed /\ Committed = numNodes - 1 /\ numNodes \in 1..MaxNodes
  BY CommittedRange DEF Clear, Committed, IInv, TypeOK
<1>. QED
  BY <1>1, ISRAssumption DEF IInv, TypeOK, Clear, Slots

LEMMA SetNumIInv ==
    ASSUME IInv, SetNum PROVE IInv'
<1>1. Committed' = numNodes /\ Committed = numNodes - 1 /\ numNodes \in 1..MaxNodes
  BY CommittedRange DEF SetNum, Committed, IInv, TypeOK
<1>. QED
  BY <1>1, ISRAssumption DEF IInv, TypeOK, SetNum, Slots

LEMMA WipeIInv ==
    ASSUME IInv, Wipe PROVE IInv'
BY ISRAssumption DEF IInv, TypeOK, Wipe, Committed, Slots

LEMMA NextIInv == IInv /\ [Next]_vars => IInv'
<1> SUFFICES ASSUME IInv, [Next]_vars PROVE IInv'
  OBVIOUS
<1>1. CASE \E n \in Keys : Claim(n)
  BY <1>1, ClaimIInv
<1>2. CASE \E n \in Keys : Overflow(n)
  BY <1>2, OverflowIInv
<1>3. CASE Clear
  BY <1>3, ClearIInv
<1>4. CASE SetNum
  BY <1>4, SetNumIInv
<1>5. CASE Wipe
  BY <1>5, WipeIInv
<1>6. CASE UNCHANGED vars
  BY <1>6 DEF vars, IInv, TypeOK, Committed
<1>. QED
  BY <1>1, <1>2, <1>3, <1>4, <1>5, <1>6 DEF Next

-----------------------------------------------------------------------------
(* Every reachable state is well typed: the assert in getOrCreateNode     *)
(* keeps the count within MAX_NUM_NODES for every capacity.              *)
THEOREM ISRTypeCorrect == Spec => []TypeOK
<1>1. IInv => TypeOK
  BY DEF IInv
<1>. QED
  BY <1>1, InitIInv, NextIInv, PTL DEF Spec

(* The inductive invariant gives the ISR's answer: a slot past the        *)
(* finished ones is zero, so scanning it finds no nonzero number, and the *)
(* finished slots are distinct, so the first match is the only one.       *)
LEMMA IInvIsr == IInv => IsrSeesCommitted
<1> SUFFICES ASSUME IInv, NEW n \in Keys PROVE IsrGetNode(n) = Abs!Lookup(n)
  BY DEF IsrSeesCommitted
<1>1. Committed \in 0..MaxNodes /\ Committed <= numNodes /\ numNodes \in 0..MaxNodes /\ n # 0
  BY CommittedRange, ISRAssumption DEF IInv, TypeOK
<1>2. \A j \in 1..numNodes : j > Committed => nums[j] # n
  <2>1. \A j \in 1..numNodes : j \in Slots
    BY <1>1, ISRAssumption DEF Slots
  <2>2. \A j \in Slots : j > Committed => nums[j] = 0
    BY DEF IInv
  <2>. QED
    BY <1>1, <2>1, <2>2
<1>3. CASE \E i \in 1..Committed : nums[i] = n
  <2>1. PICK i \in 1..Committed : nums[i] = n
    BY <1>3
  <2>2. \A j \in 1..Committed : nums[j] = n => j = i
    BY <2>1 DEF IInv
  <2>3. \A j \in 1..numNodes : nums[j] = n => j = i
    BY <1>1, <1>2, <2>2
  <2>4. LookupIn(numNodes, n) = i
    BY <1>1, <2>1, <2>3, LookupInHit
  <2>5. Abs!Lookup(n) = i
    BY <1>1, <2>1, <2>2, AbsLookupHit
  <2>. QED
    BY <2>4, <2>5 DEF IsrGetNode
<1>4. CASE ~\E i \in 1..Committed : nums[i] = n
  <2>1. \A j \in 1..numNodes : nums[j] # n
    BY <1>1, <1>2, <1>4
  <2>2. LookupIn(numNodes, n) = 0
    BY <1>1, <2>1, LookupInMiss
  <2>3. Abs!Lookup(n) = 0
    BY <1>1, <1>4, AbsLookupMiss
  <2>. QED
    BY <2>2, <2>3 DEF IsrGetNode
<1>. QED
  BY <1>3, <1>4

(* Whatever statement of getOrCreateNode or of a wipe an interrupt        *)
(* preempts, its getNode answers as the abstract table: IsrSeesCommitted  *)
(* for every capacity and key set.                                        *)
THEOREM IsrLookupCorrect == Spec => []IsrSeesCommitted
BY IInvIsr, InitIInv, NextIInv, PTL DEF Spec

(* A step of the statement-level table is a step of the abstract one, or  *)
(* leaves the finished slots as they are.                                 *)
LEMMA StepRefines ==
    IInv /\ [Next]_vars => [Abs!Next]_CommittedTable
<1> SUFFICES ASSUME IInv, [Next]_vars PROVE [Abs!Next]_CommittedTable
  OBVIOUS
<1>0. Committed \in 0..MaxNodes
  BY CommittedRange
<1>1. CASE \E n \in Keys : Claim(n)
  <2>1. Committed' = Committed
    BY <1>1, CommittedRange DEF Claim, Committed
  <2>. QED
    BY <1>1, <2>1 DEF Claim, CommittedTable
<1>2. CASE (\E n \in Keys : Overflow(n)) \/ Wipe
  <2>1. Committed' = 0
    BY <1>2 DEF Overflow, Wipe, Committed
  <2>. QED
    BY <2>1 DEF CommittedTable, Abs!Next, Abs!Reset
<1>3. CASE Clear
  <2>1. Committed' = Committed /\ Committed = numNodes - 1 /\ numNodes \in 1..MaxNodes
    BY <1>3, CommittedRange DEF Clear, Committed, IInv, TypeOK
  <2>. QED
    BY <1>3, <2>1 DEF Clear, CommittedTable
<1>4. CASE SetNum
  <2>1. Committed' = numNodes /\ Committed = numNodes - 1 /\ numNodes \in 1..MaxNodes
    BY <1>4, CommittedRange DEF SetNum, Committed, IInv, TypeOK
  <2>2. pending \in Keys /\ \A i \in 1..Committed : nums[i] # pending
    BY <1>4, <2>1 DEF SetNum, IInv
  <2>3. Len(CommittedTable) = Committed /\ \A i \in 1..Committed : CommittedTable[i] = nums[i]
    BY <2>1 DEF CommittedTable
  <2>4. pending \notin Abs!Held /\ Len(CommittedTable) < MaxNodes
    BY <2>1, <2>2, <2>3, ISRAssumption DEF Abs!Held
  <2>5. nums' = [nums EXCEPT ![numNodes] = pending] /\ nums \in [Slots -> Keys \cup {0}]
    BY <1>4 DEF SetNum, IInv, TypeOK
  <2>6. CommittedTable' = [i \in 1..numNodes |-> nums'[i]]
    BY <2>1 DEF CommittedTable
  <2>7. CommittedTable' = Append(CommittedTable, pending)
    <3>1. CommittedTable = [i \in 1..(numNodes - 1) |-> nums[i]]
      BY <2>1 DEF CommittedTable
    <3>2. Append(CommittedTable, pending)
            = [i \in 1..numNodes |-> IF i < numNodes THEN nums[i] ELSE pending]
      BY <2>1, <3>1
    <3>3. \A i \in 1..numNodes : nums'[i] = IF i < numNodes THEN nums[i] ELSE pending
      BY <2>1, <2>5, ISRAssumption DEF Slots
    <3>. QED
      BY <2>6, <3>2, <3>3
  <2>. QED
    BY <2>2, <2>4, <2>7 DEF Abs!Next, Abs!AddRecord
<1>5. CASE UNCHANGED vars
  BY <1>5 DEF vars, CommittedTable, Committed
<1>. QED
  BY <1>1, <1>2, <1>3, <1>4, <1>5 DEF Next

(* The statement-level getOrCreateNode and wipes implement the atomic,    *)
(* append-only table of spec section 9 under the mapping that keeps the   *)
(* finished slots: ImplementsAtomicTable for every capacity and key set.  *)
THEOREM Refinement == Spec => ImplementsAtomicTable
<1>1. Init => Abs!Init
  BY DEF Init, Abs!Init, CommittedTable, Committed
<1>2. IInv /\ [Next]_vars => [Abs!Next]_CommittedTable
  BY StepRefines
<1>. QED
  BY <1>1, <1>2, InitIInv, NextIInv, PTL DEF Spec, ImplementsAtomicTable, Abs!Spec

=============================================================================
