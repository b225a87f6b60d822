------------------------- MODULE NodeCatalog_proofs -------------------------
(***************************************************************************)
(* Proofs for NodeCatalog, for every capacity, sender set, user set and   *)
(* clock: the state stays well typed, a user update raises its event      *)
(* exactly when the user changes, the has_user and has_position flags     *)
(* never turn off, and, while every time lies below the sign bit (before  *)
(* 2038 for 32 bits), the online count is the spec's.                     *)
(***************************************************************************)
EXTENDS NodeCatalog, TLAPS

(* No two records hold the same node number: getOrCreateNode appends     *)
(* only after its lookup missed.                                          *)
Distinct(t) == \A i, j \in 1..Len(t) : t[i].num = t[j].num => i = j

(* The inductive invariant: TypeOK alone does not say which slot          *)
(* getOrCreateNode finds, and every property below is about that slot.   *)
IInv == TypeOK /\ Distinct(nodes)

-----------------------------------------------------------------------------
(* SlotOf finds the only record holding n.                                *)
LEMMA SlotOfHit ==
    ASSUME NEW t \in Seq(Record), Distinct(t), NEW n,
           NEW i \in 1..Len(t), t[i].num = n
    PROVE  SlotOf(t, n) = i
BY DEF SlotOf, Distinct

(* SlotOf is one past the end when no record holds n.                    *)
LEMMA SlotOfMiss ==
    ASSUME NEW t \in Seq(Record), NEW n, ~Known(t, n)
    PROVE  SlotOf(t, n) = Len(t) + 1
BY DEF SlotOf, Known

LEMMA ZeroRecordType ==
    ASSUME NEW n \in Senders
    PROVE  ZeroRecord(n) \in Record
BY CatalogAssumption DEF ZeroRecord, Record

(* A record is the record of its fields.                                 *)
LEMMA RecordElim ==
    ASSUME NEW x \in Record
    PROVE  x = [num |-> x.num, user |-> x.user, hasUser |-> x.hasUser,
                hasPos |-> x.hasPos, posTime |-> x.posTime]
BY DEF Record

Fields == {"num", "user", "hasUser", "hasPos", "posTime"}

(* The two field updates of the code, as explicit records.               *)
LEMMA SetPosFields ==
    ASSUME NEW x \in Record, NEW b, NEW p
    PROVE  /\ [x EXCEPT !.hasPos = b, !.posTime = p]
                = [num |-> x.num, user |-> x.user, hasUser |-> x.hasUser,
                   hasPos |-> b, posTime |-> p]
           /\ [x EXCEPT !.posTime = p, !.hasPos = b]
                = [num |-> x.num, user |-> x.user, hasUser |-> x.hasUser,
                   hasPos |-> b, posTime |-> p]
<1> DEFINE y == [x EXCEPT !.hasPos = b, !.posTime = p]
           r == [num |-> x.num, user |-> x.user, hasUser |-> x.hasUser,
                     hasPos |-> b, posTime |-> p]
<1>1. DOMAIN x = Fields
  BY DEF Record, Fields
<1>2. /\ DOMAIN y = Fields /\ y = [f \in DOMAIN y |-> y[f]]
      /\ y.num = x.num /\ y.user = x.user /\ y.hasUser = x.hasUser
      /\ y.hasPos = b /\ y.posTime = p
  BY <1>1, Zenon DEF Fields
<1>3. /\ DOMAIN r = Fields /\ r = [f \in Fields |-> r[f]]
      /\ \A f \in Fields : y[f] = r[f]
  BY <1>2 DEF Fields
<1>4. y = r
  BY <1>2, <1>3, Zenon
<1> DEFINE z == [x EXCEPT !.posTime = p, !.hasPos = b]
<1>5. /\ DOMAIN z = Fields /\ z = [f \in DOMAIN z |-> z[f]]
      /\ z.num = x.num /\ z.user = x.user /\ z.hasUser = x.hasUser
      /\ z.hasPos = b /\ z.posTime = p
  BY <1>1, Zenon DEF Fields
<1>6. \A f \in Fields : z[f] = r[f]
  BY <1>3, <1>5 DEF Fields
<1>. QED
  BY <1>3, <1>4, <1>5, <1>6, Zenon

LEMMA SetUserFields ==
    ASSUME NEW x \in Record, NEW u
    PROVE  [x EXCEPT !.user = u, !.hasUser = TRUE]
             = [num |-> x.num, user |-> u, hasUser |-> TRUE,
                hasPos |-> x.hasPos, posTime |-> x.posTime]
<1> DEFINE y == [x EXCEPT !.user = u, !.hasUser = TRUE]
           r == [num |-> x.num, user |-> u, hasUser |-> TRUE,
                     hasPos |-> x.hasPos, posTime |-> x.posTime]
<1>1. DOMAIN x = Fields
  BY DEF Record, Fields
<1>2. /\ DOMAIN y = Fields /\ y = [f \in DOMAIN y |-> y[f]]
      /\ y.num = x.num /\ y.user = u /\ y.hasUser = TRUE
      /\ y.hasPos = x.hasPos /\ y.posTime = x.posTime
  BY <1>1, Zenon DEF Fields
<1>3. /\ DOMAIN r = Fields /\ r = [f \in Fields |-> r[f]]
      /\ \A f \in Fields : y[f] = r[f]
  BY <1>2 DEF Fields
<1>. QED
  BY <1>2, <1>3, Zenon

(* getOrCreateNode keeps the table typed and distinct, keeps every old    *)
(* record where it was, and puts n at SlotOf(t, n): the old record if n   *)
(* was known, a zero record at the end otherwise.                         *)
LEMMA Upsert ==
    ASSUME NEW t \in Seq(Record), Distinct(t), NEW n \in Senders
    PROVE  LET t0 == getOrCreateNode(t, n)
               j  == SlotOf(t, n)
           IN  /\ t0 \in Seq(Record)
               /\ Distinct(t0)
               /\ Len(t0) = IF Known(t, n) THEN Len(t) ELSE Len(t) + 1
               /\ j \in 1..Len(t0)
               /\ SlotOf(t0, n) = j
               /\ t0[j].num = n
               /\ \A k \in 1..Len(t) : t0[k] = t[k]
               /\ Known(t, n) => t0[j] = t[j]
               /\ ~Known(t, n) => t0[j] = ZeroRecord(n)
               /\ t0[j].user = UserOf(t, n)
<1> DEFINE t0 == getOrCreateNode(t, n)
           j  == SlotOf(t, n)
<1>1. CASE Known(t, n)
  <2>1. PICK i \in 1..Len(t) : t[i].num = n
    BY <1>1 DEF Known
  <2>2. j = i
    BY <2>1, SlotOfHit
  <2>3. t0 = t
    BY <2>2 DEF getOrCreateNode
  <2>. QED
    BY <1>1, <2>1, <2>2, <2>3 DEF UserOf, RecordOf
<1>2. CASE ~Known(t, n)
  <2>1. j = Len(t) + 1
    BY <1>2, SlotOfMiss
  <2>2. t0 = Append(t, ZeroRecord(n))
    BY <2>1 DEF getOrCreateNode
  <2>3. ZeroRecord(n) \in Record /\ ZeroRecord(n).num = n /\ ZeroRecord(n).user = NoUser
    BY ZeroRecordType DEF ZeroRecord
  <2>4. t0 \in Seq(Record) /\ Len(t0) = Len(t) + 1 /\ t0[j] = ZeroRecord(n)
        /\ \A k \in 1..Len(t) : t0[k] = t[k]
    BY <2>1, <2>2, <2>3
  <2>5. Distinct(t0)
    BY <1>2, <2>1, <2>3, <2>4 DEF Distinct, Known
  <2>6. SlotOf(t0, n) = j
    BY <2>1, <2>3, <2>4, <2>5, SlotOfHit
  <2>. QED
    BY <1>2, <2>1, <2>3, <2>4, <2>5, <2>6 DEF UserOf
<1>. QED
  BY <1>1, <1>2

(* A record with some fields rewritten, its number kept, leaves the table *)
(* typed and distinct, and n where it was.                                *)
LEMMA Rewrite ==
    ASSUME NEW t \in Seq(Record), Distinct(t), NEW j \in 1..Len(t),
           NEW r \in Record, r.num = t[j].num,
           NEW t1, t1 = [t EXCEPT ![j] = r]
    PROVE  /\ t1 \in Seq(Record)
           /\ Distinct(t1)
           /\ Len(t1) = Len(t)
           /\ t1[j] = r
           /\ \A k \in 1..Len(t) : k # j => t1[k] = t[k]
           /\ \A n : SlotOf(t1, n) = SlotOf(t, n)
           /\ \A n : Known(t1, n) <=> Known(t, n)
           /\ \A n : Known(t, n) /\ SlotOf(t, n) # j => RecordOf(t1, n) = RecordOf(t, n)
           /\ RecordOf(t1, r.num) = r
<1>1. t1 \in Seq(Record) /\ Len(t1) = Len(t) /\ t1[j] = r
      /\ \A k \in 1..Len(t) : k # j => t1[k] = t[k]
  OBVIOUS
<1>2. \A k \in 1..Len(t) : t1[k].num = t[k].num
  BY <1>1
<1>3. Distinct(t1)
  BY <1>1, <1>2 DEF Distinct
<1>4. \A n : SlotOf(t1, n) = SlotOf(t, n)
  BY <1>1, <1>2 DEF SlotOf
<1>5. \A n : Known(t1, n) <=> Known(t, n)
  BY <1>1, <1>2 DEF Known
<1>6. ASSUME NEW n, Known(t, n), SlotOf(t, n) # j
      PROVE  RecordOf(t1, n) = RecordOf(t, n)
  <2>1. SlotOf(t, n) \in 1..Len(t)
    BY <1>6 DEF SlotOf, Known
  <2>. QED
    BY <1>1, <1>4, <1>6, <2>1 DEF RecordOf
<1>7. RecordOf(t1, r.num) = r
  <2>1. SlotOf(t, r.num) = j
    BY SlotOfHit
  <2>. QED
    BY <1>1, <1>4, <2>1 DEF RecordOf
<1>. QED
  BY <1>1, <1>3, <1>4, <1>5, <1>6, <1>7

(* Received: the upsert, then at most the position flag and time of n's   *)
(* record change; has_position only turns on.                             *)
LEMMA Receive ==
    ASSUME NEW t \in Seq(Record), Distinct(t), NEW n \in Senders,
           NEW rx \in Times \cup {0}
    PROVE  LET t0 == getOrCreateNode(t, n)
               t1 == Received(t, n, rx)
               j  == SlotOf(t, n)
           IN  /\ t1 \in Seq(Record)
               /\ Distinct(t1)
               /\ Len(t1) = Len(t0)
               /\ j \in 1..Len(t1)
               /\ SlotOf(t1, n) = j
               /\ \A k \in 1..Len(t1) : k # j => t1[k] = t0[k]
               /\ t1[j].num = n
               /\ t1[j].user = t0[j].user
               /\ t1[j].hasUser = t0[j].hasUser
               /\ t0[j].hasPos => t1[j].hasPos
<1> DEFINE t0 == getOrCreateNode(t, n)
           t1 == Received(t, n, rx)
           j  == SlotOf(t, n)
<1>1. /\ t0 \in Seq(Record) /\ Distinct(t0) /\ j \in 1..Len(t0)
      /\ SlotOf(t0, n) = j /\ t0[j].num = n
  BY Upsert
<1>2. CASE rx = 0
  <2>1. t1 = t0
    BY <1>2 DEF Received
  <2>. QED
    BY <1>1, <2>1
<1>3. CASE rx # 0
  <2>1. t0[j] \in Record
    BY <1>1
  <2> DEFINE r == [num |-> t0[j].num, user |-> t0[j].user, hasUser |-> t0[j].hasUser,
                   hasPos |-> TRUE, posTime |-> rx]
  <2>2. t1 = [t0 EXCEPT ![j] = r]
    <3>1. t1 = [t0 EXCEPT ![j] = [t0[j] EXCEPT !.hasPos = TRUE, !.posTime = rx]]
      BY <1>1, <1>3 DEF Received
    <3>. QED
      BY <2>1, <3>1, SetPosFields
  <2>3. /\ r \in Record /\ r.num = t0[j].num /\ r.user = t0[j].user
        /\ r.hasUser = t0[j].hasUser /\ r.hasPos = TRUE
    BY <2>1, <1>3 DEF Record
  <2> HIDE DEF r
  <2>4. [t0 EXCEPT ![j] = r] \in Seq(Record)
    BY <1>1, <2>3, Rewrite
  <2>5. Len([t0 EXCEPT ![j] = r]) = Len(t0)
        /\ \A k \in 1..Len(t0) : [t0 EXCEPT ![j] = r][k].num = t0[k].num
    <3>1. DOMAIN [t0 EXCEPT ![j] = r] = DOMAIN t0
      OBVIOUS
    <3>2. \A k \in 1..Len(t0) : [t0 EXCEPT ![j] = r][k].num = t0[k].num
      BY <1>1, <2>3
    <3>. QED
      BY <1>1, <3>1, <3>2
  <2>6. Distinct([t0 EXCEPT ![j] = r])
    BY <1>1, <2>5 DEF Distinct
  <2>7. SlotOf([t0 EXCEPT ![j] = r], n) = SlotOf(t0, n)
    BY <1>1, <2>3, Rewrite
  <2>. QED
    BY <1>1, <2>2, <2>3, <2>4, <2>5, <2>6, <2>7
<1>. QED
  BY <1>2, <1>3

-----------------------------------------------------------------------------
LEMMA InitIInv == Init => IInv
BY CatalogAssumption DEF Init, IInv, TypeOK, NoEvent, Distinct

(* What the common part of every packet handler does to a table in IInv,  *)
(* when the capacity assert holds: the table stays typed, distinct and    *)
(* within capacity, the sender sits at the slot getOrCreateNode chose,    *)
(* its user is the one stored before, and every other known node keeps    *)
(* its slot, its record and so its flags.                                 *)
LEMMA RecvFacts ==
    ASSUME IInv, NEW from \in Senders, NEW rx \in RxTimes, Fits(from)
    PROVE  LET t1 == Received(nodes, from, rx)
               j  == SlotOf(nodes, from)
           IN  /\ t1 \in Seq(Record)
               /\ Distinct(t1)
               /\ Len(t1) <= MaxNodes
               /\ j \in 1..Len(t1)
               /\ SlotOf(t1, from) = j
               /\ t1[j].num = from
               /\ t1[j].user = UserOf(nodes, from)
               /\ Known(nodes, from) =>
                     /\ RecordOf(nodes, from).hasUser => t1[j].hasUser
                     /\ RecordOf(nodes, from).hasPos => t1[j].hasPos
               /\ \A n \in Senders \ {from} :
                     /\ Known(t1, n) <=> Known(nodes, n)
                     /\ Known(nodes, n) => RecordOf(t1, n) = RecordOf(nodes, n)
<1> DEFINE t0 == getOrCreateNode(nodes, from)
           t1 == Received(nodes, from, rx)
           j  == SlotOf(nodes, from)
<1>1. nodes \in Seq(Record) /\ Distinct(nodes) /\ Len(nodes) <= MaxNodes
      /\ rx \in Times \cup {0}
  BY DEF IInv, TypeOK, RxTimes
<1>2. /\ t0 \in Seq(Record) /\ Distinct(t0)
      /\ Len(t0) = IF Known(nodes, from) THEN Len(nodes) ELSE Len(nodes) + 1
      /\ j \in 1..Len(t0) /\ t0[j].num = from
      /\ \A k \in 1..Len(nodes) : t0[k] = nodes[k]
      /\ Known(nodes, from) => t0[j] = nodes[j]
      /\ t0[j].user = UserOf(nodes, from)
  BY <1>1, Upsert
<1>3. /\ t1 \in Seq(Record) /\ Distinct(t1) /\ Len(t1) = Len(t0)
      /\ SlotOf(t1, from) = j
      /\ \A k \in 1..Len(t1) : k # j => t1[k] = t0[k]
      /\ t1[j].num = from /\ t1[j].user = t0[j].user
      /\ t1[j].hasUser = t0[j].hasUser /\ (t0[j].hasPos => t1[j].hasPos)
  BY <1>1, Receive
<1>4. Len(t1) <= MaxNodes
  <2>1. CASE Known(nodes, from)
    BY <1>1, <1>2, <1>3, <2>1
  <2>2. CASE ~Known(nodes, from)
    BY <1>1, <1>2, <1>3, <2>2, SlotOfMiss DEF Fits
  <2>. QED
    BY <2>1, <2>2
<1>5. Known(nodes, from) => RecordOf(nodes, from) = nodes[j]
  BY DEF RecordOf
<1>6. ASSUME NEW n \in Senders \ {from}
      PROVE  /\ Known(t1, n) <=> Known(nodes, n)
             /\ Known(nodes, n) => RecordOf(t1, n) = RecordOf(nodes, n)
  <2>1. \A k \in 1..Len(t1) : t1[k].num = n => k \in 1..Len(nodes) /\ t1[k] = nodes[k]
    <3>1. CASE Known(nodes, from)
      BY <1>2, <1>3, <3>1
    <3>2. CASE ~Known(nodes, from)
      BY <1>1, <1>2, <1>3, <3>2, SlotOfMiss
    <3>. QED
      BY <3>1, <3>2
  <2>2. \A k \in 1..Len(nodes) : (k \in 1..Len(t1) /\ t1[k] = nodes[k]) \/ nodes[k].num # n
    BY <1>1, <1>2, <1>3
  <2>3. Known(t1, n) <=> Known(nodes, n)
    BY <2>1, <2>2 DEF Known
  <2>4. ASSUME Known(nodes, n) PROVE RecordOf(t1, n) = RecordOf(nodes, n)
    <3>1. PICK k \in 1..Len(nodes) : nodes[k].num = n
      BY <2>4 DEF Known
    <3>2. k \in 1..Len(t1) /\ t1[k] = nodes[k]
      BY <2>2, <3>1
    <3>3. SlotOf(nodes, n) = k /\ SlotOf(t1, n) = k
      BY <1>1, <1>3, <3>1, <3>2, SlotOfHit
    <3>. QED
      BY <3>2, <3>3 DEF RecordOf
  <2>. QED
    BY <2>3, <2>4
<1>. QED
  BY <1>2, <1>3, <1>4, <1>5, <1>6

(* What a packet from `from` may do to the records: every other node      *)
(* keeps its record, and the sender's flags only turn on.                 *)
Others(from) ==
    \A n \in Senders \ {from} :
        /\ Known(nodes', n) <=> Known(nodes, n)
        /\ Known(nodes, n) => RecordOf(nodes', n) = RecordOf(nodes, n)

FromFlags(from) ==
    Known(nodes, from) =>
        /\ RecordOf(nodes, from).hasUser => RecordOf(nodes', from).hasUser
        /\ RecordOf(nodes, from).hasPos => RecordOf(nodes', from).hasPos

(* updateFrom with an application payload or any other payload.          *)
LEMMA DataStep ==
    ASSUME IInv, NEW from \in Senders, NEW rx \in RxTimes,
           RecvData(from, rx) \/ RecvOther(from, rx)
    PROVE  /\ IInv'
           /\ Known(nodes', from)
           /\ RecordOf(nodes', from).user = UserOf(nodes, from)
           /\ FromFlags(from)
           /\ Others(from)
           /\ event'.from = from /\ ~event'.fsm
<1> DEFINE t1 == Received(nodes, from, rx)
           j  == SlotOf(nodes, from)
<1>1. /\ nodes' = t1 /\ Fits(from)
      /\ \E x \in {"none", "counts"} : event' = [from |-> from, rx |-> rx, notify |-> x, fsm |-> FALSE]
      /\ UNCHANGED <<now, readPointer, guiNode>>
  BY DEF RecvData, RecvOther
<1>2. /\ t1 \in Seq(Record) /\ Distinct(t1) /\ Len(t1) <= MaxNodes
      /\ j \in 1..Len(t1) /\ SlotOf(t1, from) = j /\ t1[j].num = from
      /\ t1[j].user = UserOf(nodes, from)
      /\ Known(nodes, from) =>
            /\ RecordOf(nodes, from).hasUser => t1[j].hasUser
            /\ RecordOf(nodes, from).hasPos => t1[j].hasPos
      /\ \A n \in Senders \ {from} :
            /\ Known(t1, n) <=> Known(nodes, n)
            /\ Known(nodes, n) => RecordOf(t1, n) = RecordOf(nodes, n)
  BY <1>1, RecvFacts
<1>3. Known(t1, from) /\ RecordOf(t1, from) = t1[j]
  BY <1>2 DEF Known, RecordOf
<1>4. event' \in [from : Senders \cup {0}, rx : Times \cup {0},
                  notify : {"none", "counts", "forced"}, fsm : BOOLEAN]
  BY <1>1 DEF IInv, TypeOK, RxTimes
<1>5. TypeOK'
  BY <1>1, <1>2, <1>4 DEF IInv, TypeOK
<1>. QED
  BY <1>1, <1>2, <1>3, <1>5 DEF IInv, Others, FromFlags

(* A known node's slot holds it.                                          *)
LEMMA SlotOfKnown ==
    ASSUME NEW t \in Seq(Record), NEW n, Known(t, n)
    PROVE  SlotOf(t, n) \in 1..Len(t) /\ t[SlotOf(t, n)].num = n
BY DEF SlotOf, Known

(* updatePosition and updateUser rewrite the sender's record after the    *)
(* common part: a record with the sender's number and flags no lower     *)
(* than before leaves the table in IInv, the sender at its slot and every *)
(* other node as it was.                                                  *)
SlotWriteHyp(from, rx, rr, t2) ==
    /\ IInv /\ from \in Senders /\ rx \in RxTimes /\ Fits(from)
    /\ rr \in Record /\ rr.num = from
    /\ Received(nodes, from, rx)[SlotOf(nodes, from)].hasUser => rr.hasUser
    /\ Received(nodes, from, rx)[SlotOf(nodes, from)].hasPos => rr.hasPos
    /\ t2 = [Received(nodes, from, rx) EXCEPT ![SlotOf(nodes, from)] = rr]

SlotWriteOK(from, rr, t2) ==
    /\ t2 \in Seq(Record)
    /\ Distinct(t2)
    /\ Len(t2) <= MaxNodes
    /\ SlotOf(nodes, from) \in 1..MaxNodes
    /\ Known(t2, from)
    /\ RecordOf(t2, from) = rr
    /\ Known(nodes, from) =>
          /\ RecordOf(nodes, from).hasUser => rr.hasUser
          /\ RecordOf(nodes, from).hasPos => rr.hasPos
    /\ \A n \in Senders \ {from} :
          /\ Known(t2, n) <=> Known(nodes, n)
          /\ Known(nodes, n) => RecordOf(t2, n) = RecordOf(nodes, n)

LEMMA SlotWrite ==
    ASSUME NEW from, NEW rx, NEW rr, NEW t2, SlotWriteHyp(from, rx, rr, t2)
    PROVE  SlotWriteOK(from, rr, t2)
<1>hy. /\ IInv /\ from \in Senders /\ rx \in RxTimes /\ Fits(from)
       /\ rr \in Record /\ rr.num = from
       /\ Received(nodes, from, rx)[SlotOf(nodes, from)].hasUser => rr.hasUser
       /\ Received(nodes, from, rx)[SlotOf(nodes, from)].hasPos => rr.hasPos
       /\ t2 = [Received(nodes, from, rx) EXCEPT ![SlotOf(nodes, from)] = rr]
  BY DEF SlotWriteHyp
<1> DEFINE t1 == Received(nodes, from, rx)
           j  == SlotOf(nodes, from)
<1>1. /\ t1 \in Seq(Record) /\ Distinct(t1) /\ Len(t1) <= MaxNodes
      /\ j \in 1..Len(t1) /\ SlotOf(t1, from) = j /\ t1[j].num = from
      /\ Known(nodes, from) =>
            /\ RecordOf(nodes, from).hasUser => t1[j].hasUser
            /\ RecordOf(nodes, from).hasPos => t1[j].hasPos
      /\ \A n \in Senders \ {from} :
            /\ Known(t1, n) <=> Known(nodes, n)
            /\ Known(nodes, n) => RecordOf(t1, n) = RecordOf(nodes, n)
  BY <1>hy, RecvFacts
<1>0. t2 = [t1 EXCEPT ![j] = rr]
  BY <1>hy
<1> HIDE DEF t1, j
<1>a. rr.num = t1[j].num /\ rr \in Record
  BY <1>hy, <1>1
<1>b. t2 \in Seq(Record)
  <2>1. [t1 EXCEPT ![j] = rr] \in Seq(Record)
    BY <1>1, <1>a
  <2>. QED
    BY <1>0, <2>1
<1>d. Len(t2) = Len(t1)
  <2>1. DOMAIN t2 = DOMAIN t1
    BY <1>0
  <2>2. DOMAIN t1 = 1..Len(t1) /\ Len(t1) \in Nat
    BY <1>1
  <2>3. DOMAIN t2 = 1..Len(t2) /\ Len(t2) \in Nat
    BY <1>b
  <2>. QED
    BY <2>1, <2>2, <2>3
<1>h. \A k \in 1..Len(t1) : t2[k].num = t1[k].num
  BY <1>0, <1>1, <1>a
<1>c. Distinct(t2)
  BY <1>1, <1>d, <1>h DEF Distinct
<1>e. \A n : Known(t2, n) <=> Known(t1, n)
  BY <1>d, <1>h DEF Known
<1>i. \A m : SlotOf(t2, m) = SlotOf(t1, m)
  BY <1>d, <1>h DEF SlotOf
<1>j. Known(t1, from)
  BY <1>1 DEF Known
<1>3. Known(t1, from) /\ Known(t2, from)
  BY <1>j, <1>e
<1>4. ASSUME NEW n \in Senders \ {from}, Known(t1, n)
      PROVE  RecordOf(t2, n) = RecordOf(t1, n)
  <2>1. SlotOf(t1, n) \in 1..Len(t1) /\ t1[SlotOf(t1, n)].num = n
    BY <1>1, <1>4, SlotOfKnown
  <2>2. SlotOf(t1, n) # j
    BY <1>1, <2>1
  <2>3. SlotOf(t2, n) = SlotOf(t1, n)
    BY <1>i
  <2>4. t2[SlotOf(t1, n)] = t1[SlotOf(t1, n)]
    BY <1>0, <1>1, <2>1, <2>2
  <2>. QED
    BY <2>3, <2>4 DEF RecordOf
<1>5. RecordOf(t2, from) = rr
  <2>1. SlotOf(t2, from) = j
    BY <1>1, <1>i
  <2>2. t2[j] = rr
    BY <1>0, <1>1
  <2>. QED
    BY <2>1, <2>2 DEF RecordOf
<1>6. \A n \in Senders \ {from} :
         /\ Known(t2, n) <=> Known(nodes, n)
         /\ Known(nodes, n) => RecordOf(t2, n) = RecordOf(nodes, n)
  BY <1>1, <1>e, <1>4
<1>7. Known(nodes, from) =>
         /\ RecordOf(nodes, from).hasUser => rr.hasUser
         /\ RecordOf(nodes, from).hasPos => rr.hasPos
  BY <1>hy, <1>1 DEF t1, j
<1>8. j \in 1..MaxNodes /\ Len(t2) <= MaxNodes
  BY <1>hy, <1>1, <1>d DEF Fits, j
<1>. QED
  BY <1>b, <1>c, <1>3, <1>5, <1>6, <1>7, <1>8 DEF j, SlotWriteOK

(* updateFrom with a legacy position payload, and updatePosition.         *)
LEMMA PositionStep ==
    ASSUME IInv, NEW from \in Senders, NEW rx \in RxTimes, NEW pt \in PosTimes,
           RecvPosition(from, rx, pt)
    PROVE  /\ IInv'
           /\ Known(nodes', from)
           /\ RecordOf(nodes', from).user = UserOf(nodes, from)
           /\ FromFlags(from)
           /\ Others(from)
           /\ event'.from = from /\ ~event'.fsm
<1> DEFINE t1 == Received(nodes, from, rx)
           j  == SlotOf(nodes, from)
<1>1. /\ t1 \in Seq(Record) /\ j \in 1..Len(t1) /\ SlotOf(t1, from) = j
      /\ t1[j].num = from /\ t1[j].user = UserOf(nodes, from)
  BY RecvFacts DEF RecvPosition
<1>2. t1[j] \in Record
  BY <1>1
<1> DEFINE rr == [num |-> t1[j].num, user |-> t1[j].user, hasUser |-> t1[j].hasUser,
                  hasPos |-> TRUE, posTime |-> pt]
<1>3. nodes' = [t1 EXCEPT ![j] = rr]
  <2>1. nodes' = [t1 EXCEPT ![j] = [t1[j] EXCEPT !.posTime = pt, !.hasPos = TRUE]]
    BY <1>1 DEF RecvPosition
  <2>. QED
    BY <1>2, <2>1, SetPosFields
<1>4. rr \in Record /\ rr.num = from /\ rr.user = UserOf(nodes, from)
      /\ (t1[j].hasUser => rr.hasUser) /\ (t1[j].hasPos => rr.hasPos)
  BY <1>1, <1>2 DEF Record
<1> HIDE DEF rr
<1>5. /\ nodes' \in Seq(Record) /\ Distinct(nodes') /\ Len(nodes') <= MaxNodes
      /\ j \in 1..MaxNodes
      /\ Known(nodes', from) /\ RecordOf(nodes', from) = rr
      /\ FromFlags(from) /\ Others(from)
  <2>1. Fits(from)
    BY DEF RecvPosition
  <2>2. /\ nodes' \in Seq(Record) /\ Distinct(nodes') /\ Len(nodes') <= MaxNodes
        /\ SlotOf(nodes, from) \in 1..MaxNodes
        /\ Known(nodes', from) /\ RecordOf(nodes', from) = rr
        /\ Known(nodes, from) =>
              /\ RecordOf(nodes, from).hasUser => rr.hasUser
              /\ RecordOf(nodes, from).hasPos => rr.hasPos
        /\ \A n \in Senders \ {from} :
              /\ Known(nodes', n) <=> Known(nodes, n)
              /\ Known(nodes, n) => RecordOf(nodes', n) = RecordOf(nodes, n)
    <3>1. PICK t2 : t2 = nodes'
      OBVIOUS
    <3>2. SlotWriteHyp(from, rx, rr, t2)
      BY <1>3, <1>4, <2>1, <3>1 DEF SlotWriteHyp
    <3>3. SlotWriteOK(from, rr, t2)
      BY <3>2, SlotWrite
    <3>. QED
      BY <3>1, <3>3 DEF SlotWriteOK
  <2>. QED
    BY <2>2 DEF FromFlags, Others
<1>6. /\ guiNode' = j /\ UNCHANGED <<now, readPointer>>
      /\ event' = [from |-> from, rx |-> rx, notify |-> "forced", fsm |-> FALSE]
  BY <1>1 DEF RecvPosition
<1>7. TypeOK'
  BY <1>5, <1>6 DEF IInv, TypeOK, RxTimes
<1>. QED
  BY <1>4, <1>5, <1>6, <1>7 DEF IInv

(* updateFrom with a legacy user payload, and updateUser.                 *)
LEMMA UserStep ==
    ASSUME IInv, NEW from \in Senders, NEW rx \in RxTimes, NEW u \in Users,
           RecvUser(from, rx, u)
    PROVE  /\ IInv'
           /\ Known(nodes', from)
           /\ RecordOf(nodes', from).user = u
           /\ FromFlags(from)
           /\ Others(from)
           /\ event'.from = from /\ (event'.fsm <=> UserOf(nodes, from) # u)
<1> DEFINE t1 == Received(nodes, from, rx)
           j  == SlotOf(nodes, from)
<1>1. /\ t1 \in Seq(Record) /\ j \in 1..Len(t1) /\ SlotOf(t1, from) = j
      /\ t1[j].num = from /\ t1[j].user = UserOf(nodes, from)
  BY RecvFacts DEF RecvUser
<1>2. t1[j] \in Record
  BY <1>1
<1> DEFINE rr == [num |-> t1[j].num, user |-> u, hasUser |-> TRUE,
                  hasPos |-> t1[j].hasPos, posTime |-> t1[j].posTime]
<1>3. nodes' = [t1 EXCEPT ![j] = rr]
  <2>1. nodes' = [t1 EXCEPT ![j] = [t1[j] EXCEPT !.user = u, !.hasUser = TRUE]]
    BY <1>1 DEF RecvUser
  <2>. QED
    BY <1>2, <2>1, SetUserFields
<1>4. rr \in Record /\ rr.num = from /\ rr.user = u
      /\ (t1[j].hasUser => rr.hasUser) /\ (t1[j].hasPos => rr.hasPos)
  BY <1>1, <1>2 DEF Record
<1> HIDE DEF rr
<1>5. /\ nodes' \in Seq(Record) /\ Distinct(nodes') /\ Len(nodes') <= MaxNodes
      /\ j \in 1..MaxNodes
      /\ Known(nodes', from) /\ RecordOf(nodes', from) = rr
      /\ FromFlags(from) /\ Others(from)
  <2>1. Fits(from)
    BY DEF RecvUser
  <2>2. /\ nodes' \in Seq(Record) /\ Distinct(nodes') /\ Len(nodes') <= MaxNodes
        /\ SlotOf(nodes, from) \in 1..MaxNodes
        /\ Known(nodes', from) /\ RecordOf(nodes', from) = rr
        /\ Known(nodes, from) =>
              /\ RecordOf(nodes, from).hasUser => rr.hasUser
              /\ RecordOf(nodes, from).hasPos => rr.hasPos
        /\ \A n \in Senders \ {from} :
              /\ Known(nodes', n) <=> Known(nodes, n)
              /\ Known(nodes, n) => RecordOf(nodes', n) = RecordOf(nodes, n)
    <3>1. PICK t2 : t2 = nodes'
      OBVIOUS
    <3>2. SlotWriteHyp(from, rx, rr, t2)
      BY <1>3, <1>4, <2>1, <3>1 DEF SlotWriteHyp
    <3>3. SlotWriteOK(from, rr, t2)
      BY <3>2, SlotWrite
    <3>. QED
      BY <3>1, <3>3 DEF SlotWriteOK
  <2>. QED
    BY <2>2 DEF FromFlags, Others
<1>6. /\ guiNode' \in {j, guiNode} /\ UNCHANGED <<now, readPointer>>
      /\ \E x \in {"none", "forced"} :
            event' = [from |-> from, rx |-> rx, notify |-> x, fsm |-> t1[j].user # u]
  BY <1>1 DEF RecvUser
<1>7. TypeOK'
  BY <1>5, <1>6 DEF IInv, TypeOK, RxTimes
<1>8. event'.from = from /\ (event'.fsm <=> UserOf(nodes, from) # u)
  <2>1. PICK x \in {"none", "forced"} :
          event' = [from |-> from, rx |-> rx, notify |-> x, fsm |-> t1[j].user # u]
    BY <1>6
  <2>2. event'.from = from /\ (event'.fsm <=> t1[j].user # u)
    BY <2>1
  <2>. QED
    BY <1>1, <2>2
<1>. QED
  BY <1>4, <1>5, <1>7, <1>8 DEF IInv

LEMMA NoEventType ==
    NoEvent \in [from : Senders \cup {0}, rx : Times \cup {0},
                 notify : {"none", "counts", "forced"}, fsm : BOOLEAN]
BY DEF NoEvent

(* readNextInfo, a clock change and a factory reset raise no event and    *)
(* keep IInv; a reset empties the table.                                 *)
LEMMA QuietStep ==
    ASSUME IInv, ReadNextInfo \/ (\E t \in Times : Tick(t)) \/ Wipe
    PROVE  /\ IInv'
           /\ event' = NoEvent
           /\ nodes' = nodes \/ nodes' = << >>
<1>1. CASE ReadNextInfo
  <2>0. /\ Len(nodes) \in Nat /\ Len(nodes) <= MaxNodes
        /\ readPointer \in 0..MaxNodes /\ MaxNodes \in Nat
    BY CatalogAssumption DEF IInv, TypeOK
  <2>1. /\ nodes' = nodes /\ readPointer' \in 0..MaxNodes
        /\ now' = now /\ guiNode' = guiNode /\ event' = NoEvent
    BY <1>1, <2>0 DEF ReadNextInfo
  <2>2. TypeOK'
    BY <2>1, NoEventType DEF IInv, TypeOK
  <2>3. Distinct(nodes')
    BY <2>1 DEF IInv
  <2>. QED
    BY <2>1, <2>2, <2>3 DEF IInv
<1>2. CASE \E t \in Times : Tick(t)
  BY <1>2, NoEventType DEF Tick, IInv, TypeOK, Distinct
<1>3. CASE Wipe
  <2>1. /\ nodes' = << >> /\ readPointer' = readPointer
        /\ now' = now /\ guiNode' = guiNode /\ event' = NoEvent
    BY <1>3 DEF Wipe
  <2>2. << >> \in Seq(Record) /\ Len(<< >>) = 0
    OBVIOUS
  <2>3. TypeOK'
    BY <2>1, <2>2, NoEventType, CatalogAssumption DEF IInv, TypeOK
  <2>4. Distinct(nodes')
    BY <2>1, <2>2 DEF Distinct
  <2>. QED
    BY <2>1, <2>3, <2>4 DEF IInv
<1>. QED
  BY <1>1, <1>2, <1>3

(* IInv is inductive.                                                     *)
LEMMA NextIInv == IInv /\ [Next]_vars => IInv'
<1> SUFFICES ASSUME IInv, [Next]_vars PROVE IInv'
  OBVIOUS
<1>1. ASSUME NEW from \in Senders, NEW rx \in RxTimes, NEW pt \in PosTimes,
             RecvPosition(from, rx, pt)
      PROVE  IInv'
  BY <1>1, PositionStep
<1>2. ASSUME NEW from \in Senders, NEW rx \in RxTimes, NEW u \in Users,
             RecvUser(from, rx, u)
      PROVE  IInv'
  BY <1>2, UserStep
<1>3. ASSUME NEW from \in Senders, NEW rx \in RxTimes,
             RecvData(from, rx) \/ RecvOther(from, rx)
      PROVE  IInv'
  BY <1>3, DataStep
<1>4. CASE ReadNextInfo \/ (\E t \in Times : Tick(t)) \/ Wipe
  BY <1>4, QuietStep
<1>5. CASE UNCHANGED vars
  BY <1>5 DEF vars, IInv, TypeOK, Distinct
<1>. QED
  BY <1>1, <1>2, <1>3, <1>4, <1>5 DEF Next

(* Every reachable state satisfies IInv.                                  *)
THEOREM CatalogInvariant == Spec => []IInv
BY InitIInv, NextIInv, PTL DEF Spec

(* The catalog is well typed in every reachable state: the node table is  *)
(* a sequence of NodeInfoLite records of at most MAX_NUM_NODES entries,   *)
(* and readPointer and updateGUIforNode stay within the table bounds.     *)
THEOREM CatalogTypeCorrect == Spec => []TypeOK
<1>1. IInv => TypeOK
  BY DEF IInv
<1>. QED
  BY <1>1, CatalogInvariant, PTL

(* The steps of UserEventIffChanged and FlagsMonotone.                    *)
EventAction ==
    event'.from # 0 =>
        (event'.fsm <=> UserOf(nodes', event'.from) # UserOf(nodes, event'.from))

FlagsAction ==
    \A n \in Senders :
        Known(nodes, n) /\ Known(nodes', n) =>
            /\ RecordOf(nodes, n).hasUser => RecordOf(nodes', n).hasUser
            /\ RecordOf(nodes, n).hasPos => RecordOf(nodes', n).hasPos

(* A packet handler that leaves the sender known with user u, its flags   *)
(* no lower and every other node as it was takes an EventAction step     *)
(* when it raises the FSM event iff u differs from the stored user, and  *)
(* a FlagsAction step.                                                    *)
LEMMA ReceiveActions ==
    ASSUME NEW from \in Senders, NEW u,
           Known(nodes', from), RecordOf(nodes', from).user = u,
           FromFlags(from), Others(from),
           event'.from = from, event'.fsm <=> UserOf(nodes, from) # u
    PROVE  EventAction /\ FlagsAction
<1>1. UserOf(nodes', from) = u
  BY DEF UserOf
<1>2. EventAction
  BY <1>1 DEF EventAction
<1>3. FlagsAction
  BY DEF FlagsAction, FromFlags, Others
<1>. QED
  BY <1>2, <1>3

(* Every step of Next is an EventAction and a FlagsAction step.           *)
LEMMA NextActions == IInv /\ Next => EventAction /\ FlagsAction
<1> SUFFICES ASSUME IInv, Next PROVE EventAction /\ FlagsAction
  OBVIOUS
<1>1. ASSUME NEW from \in Senders, NEW rx \in RxTimes, NEW pt \in PosTimes,
             RecvPosition(from, rx, pt)
      PROVE  EventAction /\ FlagsAction
  <2>1. /\ Known(nodes', from) /\ RecordOf(nodes', from).user = UserOf(nodes, from)
        /\ FromFlags(from) /\ Others(from)
        /\ event'.from = from /\ ~event'.fsm
    BY <1>1, PositionStep
  <2>. QED
    BY <2>1, ReceiveActions
<1>2. ASSUME NEW from \in Senders, NEW rx \in RxTimes, NEW u \in Users,
             RecvUser(from, rx, u)
      PROVE  EventAction /\ FlagsAction
  <2>1. /\ Known(nodes', from) /\ RecordOf(nodes', from).user = u
        /\ FromFlags(from) /\ Others(from)
        /\ event'.from = from /\ (event'.fsm <=> UserOf(nodes, from) # u)
    BY <1>2, UserStep
  <2>. QED
    BY <2>1, ReceiveActions
<1>3. ASSUME NEW from \in Senders, NEW rx \in RxTimes,
             RecvData(from, rx) \/ RecvOther(from, rx)
      PROVE  EventAction /\ FlagsAction
  <2>1. /\ Known(nodes', from) /\ RecordOf(nodes', from).user = UserOf(nodes, from)
        /\ FromFlags(from) /\ Others(from)
        /\ event'.from = from /\ ~event'.fsm
    BY <1>3, DataStep
  <2>. QED
    BY <2>1, ReceiveActions
<1>4. CASE ReadNextInfo \/ (\E t \in Times : Tick(t)) \/ Wipe
  <2>1. event' = NoEvent /\ (nodes' = nodes \/ nodes' = << >>)
    BY <1>4, QuietStep
  <2>2. EventAction
    BY <2>1 DEF EventAction, NoEvent
  <2>3. ASSUME nodes' = nodes PROVE FlagsAction
    BY <2>3 DEF FlagsAction
  <2>4. ASSUME nodes' = << >> PROVE FlagsAction
    BY <2>4 DEF FlagsAction, Known
  <2>. QED
    BY <2>1, <2>2, <2>3, <2>4
<1>. QED
  BY <1>1, <1>2, <1>3, <1>4 DEF Next

(* updateUser raises EVENT_NODEDB_UPDATED exactly when a packet changes   *)
(* its sender's stored user, for every table size, sender set and clock.  *)
THEOREM UserEventIffChangedHolds == Spec => UserEventIffChanged
<1>1. IInv /\ [Next]_vars => [EventAction]_vars
  BY NextActions DEF vars
<1>2. UserEventIffChanged <=> [][EventAction]_vars
  BY DEF UserEventIffChanged, EventAction
<1>. QED
  BY <1>1, <1>2, CatalogInvariant, PTL DEF Spec

(* has_user and has_position of a known node never turn off while it      *)
(* stays in the table, for every table size, sender set and clock.        *)
THEOREM FlagsMonotoneHolds == Spec => FlagsMonotone
<1>1. IInv /\ [Next]_vars => [FlagsAction]_vars
  BY NextActions DEF vars
<1>2. FlagsMonotone <=> [][FlagsAction]_vars
  BY DEF FlagsMonotone, FlagsAction
<1>. QED
  BY <1>1, <1>2, CatalogInvariant, PTL DEF Spec

(* Reduction modulo m of a value in 0..2m-1.                              *)
LEMMA ModBelow ==
    ASSUME NEW m \in Nat \ {0}, NEW a \in 0..(m - 1)
    PROVE  a % m = a /\ (a + m) % m = a
<1>1. a % m = a
  BY SMT
<1>2. (a + m) \div m = 1
  BY SMT
<1>. QED
  BY <1>1, <1>2, SMT

(* With both times below the sign bit, the uint32 difference reinterpreted *)
(* as an int and clamped at 0 is the spec's clamped difference: the       *)
(* wrapped difference is t - p when t >= p, and at least the sign bit,    *)
(* hence negative as an int, when p lies ahead.                           *)
LEMMA SinceAgrees ==
    ASSUME NEW r, r.posTime \in 0..(SignBit - 1), NEW t \in 0..(SignBit - 1)
    PROVE  sinceLastSeen(r, t) = SpecSince(r.posTime, t)
<1> DEFINE p == r.posTime
           M == Modulus
           d == (t + M - p) % M
<1>1. SignBit \in Nat \ {0} /\ M = 2 * SignBit /\ M \in Nat \ {0}
  BY CatalogAssumption DEF Modulus
<1> HIDE DEF M
<1>2. CASE t >= p
  <2>1. t - p \in 0..(M - 1) /\ t + M - p = (t - p) + M
    BY <1>1, <1>2
  <2>2. d = t - p
    BY <1>1, <2>1, ModBelow
  <2>3. ToInt(d) = t - p
    BY <1>1, <2>1, <2>2 DEF ToInt, M
  <2>. QED
    BY <1>2, <2>3 DEF sinceLastSeen, SpecSince, M
<1>3. CASE t < p
  <2>1. t + M - p \in 0..(M - 1) /\ t + M - p >= SignBit
    BY <1>1, <1>3
  <2>2. d = t + M - p
    BY <1>1, <2>1, ModBelow
  <2>3. ToInt(d) < 0
    BY <1>1, <2>1, <2>2 DEF ToInt, M
  <2>. QED
    BY <1>3, <2>3 DEF sinceLastSeen, SpecSince, M
<1>. QED
  BY <1>2, <1>3

(* getNumOnlineNodes counts exactly the nodes the spec calls online as    *)
(* long as the clock and every position time lie below 2^(Width-1), that  *)
(* is before 2038 for a 32-bit time_t.  Past it the (int) cast of         *)
(* sinceLastSeen flips the sign and the count diverges from the spec      *)
(* (the catalog_y2038 run), so the hypothesis is the one the code needs.  *)
THEOREM OnlineCountBeforeWrap ==
    ASSUME Times \cup PosTimes \subseteq 0..(SignBit - 1)
    PROVE  Spec => []OnlineCountMatchesSpec
<1>1. IInv => OnlineCountMatchesSpec
  <2> SUFFICES ASSUME IInv PROVE OnlineCountMatchesSpec
    OBVIOUS
  <2>1. \A i \in 1..Len(nodes) : nodes[i].posTime \in 0..(SignBit - 1)
    <3> TAKE i \in 1..Len(nodes)
    <3>1. nodes[i] \in Record
      BY DEF IInv, TypeOK
    <3>2. nodes[i].posTime \in Times \cup PosTimes \cup {0}
      BY <3>1 DEF Record
    <3>3. 0 \in 0..(SignBit - 1)
      BY CatalogAssumption
    <3>. QED
      BY <3>2, <3>3
  <2>2. now \in 0..(SignBit - 1)
    BY DEF IInv, TypeOK
  <2>3. \A i \in 1..Len(nodes) :
           sinceLastSeen(nodes[i], now) = SpecSince(nodes[i].posTime, now)
    BY <2>1, <2>2, SinceAgrees
  <2>4. {i \in 1..Len(nodes) : sinceLastSeen(nodes[i], now) < NumOnlineSecs}
          = {i \in 1..Len(nodes) : SpecSince(nodes[i].posTime, now) < NumOnlineSecs}
    BY <2>3
  <2>. QED
    BY <2>4 DEF OnlineCountMatchesSpec, getNumOnlineNodes
<1>. QED
  BY <1>1, CatalogInvariant, PTL

=============================================================================
