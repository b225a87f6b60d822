----------------------------- MODULE NodeCatalog -----------------------------
(***************************************************************************)
(* NodeCatalog: what the packet path does to the peer table.  updateFrom   *)
(* with its receipt-time and payload dispatch, updatePosition, updateUser  *)
(* with its change detection and the events it raises, readNextInfo, and  *)
(* the online count of sinceLastSeen and getNumOnlineNodes.               *)
(*                                                                         *)
(* Times are unsigned integers of Width bits (32 in the code) and the     *)
(* (int) cast reinterprets the top bit as a sign.  A record keeps its     *)
(* number, user, has_user, has_position and position.time; snr and the    *)
(* other position fields are written but never read by this file.         *)
(* Node numbers, capacity and the capacity assert are those of NodeDB.    *)
(***************************************************************************)
EXTENDS Naturals, Sequences, FiniteSets

CONSTANTS
    MaxNodes,       \* MAX_NUM_NODES
    Senders,        \* node numbers packets may come from
    Users,          \* user payloads; NoUser is the all-zero User
    NoUser,
    Width,          \* bits of uint32_t
    NumOnlineSecs,  \* NUM_ONLINE_SECS
    Times,          \* values getTime() may return (0: clock not set)
    PosTimes        \* position.time values a position payload may carry

(* The sign bit of a Width-bit integer, and the modulus of its unsigned  *)
(* arithmetic.                                                            *)
SignBit == 2^(Width - 1)
Modulus == 2 * SignBit

ASSUME CatalogAssumption ==
    /\ MaxNodes \in Nat \ {0}
    /\ Width \in Nat \ {0}
    /\ SignBit \in Nat \ {0}
    /\ NoUser \in Users
    /\ Senders \subseteq Nat \ {0}
    /\ NumOnlineSecs \in 1..(SignBit - 1)
    /\ Times \cup PosTimes \subseteq 0..(Modulus - 1)

VARIABLES
    nodes,        \* node_db[0 .. *numNodes-1]
    now,          \* getTime()
    readPointer,  \* NodeDB::readPointer
    guiNode,      \* updateGUIforNode, a pointer into node_db: a slot, 0 for NULL
    event         \* what the last step did: the packet and what it raised

vars == <<nodes, now, readPointer, guiNode, event>>

NoEvent == [from |-> 0, rx |-> 0, notify |-> "none", fsm |-> FALSE]

(* A record just appended by getOrCreateNode: memset, then num.           *)
ZeroRecord(n) ==
    [num |-> n, user |-> NoUser, hasUser |-> FALSE, hasPos |-> FALSE, posTime |-> 0]

(* The slot getOrCreateNode returns for n (one past the end for a miss).  *)
SlotOf(t, n) ==
    IF \E i \in 1..Len(t) : t[i].num = n
    THEN CHOOSE i \in 1..Len(t) : t[i].num = n
    ELSE Len(t) + 1

getOrCreateNode(t, n) == IF SlotOf(t, n) > Len(t) THEN Append(t, ZeroRecord(n)) ELSE t

-----------------------------------------------------------------------------
(* (int)(now - last_seen): uint32 subtraction, then a two's-complement     *)
(* reinterpretation.                                                      *)
ToInt(x) == IF x >= SignBit THEN x - Modulus ELSE x

(* Seeded fault: the negative delta is not clamped and returns as uint32. *)
sinceLastSeen_noClamp(r, t) == (t + Modulus - r.posTime) % Modulus

sinceLastSeen(r, t) ==
    LET delta == ToInt((t + Modulus - r.posTime) % Modulus)
    IN  IF delta < 0 THEN 0 ELSE delta

getNumOnlineNodes(t, clock) ==
    Cardinality({i \in 1..Len(t) : sinceLastSeen(t[i], clock) < NumOnlineSecs})

-----------------------------------------------------------------------------
(* Seeded fault: has_position follows the receipt time of each packet.    *)
Received_posFromRx(t, from, rx) ==
    LET t0 == getOrCreateNode(t, from)
        i  == SlotOf(t0, from)
    IN  [t0 EXCEPT ![i].hasPos = (rx # 0), ![i].posTime = IF rx # 0 THEN rx ELSE @]

(* The common part of updateFrom: the upsert, then a valid receipt time    *)
(* marks the record as having a position and sets its time.               *)
Received(t, from, rx) ==
    LET t0 == getOrCreateNode(t, from)
        i  == SlotOf(t0, from)
    IN  IF rx # 0 THEN [t0 EXCEPT ![i].hasPos = TRUE, ![i].posTime = rx] ELSE t0

(* The capacity assert holds: from is known or there is a free slot.     *)
Fits(from) == SlotOf(nodes, from) <= MaxNodes

(* mp.rx_time is the receiver's valid time, 0 while the clock is unset.   *)
RxTimes == {0, now}

Init ==
    /\ nodes = <<>>
    /\ now \in Times
    /\ readPointer = 0
    /\ guiNode = 0
    /\ event = NoEvent

(* updateFrom with a legacy position payload, and updatePosition: the     *)
(* whole position, its time included, is overwritten; observers are       *)
(* notified unconditionally.                                              *)
RecvPosition(from, rx, pt) ==
    LET t1 == Received(nodes, from, rx)
        i  == SlotOf(t1, from)
    IN  /\ Fits(from)
        /\ nodes' = [t1 EXCEPT ![i].posTime = pt, ![i].hasPos = TRUE]
        /\ guiNode' = i
        /\ event' = [from |-> from, rx |-> rx, notify |-> "forced", fsm |-> FALSE]
        /\ UNCHANGED <<now, readPointer>>

(* Seeded fault: the memcmp runs after info->user = p.                     *)
RecvUser_compareAfter(from, rx, u) ==
    LET t1 == Received(nodes, from, rx)
        i  == SlotOf(t1, from)
        t2 == [t1 EXCEPT ![i].user = u, ![i].hasUser = TRUE]
        changed == t2[i].user # u
    IN  /\ Fits(from)
        /\ nodes' = t2
        /\ guiNode' = IF changed THEN i ELSE guiNode
        /\ event' = [from |-> from, rx |-> rx,
                     notify |-> IF changed THEN "forced" ELSE "none", fsm |-> changed]
        /\ UNCHANGED <<now, readPointer>>

(* updateFrom with a legacy user payload, and updateUser: the user is      *)
(* compared with the stored one, overwritten, has_user set; only a change *)
(* points the GUI at the node, triggers EVENT_NODEDB_UPDATED and notifies.*)
RecvUser(from, rx, u) ==
    LET t1 == Received(nodes, from, rx)
        i  == SlotOf(t1, from)
        changed == t1[i].user # u
    IN  /\ Fits(from)
        /\ nodes' = [t1 EXCEPT ![i].user = u, ![i].hasUser = TRUE]
        /\ guiNode' = IF changed THEN i ELSE guiNode
        /\ event' = [from |-> from, rx |-> rx,
                     notify |-> IF changed THEN "forced" ELSE "none", fsm |-> changed]
        /\ UNCHANGED <<now, readPointer>>

(* updateFrom with an application payload: plugins get it, the catalog    *)
(* raises nothing.                                                        *)
RecvData(from, rx) ==
    /\ Fits(from)
    /\ nodes' = Received(nodes, from, rx)
    /\ event' = [from |-> from, rx |-> rx, notify |-> "none", fsm |-> FALSE]
    /\ UNCHANGED <<now, readPointer, guiNode>>

(* updateFrom with any other payload: notifyObservers() without force.    *)
RecvOther(from, rx) ==
    /\ Fits(from)
    /\ nodes' = Received(nodes, from, rx)
    /\ event' = [from |-> from, rx |-> rx, notify |-> "counts", fsm |-> FALSE]
    /\ UNCHANGED <<now, readPointer, guiNode>>

(* Seeded fault: the bound test reads one record past the count.         *)
ReadNextInfo_offByOne ==
    /\ readPointer <= Len(nodes)
    /\ readPointer' = readPointer + 1
    /\ event' = NoEvent
    /\ UNCHANGED <<nodes, now, guiNode>>

(* readNextInfo: the next record, or NULL at the end of the table.        *)
ReadNextInfo ==
    /\ readPointer < Len(nodes)
    /\ readPointer' = readPointer + 1
    /\ event' = NoEvent
    /\ UNCHANGED <<nodes, now, guiNode>>

(* The clock moves, or is set from GPS or the phone.                      *)
Tick(t) ==
    /\ now' = t
    /\ event' = NoEvent
    /\ UNCHANGED <<nodes, readPointer, guiNode>>

(* installDefaultDeviceState (a factory reset) forgets the table;         *)
(* readPointer and updateGUIforNode are not part of devicestate and keep *)
(* pointing at slots that new nodes will reuse.                          *)
Wipe ==
    /\ nodes' = <<>>
    /\ event' = NoEvent
    /\ UNCHANGED <<now, readPointer, guiNode>>

Next ==
    \/ \E from \in Senders, rx \in RxTimes :
          \/ \E pt \in PosTimes : RecvPosition(from, rx, pt)
          \/ \E u \in Users : RecvUser(from, rx, u)
          \/ RecvData(from, rx)
          \/ RecvOther(from, rx)
    \/ ReadNextInfo
    \/ \E t \in Times : Tick(t)
    \/ Wipe

Spec == Init /\ [][Next]_vars

-----------------------------------------------------------------------------
Record == [num : Senders, user : Users, hasUser : BOOLEAN, hasPos : BOOLEAN,
           posTime : Times \cup PosTimes \cup {0}]

TypeOK ==
    /\ nodes \in Seq(Record)
    /\ Len(nodes) <= MaxNodes
    /\ now \in Times
    /\ readPointer \in 0..MaxNodes
    /\ guiNode \in 0..MaxNodes
    /\ event \in [from : Senders \cup {0}, rx : Times \cup {0},
                  notify : {"none", "counts", "forced"}, fsm : BOOLEAN]

(* Spec section 4.4: seconds since last seen is now - position.time,       *)
(* clamped to 0 when the time lies ahead of the clock.                    *)
SpecSince(last, t) == IF t >= last THEN t - last ELSE 0

(* getNumOnlineNodes counts exactly the records the spec calls online:    *)
(* last heard less than NUM_ONLINE_SECS ago, or at a time ahead of the    *)
(* clock, whatever the clock and the stored times are.                    *)
OnlineCountMatchesSpec ==
    getNumOnlineNodes(nodes, now) =
        Cardinality({i \in 1..Len(nodes) : SpecSince(nodes[i].posTime, now) < NumOnlineSecs})

Known(t, n) == \E i \in 1..Len(t) : t[i].num = n
RecordOf(t, n) == t[SlotOf(t, n)]
UserOf(t, n) == IF Known(t, n) THEN RecordOf(t, n).user ELSE NoUser

(* updateUser raises EVENT_NODEDB_UPDATED (and the forced notification)    *)
(* exactly when a packet changes the stored user of its sender; a         *)
(* duplicate user payload raises nothing (spec section 8).                *)
UserEventIffChanged ==
    [][event'.from # 0 =>
         (event'.fsm <=> UserOf(nodes', event'.from) # UserOf(nodes, event'.from))]_vars

(* Spec section 4.4: has_user and has_position of a record only ever turn  *)
(* on, whatever packets arrive, until the whole catalog is reset.         *)
FlagsMonotone ==
    [][\A n \in Senders :
         Known(nodes, n) /\ Known(nodes', n) =>
            /\ RecordOf(nodes, n).hasUser => RecordOf(nodes', n).hasUser
            /\ RecordOf(nodes, n).hasPos => RecordOf(nodes', n).hasPos]_vars

(* Spec section 4.4: a packet with a valid receipt time is a freshness    *)
(* signal; right after it its sender counts as online.                    *)
HeardIsOnline ==
    event.rx # 0 /\ event.rx = now =>
        sinceLastSeen(RecordOf(nodes, event.from), now) < NumOnlineSecs

=============================================================================
