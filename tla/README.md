# TLA+ models of the Meshtastic NodeDB

This directory holds the formal development for `src/src/mesh/NodeDB.cpp`.
That file is the device's identity, configuration and peer-table store. The
development has TLA+ modules, TLC configurations for small instances, and
TLAPS proofs for every instance. `PROJECT.json` lists the components, runs,
mutants, the map from definitions to source lines, findings, hazards and
theorems.

## 1. The system

The source has four components, as `spec.md` names them, and two thin parts.

| Component | Code | State it changes |
|---|---|---|
| DeviceStateStore | `init` 267-321, `installDefaultDeviceState` 222-265, `loadFromDisk` 353-389, `saveToDisk` 391-428 | `devicestate` in RAM, `/db.proto`, `/db.proto.tmp` |
| NodeNumberAllocator | `pickNewNodeNum` 329-348 | `myNodeInfo.my_node_num` |
| NodeCatalog | `getNode` 553-560, `getOrCreateNode` 563-578, `updateFrom` 509-549, `updateUser` 482-505, `updatePosition` 469-479, `readNextInfo`, `sinceLastSeen`, `getNumOnlineNodes` 430-463 | `devicestate.node_db`, `node_db_count`, `readPointer` |
| ChannelConfigManager | `resetRadioConfig` 108-220, `getChannelName` 86-104 | `radioGeneration`, channel settings, `activePSK`, `channelName` |
| NotificationHub | `notifyObservers`, `powerFSM.trigger`, `updateGUIforNode` | external only |
| recordCriticalError | 581-586 | three `myNodeInfo` error fields |

How they interact:

- **Boot.** `init` wipes the state (`installDefaultDeviceState`) and loads
  `/db.proto`. A missing file keeps the defaults. An undecodable or old file
  installs the defaults again, keeping the region fields. `init` then picks a
  node number against the loaded table. It adds our own record with
  `getOrCreateNode`, migrates the legacy region string, and runs
  `resetRadioConfig`.
- **Runtime.** Every decoded packet goes to `updateFrom`, which upserts the
  sender. A user payload is handled by `updateUser`, which overwrites the
  user. A phone can write a new radio configuration. The configuration is
  then reloaded through `resetRadioConfig`; if the `factory_reset` flag is
  set, that wipes everything.
- **Saving.** An external scheduler calls `saveToDisk`. It runs four
  steps: open `/db.proto.tmp`, encode into it, remove `/db.proto`, rename the
  temporary file.
- **Concurrency.** Everything runs on one cooperative thread, except
  `getNode`, which an interrupt may call while the main thread appends to the
  table (spec section 5).

What is hard here, and what a unit test would hardly reach:

- **Crash windows.** Power may fail between any two filesystem steps. Each
  step can also fail on its own and is only logged (lines 404-417).
- **Boot against stale data.** The table loaded from flash is whatever an
  earlier run saved. This can include a peer that took over our own number,
  or a full table. The capacity assert at line 569 fires inside `init` when
  both happen.
- **The collision loop.** It compares MAC addresses of whatever record holds
  the candidate number (line 341). It has no iteration bound, and its draws
  depend on the width of `long` (line 342): on the 32-bit targets every draw
  is `NUM_RESERVED`.
- **Partial decodes.** A failed `pb_decode` leaves part of the file in RAM.
  `installDefaultDeviceState` then keeps the region fields of that partial
  decode (lines 366-368).
- **The ISR reader.** It can see `numNodes` already incremented before the new
  slot is cleared and numbered (lines 570-574).
- **Clock arithmetic.** Unsigned time arithmetic is cast to `int` in
  `sinceLastSeen` (line 444).

The properties each component needs:

- **NodeCatalog:** unique keys, no reserved keys, our own entry present, and
  no half-built slot visible to the ISR.
- **NodeNumberAllocator:** a valid number, and never taking another device's
  record.
- **DeviceStateStore:** no torn primary file, uniqueness preserved through
  save and load, and a boot that always completes.
- **ChannelConfigManager:** PSK expansion and the display suffix as in spec
  sections 4.1 and 8.

## 2. Modules

### NodeDB.tla: DeviceStateStore, NodeNumberAllocator and the table core of NodeCatalog

**State.**

| Variable | Models |
|---|---|
| `ds` | `devicestate`: version, the table `nodes` with `numNodes`, `myNodeNum`, region code and legacy region string |
| `radioGen` | `radioGeneration` |
| `primary`, `tmp` | the two files: `NoFile`, `CorruptFile`, `PartialFile` (a torn write), or a decodable `DeviceState` |
| `phase` | `"off"`, `"running"`, or the step of `saveToDisk` the main loop is in |
| `bootAsserted` | a history flag set when the capacity assert fires inside `init` |
| `longWidth` | the width of `long` in the build the device runs (32 or 64), chosen once in `Init` from `LongWidths` and never changed |
| `pickHung` | a history flag set when the collision loop of `pickNewNodeNum` can never end |

A peer record is `[num, user, hasUser]`. Users are model values, and
`MacOf[u]` gives a user's `macaddr`.

**Actions.**

- `Boot` is the whole of `init`. It picks one outcome of `loadFromDisk`
  (`LoadResults`) and one outcome of `pickNewNodeNum` (`PickNodeNum`).
  Either the assert fires, or it adds the own record, migrates the region
  and counts the `radioGeneration` increments.
- `BootHang` is `init` when the collision loop has no free value to reach.
  The device spins until the power is cut, which brings it back to `"off"`,
  so the action only sets `pickHung`.
- `updateFrom(from, isUser, user)` is `updateFrom` together with
  `updateUser`. A new sender on a full table fails the assert and reboots:
  RAM is lost and the files stay.
- `SetRadioConfig(region, factory)` is a phone's configuration write
  followed by `resetRadioConfig`. It is modelled from the spec, because the
  caller is not in `src/`.
- `SaveOpen`, `SaveEncode`, `SaveRemove` and `SaveRename` are the four steps
  of `saveToDisk`, each with its failure outcome.
- `PowerLoss` can happen in any phase except `"off"`.

**Helpers.**

- `getNode`, `getOrCreateNode`, `SlotOf`, `SetUser`, `installDefaultDeviceState`,
  `resetRadioConfig` and `MigrateRegion` translate the functions of the same
  names.
- `RandomDraws(w)` is what `random(NUM_RESERVED, NODENUM_BROADCAST)`
  returns with a `w`-bit `long`. Arduino's `long random(long, long)`
  returns its first argument when that is not below the second.
  `NODENUM_BROADCAST` is `UINT32_MAX`, which a 32-bit `long` holds as -1, so
  there every draw is `NUM_RESERVED`. A 64-bit `long` draws from the whole
  non-reserved range. `random` and `NODENUM_BROADCAST` are defined outside
  `src/`; this is their documented behaviour.
- `PickNodeNum` is the set of values the collision loop can end with: the
  start value when it is free, otherwise any free value among the draws.
  An empty set means that the loop never ends. The number of iterations is
  not modelled. `RangeAssumption` (more non-reserved numbers than slots)
  makes the set non-empty for a 64-bit build only.

**Abstractions.** These are chosen so that the modelled properties can still
tell the cases apart:

- Channel settings, PSKs, positions, snr and names are left out here. They
  are in ChannelConfig and NodeCatalog.
- The `factory_reset` flag loaded from flash is taken as false.
- `no_save` is taken as false, since the code says "DO NOT RELEASE".
- `radioGeneration` is bounded by `MaxGeneration`, only in the guard of
  `SetRadioConfig`.
- A failed decode may have written any region code and string before failing
  (`PartialDecodes`).

**MC_NodeDB.tla** gives model values for users, MACs and regions. The
initial flash is one of: no file, a corrupt file, or a version-10 file with a
legacy region string.

### NodeTableISR.tla and AtomicNodeTable.tla: the ISR read path

`getNode` may run in an interrupt while the main context appends with
`getOrCreateNode` or wipes the table. An interrupt preempts the main context
and runs to completion. Each lookup therefore sees one state between two
main-context statements, and the properties quantify over those states and
over every key.

| Variable | Models |
|---|---|
| `nums` | `nodes[i].num` of every slot; `getNode` reads nothing else |
| `numNodes` | `*numNodes` |
| `pc`, `pending` | the statement of `getOrCreateNode` the main context is at, and its `n` |

- `Claim(n)` is lines 565-570: the lookup misses, the assert holds, and
  `nodes[(*numNodes)++]` publishes the slot. `Overflow(n)` is the failing
  assert, a reboot that zeroes RAM.
- `Clear` (line 573) and `SetNum` (line 574) are the `memset` and the
  `num` write.
- `Wipe` is `installDefaultDeviceState` (lines 228-230).
- `IsrGetNode(n)` is `getNode` bounded by the current count.

`AtomicNodeTable.tla` is the abstract specification, the table spec
section 9 promises. It is a sequence of distinct numbers that grows by one
whole record (`AddRecord`) or is reset as a whole (`Reset`).
`NodeTableISR` instantiates it as `Abs`, with the refinement mapping
`tbl <- CommittedTable`, the finished slots: all of them when idle, all but
the one being built otherwise. `Claim` and `Clear` map to stuttering steps,
`SetNum` to `AddRecord(pending)`, and `Overflow` and `Wipe` to `Reset`.

### ChannelConfig.tla: the channel half of ChannelConfigManager

The state is `chan` (`channelSettings`: key, name, modem preset,
bandwidth, tx power), `activePSK` and `channelName`. A fourth variable,
`pskWritten`, is history and not state of the code. It holds the key the
phone wrote last, or the empty key of the zeroed record after a factory
reset. `ActiveKeyIsWritten` compares the key in use with it.

- A key is the byte sequence `psk.bytes[0 .. size-1]`. `defaultpsk` is the
  16-byte constant of the code.
- `resetRadioConfig(c, factory)` is the whole function on the channel, in the
  code's order:
  - the factory branch (a zeroed record normalised by the nested call);
  - or the default channel for an empty key;
  - then the `"Default"` name migration and name resolution (`ResolveName`);
  - then the full-default-key migration (`MigratePsk`);
  - then the expansion (`ExpandPsk`).
- `Suffix` and `getChannelName` (lines 86-104) are in `ChannelName.tla`,
  which extends `ChannelConfig`. XOR is taken from the `Bitwise` module and
  the fold over the key from `SequencesExt`. Keeping them out of
  `ChannelConfig` keeps that module provable (see section 4). `'0' + b` is a
  char addition modulo 256. The display string is kept as the pair of
  `"#%s-%c"` arguments; a name has at most 11 characters, so the 32-byte
  buffer never truncates.
- `EmptyStr` is the empty string (`""` in the cfgs). `ChannelAssumption`
  states what the code's types give:
  - keys are byte sequences;
  - the empty name is a possible name, different from `"Default"`;
  - the zeroed `modem_config` and the default channel's preset are values
    of the enum;
  - 0 is a possible bandwidth and tx power.
- `Init` is a loaded record followed by init's final `resetRadioConfig`.
  `SetChannel(c, factory)` is a phone write followed by a reload. The caller
  is outside `src/`, so it is modelled from the spec.
- `radioGeneration` and the non-channel effects of a factory reset are in
  `NodeDB`. The `no_save` branch is never taken. `crypto->setKey` and
  `initRegion` are external.

`MC_ChannelConfig.tla` enumerates every key kind the code tells apart:
- no key;
- indices 0, 1, 2 and 10;
- the full default key;
- the full key that index 2 expands to;
- a short custom key.

It also has the empty, legacy and a custom name, every preset plus one
unknown modem value, and both bandwidth cases.
`MC_ChannelName.tla` extends it and `ChannelName` for the
`getChannelName` run.

### NodeCatalog.tla: the packet path of NodeCatalog

The state is:
- `nodes`: records of `num`, `user`, `hasUser`, `hasPos` and `posTime`;
- `now`;
- `readPointer`;
- `guiNode` (`updateGUIforNode`, a slot);
- `event`: the packet of the last step, the notification it raised (none,
  counts-only or forced) and whether `EVENT_NODEDB_UPDATED` fired.

Each payload kind of `updateFrom` is an action:
- `RecvPosition` (with `updatePosition`);
- `RecvUser` (with `updateUser`);
- `RecvData`;
- `RecvOther`.

They share `Received`, which is the upsert plus the receipt time. The other
actions are:
- `ReadNextInfo`;
- `Tick`, where the clock moves or is set;
- `Wipe`.

Times are `Width`-bit unsigned values. `sinceLastSeen` does the modular
subtraction and the `(int)` reinterpretation (`ToInt`). The runs use
`Width = 8` with `NumOnlineSecs = 120`. This keeps the threshold below
`2^(Width-1)`, just as 120 is far below `2^31`. `snr` and the other position
fields are written but never read in this file, and are left out.
Note that `NUM_ONLINE_SECS` is 120 seconds although its comment says
"2 hrs".

`CatalogAssumption` names the sign bit `SignBit == 2^(Width-1)` and the
modulus `2 * SignBit`, and requires:
- a positive capacity and width;
- a positive `SignBit`, which the prover cannot derive from the power;
- nonzero sender numbers, because 0 marks "no packet" in `event`;
- a threshold below `SignBit`;
- times that are `Width`-bit values.

## 3. Runs

### NodeDB

The NodeDB runs use `MC_NodeDB.tla` with:

- `MaxNodes = 2`, `NumReserved = 2`, `Broadcast = 6` (numbers 0..6);
- `OurMacNum = 1`, a reserved value, so the clamp always happens;
- `Senders = {2, 3, 4}`, which includes our own start number 2, so a peer can
  collide with us;
- two users: owner and peer, with different MACs;
- `MaxGeneration = 4`;
- `LongWidths = {32, 64}`, so both builds are explored from the start.
  In `nodedb_hang` it is `{32}` and `OurMacNum = 3`, so our start number
  differs from `NUM_RESERVED`, as it does with real MAC addresses.

These bounds fill the table, collide on our number, save a full table, crash
in every save step and boot again from every file kind. A larger `MaxNodes`
only repeats these cases with more slots. `VIEW View` ignores the content of
`/db.proto.tmp` outside a save, because `SaveOpen` always truncates it before
anything reads it.

| Run | Expect | Checks | Shows |
|---|---|---|---|
| `nodedb_safety` | pass (542,555 distinct states, about 30 s) | `TypeOK`, `UniqueNums`, `NodeNumValid`, `PrimaryNeverPartial`, `BootKeepsPeers` | Node numbers stay unique in RAM and in both files across loads, saves and crashes. A running device's number is never reserved or broadcast. `/db.proto` is never torn. A boot never overwrites the user of a loaded record that belongs to another MAC. |
| `nodedb_bootloop` | violation of `NoBootAssert` | the capacity assert inside `init` | Boot loop, in nine steps on a 64-bit build: the table fills, and a peer sending with our number overwrites our own record's user. The state is saved and the device reboots. `pickNewNodeNum` moves to a new number, and `getOrCreateNode` asserts on the full table, at every boot. |
| `nodedb_hang` | violation of `PickTerminates` | spec section 4.3, the loop draws from the non-reserved range | Endless loop, in nine steps on a 32-bit build: a peer takes number 2 (`NUM_RESERVED`), and another peer sends with our number 3 and overwrites our record's user. The state is saved, and a new sender on the full table reboots the device. At the next boot 3 is another device's, every draw is 2, which is too, and `init` never returns. |
| `nodedb_ownentry` | violation of `OwnEntryExists` | spec section 3, own entry present | A runtime factory reset empties the table and nothing re-adds our record. |
| `nodedb_reserved` | violation of `NoReservedPeerKeys` (`Senders = {0, 3, 6}`) | spec section 3, 0 and broadcast are never keys | `updateFrom` does not filter `mp.from`. |

Every property of the passing run has a mutant in `NodeDB.tla`. TLC must
report the property violated when the mutant replaces the mapped definition:

- the assert off by one (`TypeOK`);
- `getNode` skipping the last slot (`UniqueNums`);
- the reserved clamp off by one (`NodeNumValid`);
- an encode failure falling through to remove and rename
  (`PrimaryNeverPartial`);
- the negated `memcmp` in the collision loop (`BootKeepsPeers`).

### NodeTableISR

`NodeTableISR.cfg` uses `MaxNodes = 3` and `Keys = {1, 2, 3, 4}`. With
more keys than slots the table fills and a new key meets the assert. A wipe
happens at every fill level, and an ISR lookup happens at every statement
of every append.

| Run | Expect | Checks | Shows |
|---|---|---|---|
| `nodetable_isr` | pass (121 distinct states) | `TypeOK`, `IsrSeesCommitted`, `ImplementsAtomicTable` | At any statement the ISR may interrupt, `getNode` for a nonzero number answers as the abstract table of finished slots. The statement-level table implements `AtomicNodeTable`. |
| `nodetable_isr_halfslot` | violation of `NoHalfSlotVisible` | spec section 5 | Right after `numNodes++` (line 570) the ISR scans a slot below the count whose `num` is still 0. The lookups stay right only because slots past the count are always zero. |

Mutants:
- the assert accepting a full table (`TypeOK`);
- a wipe that resets only the count (`IsrSeesCommitted`);
- `getOrCreateNode` appending without the lookup (`ImplementsAtomicTable`).

### ChannelConfig

| Run | Expect | Checks | Shows |
|---|---|---|---|
| `channel_config` | pass (282 distinct states) | `TypeOK`, `ActiveKeyIsWritten`, `StableUnderReload` | For every setting a phone can write, with or without a factory reset, the key in use is the spec's expansion of the key the phone wrote (spec section 8); an empty key, written or left by a factory reset, means index 1. So the default-channel install and the key migration never change which key is used. A further `resetRadioConfig` changes nothing. |
| `channel_digit` | violation of `SuffixIsDigit` | spec section 4.1 | Index 10 shows `#Medium-:`. |

`channel_config` runs `MC_ChannelConfig`; the violation run runs
`MC_ChannelName`. Every reachable state is a reset of some written setting. So these runs
check `resetRadioConfig` and `getChannelName` over all inputs of the MC
module, which is a bounded check of pure operators. The mutants are:
- the full default key migrated to index 0 instead of 1 (`ActiveKeyIsWritten`);
- the expanded key written back into `channelSettings` (`StableUnderReload`;
  index 0 would become the default key at the next reload);
- the `strcmp` test inverted (`TypeOK`).

### NodeCatalog

`NodeCatalog.cfg` uses these bounds:
- `MaxNodes = 2`, `Senders = {1, 2}`;
- the zero user and one other user;
- clock values `{0, 100, 125}`;
- position times `{0, 110}`.

These cover all of the following:
- a time ahead of the clock;
- times within and beyond 120 s of it;
- a clock that goes back;
- a full table;
- a duplicate user and a new user;
- a wipe under a non-zero read pointer.

| Run | Expect | Checks | Shows |
|---|---|---|---|
| `catalog_safety` | pass (60,525 distinct states, about 35 s) | `TypeOK`, `OnlineCountMatchesSpec`, `UserEventIffChanged`, `FlagsMonotone` | While every time is below `2^(Width-1)`, the online count is the spec's count. `EVENT_NODEDB_UPDATED` fires exactly when a packet changes its sender's stored user. `has_user` and `has_position` never turn off. |
| `catalog_y2038` | violation of `OnlineCountMatchesSpec` (clock value 250) | spec section 4.4 | When `now - last_seen` reaches `2^(Width-1)` (2^31 s, January 2038), the cast makes it negative and the clamp makes it 0. A record with time 0 then counts as online. |
| `catalog_heard` | violation of `HeardIsOnline` | spec section 4.4, receipt time as freshness signal | A legacy position payload with time 0 overwrites the receipt time just stored. The node just heard counts as offline. |

Mutants:
- `sinceLastSeen` without the clamp (`OnlineCountMatchesSpec`);
- `memcmp` after the assignment (`UserEventIffChanged`);
- `has_position` following each packet's receipt time (`FlagsMonotone`);
- `readNextInfo` with `<=` (`TypeOK`).

### Fairness and liveness

No liveness property is checked, and no fairness is assumed. Every
operation of this file is a bounded, straight-line function. That it
returns says nothing a reviewer would argue about. The packet arrivals,
saves and reloads that drive the file come from schedulers outside
`src/`, which promise nothing. The one unbounded loop, the collision loop
of `pickNewNodeNum`, ends with probability 1 on a 64-bit build, which TLC
cannot show. On a 32-bit build it need not end at all. That is a state the
model reaches (`BootHang`), and `nodedb_hang` shows it as a safety
violation of the history flag `pickHung`.

## 4. Proofs

`NodeDB_proofs.tla` proves, for every value of the constants that satisfies
the module's `ASSUME`s:

- `TypeCorrect`: `Spec => []TypeOK`;
- `UniqueNumsHold`: `Spec => []UniqueNums`;
- `NodeNumValidHolds`: `Spec => []NodeNumValid`;
- `PrimaryIntact`: `Spec => []PrimaryNeverPartial`.

The assumptions are: a positive capacity, `NumReserved < Broadcast`, a
number range larger than the capacity, and distinct file markers. Every
`DeviceState` in the initial flash must also have unique numbers.

All four follow from the inductive invariant `IInv`, which is the four
properties plus `SaveInv`: while a save is removing or renaming, `tmp`
holds a whole `DeviceState`. `PrimaryNeverPartial` alone is not inductive,
because `SaveRename` copies `tmp` into `primary`. `SaveInv` says that
`SaveEncode` only moves on to removing after a successful encode. TLC also
checked `IInv` as an invariant of `nodedb_safety`.

The argument follows the structure of the proof:

- Lemmas on the helpers:
  - `getNode` finds the unique slot or returns 0;
  - `getOrCreateNode` keeps the table unique and typed;
  - `SetUser` changes only users;
  - `PickNodeNum` yields only valid numbers;
  - every outcome of `loadFromDisk` is typed and unique.
- One lemma per action shows that it preserves `IInv`.
- `NextIInv` combines them.

`NodeTableISR_proofs.tla` proves, for every capacity and every set of
nonzero keys:

- `ISRTypeCorrect`: `Spec => []TypeOK`;
- `IsrLookupCorrect`: `Spec => []IsrSeesCommitted`;
- `Refinement`: `Spec => ImplementsAtomicTable`, which is `Abs!Spec`.

All three follow from the inductive invariant `IInv`, which has four parts
beyond `TypeOK`:

- while an append is in progress, the count is positive and `pending` is a
  key;
- every slot past the finished ones is zero, because wipes zero all slots
  and the slot being built stays zero until its `num` is written;
- the finished slots are distinct;
- the number being appended is in no earlier slot, because the lookup in
  `Claim` missed it.

TLC also checked `IInv` on the `nodetable_isr` instance.

The lookup results are proved without induction:
- distinctness makes the matching slot unique, so it is the first;
  `LookupInHit` and `AbsLookupHit` identify both `CHOOSE`s with it;
- a zero slot never matches a nonzero key.

For the refinement:
- `Init` maps to `Abs!Init`;
- `StepRefines` maps `SetNum` to `AddRecord(pending)`, using the fourth
  part of `IInv` for its guard;
- `Overflow` and `Wipe` map to `Reset`;
- the other steps leave the finished slots unchanged.

`NodeCatalog_proofs.tla` proves, for every capacity, sender set, user
set, width, threshold and set of times allowed by `CatalogAssumption`:

- `CatalogTypeCorrect`: `Spec => []TypeOK`;
- `UserEventIffChangedHolds`: `Spec => UserEventIffChanged`;
- `FlagsMonotoneHolds`: `Spec => FlagsMonotone`;
- `OnlineCountBeforeWrap`: if every clock value and every position time is
  below `SignBit`, then `Spec => []OnlineCountMatchesSpec`.

The inductive invariant `IInv` is `TypeOK` plus `Distinct(nodes)`: no two
records share a number. `TypeOK` alone is not inductive. A duplicate number
would let `getOrCreateNode` return a slot whose record is not the one the
next lookup finds, and then the sender's flags and user could not be
followed from one step to the next. TLC also checked `IInv` on the
`catalog_safety` instance.

The argument:
- Lemmas on the helpers:
  - `SlotOf` finds the unique slot, or one past the end;
  - `getOrCreateNode` appends a zero record only for a new number;
  - `Received` rewrites only the sender's slot, keeping its number.
- `RecvFacts` states what the common part of every packet handler does.
  `SlotWrite` states what writing the sender's record back does:
  - the table stays typed, distinct and within capacity;
  - the sender sits at its slot with flags no lower than before;
  - every other node keeps its record.
- `PositionStep`, `UserStep`, `DataStep` and `QuietStep` cover the actions.
  `NextIInv` combines them.
- For each action property, `NextActions` shows that every step of `Next`
  satisfies the action. The `[][A]_vars` theorems then follow by temporal
  logic from `Spec => []IInv`.

The hypothesis of `OnlineCountBeforeWrap` is the real condition, not a
convenience. The `catalog_y2038` run shows the property failing once a time
reaches `SignBit`. Below it, `SinceAgrees` shows that the wrapped
difference, reinterpreted as an int and clamped, equals the spec's clamped
difference. In that range the wrapped difference is `t - p` when
`t >= p`. Otherwise it is at least `SignBit`, so the cast makes it
negative and the clamp makes it 0. The two sets that are counted are then
equal.

`ChannelConfig_proofs.tla` proves, for all key, name, modem, bandwidth and
tx-power sets allowed by `ChannelAssumption`:

- `ChannelTypeCorrect`: `Spec => []TypeOK`;
- `ActiveKeyCorrect`: `Spec => []ActiveKeyIsWritten`;
- `ReloadStable`: `Spec => []StableUnderReload`.

No induction over behaviours is needed beyond `Reach`. Every step replaces
the whole state by a `resetRadioConfig` result, so "the state is
`resetRadioConfig(c, f)` for some written `c` and some `f`" holds after
every step. TLC also checked `Reach` on `channel_config`. The properties
follow from lemmas on the stages of `resetRadioConfig`:
- the default channel makes the key non-empty;
- the name migration removes `"Default"`;
- the key migration removes the full default key and preserves the fields
  the name depends on.

So the stored settings are a fixed point of every stage, and a second call
changes nothing. For the key in use:
- the default channel stores the key an empty key means (`DefaultChannelKey`);
- the name migration keeps the key;
- the key migration keeps its expansion, because index 1 expands to the
  default key itself (`ExpandIndexOne`, `MigratePskExpand`).

So `activePSK` is the expansion of the key the phone meant (`StoredKey`).
`Reach` records `pskWritten` with the rest of the state. `ExpandMatchesSpec` shows that `ExpandPsk` equals the
spec's `SpecKey` on every byte sequence.

Only TLC checks these:
- `BootKeepsPeers`;
- the `getChannelName` properties, which need `Bitwise` and the recursive
  folds of `SequencesExt` (out of the prover's reach; they are kept in
  `ChannelName.tla` for that reason);
- the findings;
- the behaviour of the online count past `SignBit`.

Liveness is also out of the prover's reach.

## 5. Not modelled

- **`recordCriticalError`.** It sets fields that no other operation of the
  file reads.
- **External collaborators.** Crypto, `initRegion`, plugins, the observers,
  the GUI and the power FSM are outside `src/`. Only the decisions this
  file makes about when to signal them are modelled, in NodeCatalog.
- **How many times the collision loop runs.** The model keeps only the
  values the loop can end with, and whether there is none.
- **Bytes after a string terminator in `User`.** `updateUser` compares
  with `memcmp`. Users are modelled as values compared for equality,
  because the decoder that fills the padding is outside `src/`.
- **The window between a phone's write of channel settings and the
  reload.** The caller does both in one handler, so `SetChannel` is one
  step.
