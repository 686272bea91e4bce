# TLA+ models of the geode-native client

This directory holds TLA+ models of the C++ native client in `src/`,
the TLC configurations that model-check them, and TLAPS proofs about them.
The core is the PDX type registry (`src/src/cppcache/src/PdxTypeRegistry.cpp`),
which `spec.md` names as the load-bearing component.

## 1. Inventory of the code

| Part | Source | State | Operations that change state |
|---|---|---|---|
| PDX schema tables | `PdxTypeRegistry.cpp` | `typeIdToPdxType`, `localTypeToPdxType`, `remoteTypeIdToMergedPdxType`, `pdxTypeToTypeIdMap`, the id field of each `PdxType`; `g_readerWriterLock` | `init`, `cleanup`, both `getPDXIdForType`, `addPdxType`, `addLocalPdxType`, `setMergedType`, `clear` |
| Enum codec cache | `PdxTypeRegistry.cpp` | `enumToInt`, `intToEnum` (same lock) | `getEnumValue`, `getEnum`, `clear` |
| Preserved-data store | `PdxTypeRegistry.cpp` | `preserveData`, `g_preservedDataLock`, one expiry task per entry in `CacheImpl::expiryTaskManager` | `setPreserveData`, `clear`, and the expiry handler (not in `src/`) |
| Distributed-system lifecycle | `DistributedSystem.cpp` | `m_connected`, `m_instance_ptr`, `m_impl`, `g_sysProps`, `g_statMngr`, `CacheImpl::expiryTaskManager`; `g_disconnectLock` | `connect` (with four error paths), `disconnect` |
| Statistics archive | `statistics/StatArchiveWriter.cpp` | resource-type and resource-instance maps, `resourceInstId`, previous timestamp, output buffer and its byte counters | constructor, `sample`, `sampleResources`, `allocateResourceInst`, `writeCompactValue`, `writeTimeStamp`, `flush`, `openFile`, `close`, `closeFile` |
| Reference count | `SharedBase.cpp` | atomic counter | `preserveSB`, `releaseSB` (delete at 0) |
| Object pool | `PooledBasePool.cpp` | deque under a spinlock | `returnToPool`, `takeFromPool`, `clear` |
| Event-id map, FunctionService, .NET wrappers, headers, tests, quickstart | | declarations, stateless factories, forwarding wrappers, examples | none of their own |

How the parts interact: `DistributedSystem::connect` creates and starts the
`ExpiryTaskManager` that `setPreserveData` schedules on, and `disconnect`
stops and deletes it. Many client threads call the registry concurrently:
deserialisation looks up types and stores preserved data, and serialisation
asks for type ids and enum codes. The type ids and enum codes come from the
server through `SerializationRegistry`. The expiry handler runs on the task
manager's single timer thread.

What makes the registry hard to get right:

- **Unlocked reads and writes.** The reverse index is found and inserted into
  with its `WriteGuard` commented out. `getMergedType` takes no lock, and the
  first find of each enum lookup takes no lock.
- **Double-checked locking.** The enum maps use an unlocked find, then the
  write lock, a re-check and the server call.
- **Two-step publication.** The reverse entry is inserted before
  `addPdxType` runs.
- **Expiry tasks.** A refresh resets an existing task and keeps its id, while
  the timer thread may already have dispatched that task.
- **clear.** It empties the tables and the preserved data but leaves the
  tasks scheduled.

## 2. Modules

### `PdxTypeRegistry.tla`: the registry

**State.** One variable per table of the code. Each table is a total
function from its key set to its values plus `None`, which stands for an
absent key:

- `std::map::insert` and `emplace` are `Insert`, which keeps an existing value.
- `operator[]` is `Put`.
- `clear()` is `EmptyMap`.

The other variables:

- `typeIdField` is `PdxType::m_geodeTypeId` of each descriptor.
- `writer` is the holder of `g_readerWriterLock` for writing. A read-locked
  step needs `writer = NoThread`.
- The expiry tasks are `taskState`, `taskOwner` and `taskArm`. `taskArm` holds
  the blob version when the task was last armed.
- `sets` and `nextTask` count calls, and are bounded by `MaxSets` and
  `MaxTasks`.
- `serverCalls` counts enum negotiations since the last clear.
- `pc` and `arg` record each thread's position inside a call.

**Actions.** A call that touches a table without the lock, or holds the lock
across several accesses, is split into one action per access. The thread's
`pc` names the access it performs next:

| Call | Actions |
|---|---|
| `getPDXIdForType(nType, pool)` | `CallGetPDXIdForType`, `RevFind` (find, server call, `setTypeId`), `RevInsert`, `AddType` |
| `getEnumValue` | `CallGetEnumValue`, `GetEnumValueFind`, `GetEnumValueLock`, `GetEnumValueLocked` |
| `getEnum` | `CallGetEnum`, `GetEnumFind`, `GetEnumLock`, `GetEnumLocked` |
| `clear` | `ClearLock`, `ClearTables`, `ClearPreserved` |
| `setMergedType` | `SetMergedTypeLock`, `SetMergedTypeInsert` |
| `getMergedType` | `CallGetMergedType`, `GetMergedType` |

`GetEnumValueLocked` is the re-check, server call and emplace. `GetEnumLocked`
is the same and ends with `operator[]`. `ClearTables` empties the six tables
and `ClearPreserved` empties the preserved data.

Calls made entirely inside one critical section are a single action:
`GetPDXIdForLocalType`, `AddLocalPdxType`, `AddPdxType` and `SetPreserveData`.

**The server.** It is an injective map, `TypeIdOf` or `EnumCodeOf`. A server
call may also fail. A failure throws before anything is written, so it is the
disjunct that ends the call with the tables unchanged.

**Expiry.** `ExpiryTaskManager` and `PreservedDataExpiryHandler` are not in
`src/`, so `ExpiryFire` and `ExpiryHandle` are modelled from spec sections 4.2
and 6:

- A single timer thread dispatches one due task at a time.
- The handler, under the preserved-data lock, removes its owner's entry only
  if the entry still carries this task's id.
- `resetTask` re-arms a pending task. On a task already dispatched it does
  nothing, which is the "fails gracefully" option of spec section 6.

**Fairness.** Weak fairness on `ExpiryFire` and on `ExpiryHandle`. The timer
thread keeps dispatching due tasks. No caller holds `g_preservedDataLock`
across steps, since `setPreserveData` is one action, so a handler that is
ready stays ready until it runs. Client threads get no fairness, because a
client may stop calling.

### `EnumCodec.tla`: what the enum cache promises

An abstract specification of the enum codec cache, with no threads and no
locks:

- the two maps `enumToInt` and `intToEnum`, and `serverCalls`, the number of
  server negotiations per enum or code since the last clear;
- `ResolveValue(e)` and `ResolveEnum(c)`: a key that is not cached is asked
  of the server and stored in one atomic step;
- `Clear` empties both maps.

`PdxTypeRegistry` instantiates it as `Codec` with the identity mapping on
these three variables. The thread state (`pc`, `arg`, `writer`) is hidden.
`EnumCodecRefined == Codec!Spec` states that the double-checked locking of
`getEnumValue`/`getEnum` implements the atomic steps:

- the locked re-check that finds the key absent is `ResolveValue` or
  `ResolveEnum`;
- the re-check that finds it present, and every unlocked find, is a stutter.

### `MCPdxTypeRegistry.tla`: the instance for TLC

The schemas `s1, s2`, enums `e1, e2` and owners `o*` are model values. The
server numbers schemas and enums 1, 2, ...

### `DistributedSystem.tla`: connect and disconnect

**State.** The process-wide objects `DistributedSystem.cpp` creates and
releases, each kept as the state of its pointer:

- `connected` (`m_connected`) and `instance` (`m_instance_ptr`).
- `sysProps` (`g_sysProps`). It is `"fresh"` when built by the current call
  and `"stale"` when left by an earlier one.
- `statMngr`, `impl`, `tcr` (TcrMessage's buffers), `lib` and `logOpen`.
- `etm` (`CacheImpl::expiryTaskManager`).
- `orphans`, the started task managers no pointer refers to any more. It is
  bounded by `MaxOrphans`.

**Actions.** `connect` and `disconnect` hold `g_disconnectLock` for their
whole body, so each call is one step. Every exit of `connect` is an action of
its own:

| Action | Exit |
|---|---|
| `ConnectNullName` | the name is null |
| `ConnectTcrFail` | `TcrMessage::init` fails |
| `ConnectLogFail` | `Log::init` throws |
| `ConnectProductDirFail` | `getProductDir` throws |
| `ConnectStatsFail` | `StatisticsManager::initInstance` throws |
| `ConnectImplFail` | `m_impl->connect()` throws |
| `ConnectOk` | success |

Each action releases exactly what that exit of the code releases. The throws
that change nothing are not steps: already connected, or `disconnect` when not
connected. `InitLib` stands for `isConnected` and `getInstance`, which
initialise the library without the lock.

**Fairness.** None. No client is obliged to connect, and the model states
only safety.

### `StatEncoding.tla`: the archive's byte encodings

`writeCompactValue` (the stat deltas), `writeResourceInst` (the instance ids)
and `writeTimeStamp` (the sample time deltas) are pure operators. Each maps
an integer to the sequence of signed bytes `StatDataOutput` receives. The two
sign-extension loops of `writeCompactValue` (`NegLoop`, `PosLoop`), the
stripping of `-1` bytes (`StripOnes`) and the sign bytes (`NegBuffer`,
`PosBuffer`) are kept one to one. `>>=` on a signed value is floor division.
`static_cast<int8_t>` keeps the low byte (`Int8`).

The widths are scaled so that every argument can be enumerated: a byte has
`ByteBits` bits, an int32 `IntBytes` bytes and an int64 `LongBytes` bytes. The
runs use 4, 3 and 4. The format constants are in the StatArchiveFormat
header, which is not in this repository. They are defined relative to the
widths, as the 8-bit format defines them:

- the compact 1-byte range ends `LongBytes - 1` above the byte minimum, one
  token per multi-byte length;
- the top three unsigned byte values are the instance-id tokens;
- the top unsigned short is the int-timestamp token.

`ReadCompactValue`, `ReadResourceInstId` and `ReadTimeStamp` are the format's
reader, the reference each encoding is checked against. A harness variable
`arg` walks the whole int64 range and wraps at the top. The module declares
RECURSIVE operators and is only model-checked.

### `StatArchive.tla`: the archive writer

The state follows the writer:

- `inst` is `resourceInstMap`. Each entry holds the id, `archivedStatValues`,
  `firstTime` and the `StatDataOutput` it writes to.
- `typeMap` is `resourceTypeMap`.
- `nextInstId` is `resourceInstId`.
- `statsList` and `newStats` are the sampler's two lists.
- `life` is each `Statistics` object's state: absent, open, closed or deleted.
- `value` is each object's values.
- The archive is `old` (the files rolled out of), then `file` (the flushed
  records), then `pending` (the buffer).

There is one record per token the writer emits: type, create, delete, sample,
instance values, end of sample.

`sample` and the constructor hold the stat-list mutex, so they are split only
where the code loops:

- `Construct`, then `ResampleStep` for each list position, then
  `ResampleDone`;
- `SampleBegin`, then `AllocNew` for each new statistics, then the
  closed-statistics loop of `sampleResources` one iteration per step, with
  `cur` as its iterator. `ScanSkip` passes over a statistics that is not
  closed. `ScanErase` handles a closed one: it writes the delete token (if
  the statistics has a `ResourceInst`), erases the map entry, deletes the
  object, erases it from the list (`EraseAt` is `std::vector::erase`) and
  restarts at the front. `ScanDone` ends the loop and writes the sample
  token. Then comes `WriteSample` or `WriteSampleClosed` for each map entry in
  any order, then `SampleEnd`.

`AllocateResourceInst` is the whole of `allocateResourceInst` together with
`getResourceType`. `Flush` and `OpenFile` are the sampler thread's other
calls. The rest of the process adds statistics under the mutex (`AddStats`).
It closes them (`CloseStats`) and updates them (`SetValue`) at any time, since
neither takes that lock. A write through a deleted `StatDataOutput` is
undefined, and is modelled as lost.

`close()` is `Close` (its `sample()`, up to the writes) and then `CloseEnd`
(the end-of-sample token, the buffer's flush and `fclose`). After it the
writer is `closed` and the sampler stops. `closeFile` is `CloseFile`, which
only closes the `FILE*`. The byte counters of `StatDataOutput` are counted in
records, one per token, since every counter is a sum over the writes. A
string record (the header, a type or a create; `StrKinds`) takes one unit
more in the buffer than it adds to the count, for the length prefix that
`writeString` and `writeUTF` do not count; `ByteSize` is the size of a
sequence of records in those units:

- `written` is `bytesWritten`;
- `toFile` is `bytesWrittenToFile`;
- `sampleSize` is `m_samplesize`.

The helpers `Emit`, `NewOutput`, `OutputFlush`, `ResetBuffer` and
`OutputClose` are `writeByte`, the `StatDataOutput` constructor, `flush`,
`resetBuffer` and `close`.

`None`, the absent map entry, is assumed to be no `ResourceInst`
(`NoneAssumption`), as `nullptr` is no object.

No fairness is assumed: the properties are safety.

### `ArchiveLog.tla`: what the archive promises its reader

The abstract archive, with no writer, buffer or files: a log of records that
only grows, the set `live` of instances announced and not yet ended, and
`nextId`. `Write` appends records that neither create nor delete an
instance. `Create` appends such records followed by one create record that
carries `nextId`. `Delete` appends a single delete record for a live
instance. `StatArchive` instantiates it as
`Log == INSTANCE ArchiveLog WITH log <- Archive, live <- InstIds, nextId <- nextInstId`.
Here `Archive` is `old \o file \o pending` and `InstIds` is the set of ids in
`resourceInstMap`. `ArchiveLogRefined == Log!Spec` is checked on the
rollover run and proved (section 4). Under the mapping:

- `writeSample`, the header and type writes, and the end marker of `close`
  are `Write`;
- `allocateResourceInst` is `Create`: its type record is quiet and its
  create record is last;
- the erase in `sampleResources` is `Delete`;
- `flush`, `openFile`, `closeFile` and the steps that write nothing are
  stutters of the log.

### `StatArchiveProofs.tla`: the archive writer's proofs

It extends `StatArchive` and proves its safety invariants and its action
property for every set of statistics, types and descriptors and every bound.
It also proves the refinement of `ArchiveLog` (section 4).

### `PdxTypeRegistryProofs.tla`: the proofs

These proofs hold for every value of the constants (section 4).

### `EnumCodecProofs.tla`: the refinement proof

It extends `PdxTypeRegistryProofs` and proves that the registry implements
`EnumCodec`, and from that the enum bound (section 4).

## 3. Runs

| Run (cfg) | Instance | Checks | Result |
|---|---|---|---|
| `type_tables` (`MCTypeTables.cfg`) | 2 threads, 2 schemas, 2 enums | `RevResolvable`, `EnumNegotiatedOnce`, `EnumCodecRefined` (refinement) | pass, about 2.1M states |
| `preserved_data` (`MCPreservedData.cfg`) | 2 threads, 2 owners, 3 sets, 3 tasks | `TypeOK`, `EntryHasLiveTask`, `NoLeak` (liveness) | pass |
| `race_free` (`MCRaceFree.cfg`) | 2 threads, 1 schema, 1 enum | `RaceFree` | violation |
| `refresh_race` (`MCRefreshRace.cfg`) | 1 owner, 2 sets, 1 task | `ExpiryRemovesOnlyStale` | violation |
| `clear_expiry` (`MCClearExpiry.cfg`) | 1 owner, 2 sets, 1 task | `ClearCancelsExpiry` | violation |
| `lifecycle` (`MCLifecycle.cfg`) | `DistributedSystem`, up to 2 orphans | `ConnectedHasResources` | pass, 131 states |
| `orphan_timer` (`MCOrphanTimer.cfg`) | same | `OrphanFree` | violation |
| `stale_properties` (`MCStaleProperties.cfg`) | same | `FreshProperties` | violation |
| `compact_encoding` (`MCStatEncoding.cfg`) | `StatEncoding`, 4-bit bytes, every int64 | `CompactRoundTrip`, `CompactFitsBuffer`, `InstIdRoundTrip`, `TimeStampRoundTrip` | pass, 65,536 states |
| `archive_values` (`MCArchiveValues.cfg`) | `StatArchive`, 2 statistics of 1 type, 1 descriptor, values 0..1, 3 samples | `TypeOK`, `ReaderMatches` | pass, about 3.7M states |
| `archive_rollover` (`MCArchiveRollover.cfg`) | 2 statistics of 2 types, 2 samples, 1 rollover, flushes and close | `LiveIds`, `NoDanglingResource`, `BytesCounted`, `ArchiveAppendOnly` (action property), `ArchiveLogRefined` (refinement) | pass, about 2.86M states |
| `rollover` (`MCRollover.cfg`) | 1 type, 2 samples, 1 rollover | `RolloverConsistent` | violation |

### Passing properties

- **`RevResolvable`.** An id that `getPDXIdForType` can answer from the
  reverse index resolves in `typeIdToPdxType`. The one exception is while the
  inserting thread is between `RevInsert` and `AddType`. A `clear()` that
  overtook such a thread is harmless only because `addPdxType` comes last.
- **`EnumNegotiatedOnce`.** The double-checked locking asks the server about
  each enum or code at most once between clears.
- **`EnumCodecRefined`.** The registry's enum cache implements `EnumCodec`
  (above). This holds across the interleavings of two threads resolving the
  same enum, or an enum and its code, and across a `clear()` between an
  unlocked find and the locked re-check.
- **`EntryHasLiveTask`.** Every entry's task id names a pending or running task
  of the same owner.
- **`NoLeak`.** Every entry is eventually evicted.
- **`ConnectedHasResources`.** While connected, every object `disconnect`
  asserts on or dereferences exists: the properties, the statistics manager,
  a running task manager, `m_impl`, the buffers and the instance.

- **`CompactRoundTrip`, `InstIdRoundTrip`, `TimeStampRoundTrip`.** The
  format's reader reads each encoding back as the argument and consumes
  exactly the bytes written. This covers every int64 delta, every instance id
  including the end marker -1, and every non-negative timestamp delta.
- **`CompactFitsBuffer`.** The general branch never collects more bytes than
  an int64 has, so `int8_t buffer[8]` cannot overflow.
- **`ReaderMatches`.** Between samples, a reader replaying the archive (a
  create starts an instance at zero, an instance record adds its deltas)
  holds, for every sampled statistics, exactly what `writeSample` last
  archived. This holds across closes between `sampleResources` and
  `writeSample`, across updates at any time, and across statistics added
  before construction.
- **`LiveIds`.** The instances created and not deleted in the archive are
  exactly those of `resourceInstMap`.
- **`NoDanglingResource`.** No `ResourceInst` refers to a `Statistics` object
  that `sampleResources` has deleted.
- **`BytesCounted`.** Until `close()`, `bytesWrittenToFile` lies between
  the number of records flushed to all the archive's files and their size
  in bytes (`ByteSize`), and `bytesWritten` lies between the number of
  records in the buffer and its size. The count never overstates the bytes.
  It falls short of them by one unit for each header, type or create
  record: `writeString` and `writeUTF` add only the string's characters
  (lines 122, 128), not the length prefix that `writeASCII` and `writeUTF`
  put in the buffer. That shortfall grows with every flush and is carried
  across rollovers into `bytesWrittenToFile`. Only `openFile` re-counts the
  buffer it copies one `writeByte` at a time, so the new output's count is
  its size exactly. `close()` itself flushes without adding to
  `bytesWrittenToFile`, so its last sample goes uncounted. That is recorded
  as a hazard, not a finding, because the spec says nothing of the count at
  close.
- **`ArchiveAppendOnly`** (an action property). No step loses or changes a
  token already written: every step appends to `old \o file \o pending` or
  leaves it alone. The interesting steps move records between the three:
  `flush` moves the buffer to the file, `openFile` moves the file among the
  earlier ones and copies the unflushed bytes into the new output, and
  `close` flushes the rest.
- **`ArchiveLogRefined`** (refinement). The archive read as a log is a
  behaviour of `ArchiveLog`. A create record always carries an id never
  used before. A delete record ends only an instance that is live. No step
  creates or deletes more than one instance, and the live set moves with
  the records.

### Violations (each is a finding in `PROJECT.json`)

1. **Unlocked table access (`race_free`).** The unlocked reverse-index,
   merged-type and enum finds race with `clear()` and with writers. Spec
   section 5 forbids this.
2. **Refresh racing an expiry (`refresh_race`).** The trace is:
   `setPreserveData` v1, then the timer dispatches the task, then
   `setPreserveData` v2. The reset cannot re-arm the dispatched task, and the
   id is kept, so the handler evicts v2. This contradicts spec section 4.2
   and the refresh test of section 8.
3. **clear leaves tasks behind (`clear_expiry`).** After `clear()` a task is
   still pending for an entry that is gone. Spec sections 4.2 and 8 say clear
   cancels them.
4. **Orphaned task manager (`orphan_timer`).** `connect` starts a new
   `ExpiryTaskManager` before `m_impl->connect()`. When that call throws, the
   manager keeps running and `m_connected` stays false, so `disconnect`
   refuses. A retried connect then overwrites the pointer, and the first timer
   thread can never be stopped.
5. **Stale properties on retry (`stale_properties`).** Three exits of
   `connect` leave `g_sysProps` set: `TcrMessage::init`, `getProductDir` and
   `m_impl->connect`. A retried `connect` then ignores its own `configPtr`.

6. **`openFile` leaves the writer inconsistent (`rollover`).**
   `RolloverConsistent` has two halves, and each fails on its own:
   - `OutputLive`: each `ResourceInst` keeps the `StatDataOutput*` it was
     built with (line 174). `openFile` deletes that object (line 447). The
     next `sample()` then writes every changed value through the deleted
     buffer.
   - `FileSelfContained`: only the unflushed bytes are copied into the new
     file. Nothing re-archives the types and instances. The
     only call after the swap, `sample()` at line 450, is commented out, and
     it would write a sample, not the definitions. After a flush and a rollover, the new file's
     records use ids it never defines.

### Bounds

- Two threads are enough for every race above, because each race is between
  two callers.
- Two schemas let one thread's reverse insert meet another thread's
  different type.
- Two enums give two codes, so the refinement sees resolves of different
  keys interleave, and an enum resolved by value while its code is resolved
  by code.
- Three `setPreserveData` calls and three tasks allow a new entry, a refresh,
  an expiry and a re-creation after expiry or clear, for two owners.
- The violation runs use the smallest instance that exhibits the trace.
- The lifecycle model is finite apart from `orphans`. Two orphans cover a
  retry after a retry.

- The encodings are checked for every argument at the scaled width. The
  scaling keeps every branch: 1-byte, 2-byte and each multi-byte length for
  compact values; byte, short and int for ids; short and int for timestamps.
- In the archive, two statistics let one be closed while the other is
  sampled, and let one be added before construction and one after. Three
  samples let a value change, stay unchanged and change again. The rollover
  run takes two samples, because it also has flush, `closeFile` and `close`
  to interleave; two samples still put a flush and a rollover between
  samples. One rollover is the case both rollover findings need. Values `0..1` distinguish a
  changed from an unchanged descriptor. The runs turn deadlock checking off,
  because the sampler stops at the bound on samples and after `close()`.

### Mutants

Each passing property fails under a plausible bug:

| Mutant | Property it breaks |
|---|---|
| `RevInsertNoAdd`: the insert without `addPdxType` | `RevResolvable` |
| `GetEnumValueLockedNoRecheck`: no re-check under the lock | `EnumNegotiatedOnce` |
| `SetPreserveDataNoTaskId`: the refresh forgets `setPreservedDataExpiryTaskId` | `TypeOK` |
| `ResetTaskCancels`: the refresh cancels the old task instead of re-arming it | `EntryHasLiveTask` and `NoLeak` |
| `ConnectImplFailConnected`: `m_connected` is set before `m_impl->connect()` | `ConnectedHasResources` |

| `CompactBufferNoNegPad`: no `-1` sign byte for a negative value | `CompactRoundTrip` |
| `PosBufferPadInverted`: the zero sign byte added on the wrong condition | `CompactFitsBuffer` |
| `writeResourceInstNoInt`: ids past the short range written as a short | `InstIdRoundTrip` |
| `writeTimeStampAtToken`: the short/int bound set at the token | `TimeStampRoundTrip` |
| `WriteSampleArchivesDelta`: the delta is archived instead of the value | `TypeOK` (of `StatArchive`) |
| `WriteSampleNoArchive`: the archived values are never updated | `ReaderMatches` |
| `AllocNewNoCheck`: no `resourceInstMapHas` check | `LiveIds` |
| `ScanEraseKeepsInst`: the map entry of an erased statistics is kept | `NoDanglingResource` |
| `OpenFileNoCopy`: `openFile` without the loop copying the unflushed bytes | `ArchiveAppendOnly` |
| `AllocNewNoCheck`: no `resourceInstMapHas` check | `ArchiveLogRefined` |
| `OpenFileSampleSize`: the new buffer's count starts at `m_samplesize`, as the commented-out call at line 427 would | `BytesCounted` |
| `GetEnumLockedNoRecheck`: `getEnum` calls the server without the locked re-check | `EnumCodecRefined` |

## 4. Proofs

`PdxTypeRegistryProofs.tla` proves `THEOREM TypeCorrect == Spec => []TypeOK`
for all constants that satisfy `ConstantsAssumption`:

- the server maps are injective into `Nat`;
- `TypeIdOf` is never 0;
- `None` and `NoThread` are fresh;
- the bounds are naturals.

`TypeOK` includes the typing of each thread's argument by its `pc`, which
makes it inductive as it stands. The proof has one step per action. Actions
with several outcomes are split by `CASE` into their disjuncts. Lemmas
`InsertType`, `PutType`, `EraseType` and `ServerAnswers` state once what the
map helpers and the server return.

The same module proves two of the registry's safety invariants. Neither is
inductive as it stands, so each is proved with a strengthening that TLC also
checks on the `type_tables` and `preserved_data` instances.

- **`ReverseIndexResolvable`** (`Spec => []RevResolvable`). The
  strengthening is `RevIds`: a reverse-index entry holds its own schema's
  `TypeIdOf`. Without it, the `addPdxType` of a thread would not be known to
  resolve the entry it inserted.
  - The lemma `RevFrame` covers every step that leaves the reverse index
    alone, removes no id from `typeIdToPdxType`, and keeps each thread bound
    for `addPdxType` where it is (`WitnessesKept`).
  - Only `RevInsert`, `AddType` and `ClearTables` need their own argument.
- **`EntriesHaveLiveTasks`** (`Spec => []EntryHasLiveTask`). The
  strengthening is `TasksIssued`: an entry's task id is among those already
  scheduled, so the task that `setPreserveData` schedules next belongs to no
  entry yet.
  - A refresh keeps a task id that `resetTask` does not cancel.
  - The handler of a task erases the entry that still names it, and the
    task's owner is that entry's object.
  - Every other step is covered by `LiveFrame`.

Both proofs use `TypeCorrect` for the typing they need.

`DistributedSystemProofs.tla` proves two theorems for every `MaxOrphans`
in `Nat`:

- **`TypeCorrect`.** It is proved in two halves, because the SMT backend
  cannot type Boolean-valued variables and Zenon has no arithmetic:
  `TypeFlags`, the Boolean flags, by Zenon; `TypePointers`, the pointer
  states and the count, by SMT.
- **`ResourcesWhileConnected`** (`Spec => []ConnectedHasResources`).
  `ConnectedHasResources` is inductive by itself. `ConnectOk` is the only step
  that sets `connected`, and it creates everything. Every other exit of
  `connect` requires `~connected` and leaves it false. `Disconnect` clears
  `connected`. `InitLib` touches only the library.

`EnumCodecProofs.tla` proves the refinement and the enum bound, for all
constants that satisfy `ConstantsAssumption`. This needs one more assumption:
an enum is never a code (`Enums \cap Codes = {}`). The code keys its two
maps by different types.

- **`EnumCodecRefinement`** (`Spec => Codec!Spec`). The initial maps are
  empty in both specs. Each step of `Next` maps to a step or a stutter:
  - `GetEnumValueLocked` is `ResolveValue` when its re-check finds the enum
    absent, and a stutter otherwise;
  - `GetEnumLocked` is `ResolveEnum` in the same way;
  - `ClearTables` is `Clear`;
  - every other action leaves the two maps and the counts alone.
  `TypeOK`, from `TypeCorrect`, gives the type of the thread's argument.
- **`CodecCallsBounded`** (`Codec!Spec => []Codec!CallsBounded`). It is
  proved in the abstract spec with the inductive `CallsMatch`: a key's count
  is 1 when its map holds it and 0 otherwise. The disjointness of enums and
  codes keeps a resolve of one kind from touching the other kind's counts.
- **`NegotiatedOnce`** (`Spec => []EnumNegotiatedOnce`). It follows from
  the two theorems above by PTL. The strengthening that the direct proof
  would need, about the threads holding the write lock, is not needed: the
  abstract spec has no threads.

`StatArchiveProofs.tla` proves eight theorems about the archive writer, for
all constants that satisfy `BoundsAssumption` (values are integers, 0 among
them; the bounds are naturals) and `NoneAssumption`. The archive's records
are typed by `Recs`, the set of every token the writer emits.

- **`TypeCorrect`** (`Spec => []TypeInv`). `TypeInv` is `TypeOK` and four
  more facts:
  - the three parts of the archive are sequences of `Recs`;
  - every entry the map loop still has to visit has a `ResourceInst`
    (`WriteTargets`);
  - the iterator is at least 1;
  - within a sample `m_samplesize` is at most `bytesWritten`.
  The lemmas `RecordsTyped`, `InstTyped` and `AllocTyped` state what each
  write emits and what `allocateResourceInst` builds.
- **`DanglingHolds`** and **`NoDangling`** (`Spec => []NoDanglingResource`).
  `NoDanglingResource` is not inductive. An erase could leave a second,
  live copy of the statistics in the list, and an allocation could be made
  for a deleted one. The strengthening `DanglingInv` says that every listed
  statistics is open or closed (`ListsLive`) and is listed once (`NoDup`).
  The erase is proved one index at a time through `EraseAt`.
- **`BytesAccounted`** (`Spec => []BytesCounted`). It is inductive together
  with `TypeInv`: a write adds its records to the buffer and their counted
  size to the count, `Flush` moves both on, and `OpenFile` hands the new
  output the buffer and its exact size. The bounds rest on three lemmas
  about `ByteSize`. `ByteSizeType` says the size is a natural at least the
  length. `ByteSizeEmpty` says the empty sequence has size 0.
  `ByteSizeConcat` says the size of a concatenation is the sum of the sizes.
  `ByteSize` is a length plus the cardinality of a set of indices, not a
  recursive sum, so that last lemma needs no induction. The string indices
  of `a \o b` split into those of `a` and a disjoint copy of those of `b`
  shifted by `Len(a)`, and an explicit bijection gives the copy's size.
- **`TypeOKHolds`** (`Spec => []TypeOK`) follows from `TypeCorrect`.
- **`FreshHolds`** and **`LiveIdsHold`** (`Spec => []LiveIds`). `FreshHolds`
  proves `IdsFresh /\ LiveIds` inductive. The strengthening is `IdsFresh`,
  which TLC checked on the rollover instance before the proof:
  - `IdsDistinct`: the map's ids are distinct and below `resourceInstId`, so
    a create adds a new id and a delete removes the id of one entry only;
  - `NoInstBeforeCtor`: before the constructor, and in its loop ahead of the
    iterator, no listed statistics has a `ResourceInst`, so every create the
    loop writes enters the map. `NoDup` from `DanglingHolds` keeps the
    entries after the iterator untouched.
  The lemmas `LiveAppendQuiet`, `LiveAppendCreate` and `LiveAppendDelete`
  say what appending records does to the live ids. `ArchiveEmit` and
  `ArchiveMoves` say what a write, a flush, a rollover and a close do to
  the archive.
- **`AppendOnly`** (`Spec => ArchiveAppendOnly`), the action property. The
  lemma `ArchiveStep` shows that every step turns the archive into the
  archive with some records appended. `TypeInv` is all it needs.
- **`ArchiveRefinement`** (`Spec => ArchiveLogRefined`). It is laid out
  like any refinement proof:
  - the initial state maps to `Log!Init`;
  - under `TypeInv`, `DanglingInv` and `IdsFresh`, every step maps to a
    step of `Log!Next` or to a stutter of the log. There is one lemma per
    abstract action: `LogWrite`, `LogCreate`, `LogDelete`, `LogStutter`.
  `AddedIs` names the records a step appends, and `AllocLog` shows that
  `allocateResourceInst` appends a quiet type record and a create record
  with `resourceInstId`. Freshness (`IdsDistinct`) is what makes `live'`
  equal `live \cup {nextId}`. `NoDup` is what makes an erase remove
  exactly one live id.

Only model-checked:

- liveness (`NoLeak`), because the provers do not reason about fairness and
  `ENABLED`;
- `ReaderMatches`. The reader `Replay` is a recursive function over the
  archive, and relating its value on an archive with records appended to
  its value before is an induction over the sequence. The library's
  induction theorems take a predicate parameter that the installed provers
  cannot instantiate.
- the encodings of `StatEncoding`. They are RECURSIVE operators (the byte
  loops of the encoders and the reader), and each property is a statement
  about what they compute for every argument.

## 5. Not modelled, and the plan

- **Registry `init`/`cleanup` composed with the lifecycle.** They are called
  from `CacheImpl`, which is not in `src/`. The composition to model next is
  `setPreserveData` against the task manager that `disconnect` deletes and the
  next `connect` replaces: the task ids kept in `preserveData` across a
  reconnect.
- **StatArchiveWriter, the rest.** The header and the type-descriptor
  fields, which are strings, and the I/O errors of `fwrite` and `fopen`. A
  `flush` after `closeFile` passes a closed `FILE*` to `fwrite`. The model
  keeps the sampler from flushing a closed output, and lists this as a
  hazard.
- **SharedBase and PooledBasePool.** Small concurrent models of the reference
  count and the pool. They are the next components to model, with a run
  each.
- **Proofs.** `ReaderMatches` could be proved against `ArchiveLog` instead
  of the writer, once the provers can do induction over sequences.
- **Not modelled at all.** EventIdMap (declaration only), FunctionService and
  the .NET wrappers (no state), and the tests and quickstart (examples).
