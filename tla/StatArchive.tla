----------------------------- MODULE StatArchive -----------------------------
(***************************************************************************)
(* StatArchiveWriter (statistics/StatArchiveWriter.cpp): the writer that  *)
(* the sampler thread drives, and the archive it produces.                 *)
(*                                                                         *)
(* The writer keeps resourceTypeMap (the statistics types already written *)
(* out), resourceInstMap (a ResourceInst per sampled Statistics, with the  *)
(* values last archived and the StatDataOutput it writes to) and the id   *)
(* counter resourceInstId.  The sampler's two lists, the statistics and   *)
(* the newly added ones, are guarded by the stat-list mutex, which sample *)
(* and resampleResources hold throughout; Statistics::close takes no lock *)
(* and can happen in any state, and so can updates of the values.         *)
(*                                                                         *)
(* The archive is a sequence of records, one per token the writer emits   *)
(* (the byte encodings are StatEncoding's): the earlier files the archive *)
(* rolled out of, the current file, and the buffer not yet flushed to it. *)
(* A ResourceInst writes through the StatDataOutput it was built with;    *)
(* once openFile has deleted that buffer its writes are undefined, and    *)
(* are modelled as lost.                                                   *)
(*                                                                         *)
(* The byte counters are counted in records, one unit per record: every   *)
(* counter the code keeps (StatDataOutput::bytesWritten, the writer's     *)
(* bytesWrittenToFile and m_samplesize) is a sum over the writes, so a    *)
(* count that is right in records is right in bytes.                      *)
(***************************************************************************)
EXTENDS Integers, Sequences, FiniteSets

CONSTANTS
    Stats,        \* Statistics objects
    Types,        \* StatisticsTypes
    TypeOf,       \* Statistics::getType
    Descs,        \* the descriptor indices of a type
    Vals,         \* raw values a descriptor can hold
    MaxSamples,   \* bound on the calls of sample
    MaxRolls,     \* bound on the calls of openFile
    None

ASSUME BoundsAssumption ==
    /\ TypeOf \in [Stats -> Types]
    /\ MaxSamples \in Nat /\ MaxRolls \in Nat
    /\ 0 \in Vals /\ Vals \subseteq Int    \* int64 values

VARIABLES
    pc,          \* where the sampler thread is: "unbuilt", "ctor", "idle",
                 \* "alloc" (sampleResources) or "write" (the map loop)
    statsList,   \* sampler->getStatistics()
    newStats,    \* sampler->getNewStatistics()
    life,        \* a Statistics object: "absent", "open", "closed", "deleted"
    value,       \* its descriptors' raw values
    inst,        \* resourceInstMap: a ResourceInst, or None
    typeMap,     \* the keys of resourceTypeMap
    nextInstId,  \* resourceInstId
    cur,         \* resampleResources' position in statsList
    toWrite,     \* the map entries the sample loop has still to visit
    samples,     \* calls of sample so far
    rolls,       \* calls of openFile so far
    buf,         \* which StatDataOutput dataBuffer points to
    old,         \* the records of the files rolled out of
    file,        \* the records flushed to the current file
    pending,     \* the records in dataBuffer
    closing,     \* the sample running is the one close() takes
    closed,      \* dataBuffer->closed: its FILE has been closed
    written,     \* dataBuffer->getBytesWritten()
    toFile,      \* bytesWrittenToFile, what bytesWritten() returns
    sampleSize   \* m_samplesize, what getSampleSize() returns

vars == <<pc, statsList, newStats, life, value, inst, typeMap, nextInstId, cur,
          toWrite, samples, rolls, buf, old, file, pending, closing, closed,
          written, toFile, sampleSize>>

\* The output state that the steps inside a sample leave alone.
outVars == <<closing, closed, toFile>>

Zero == [i \in Descs |-> 0]

TypeRec(t) == [k |-> "type", t |-> t]
CreateRec(id, t) == [k |-> "create", id |-> id, t |-> t]
DeleteRec(id) == [k |-> "delete", id |-> id]
SampleRec == [k |-> "sample"]
InstRec(id, d) == [k |-> "inst", id |-> id, d |-> d]
EndRec == [k |-> "end"]
HeaderRec == [k |-> "header"]

InstType == [id : Nat, archived : [Descs -> Vals], first : BOOLEAN, out : Nat]

\* None stands for a missing map entry: it is no ResourceInst.
ASSUME NoneAssumption == None \notin InstType

TypeOK ==
    /\ pc \in {"unbuilt", "ctor", "idle", "alloc", "write", "closed"}
    /\ statsList \in Seq(Stats) /\ newStats \in Seq(Stats)
    /\ life \in [Stats -> {"absent", "open", "closed", "deleted"}]
    /\ value \in [Stats -> [Descs -> Vals]]
    /\ inst \in [Stats -> InstType \cup {None}]
    /\ typeMap \subseteq Types
    /\ nextInstId \in Nat /\ cur \in Nat /\ toWrite \subseteq Stats
    /\ samples \in 0..MaxSamples /\ rolls \in 0..MaxRolls /\ buf \in Nat
    /\ closing \in BOOLEAN /\ closed \in BOOLEAN
    /\ written \in Nat /\ toFile \in Nat /\ sampleSize \in Nat

Init ==
    /\ pc = "unbuilt"
    /\ statsList = <<>> /\ newStats = <<>>
    /\ life = [s \in Stats |-> "absent"]
    /\ value = [s \in Stats |-> Zero]
    /\ inst = [s \in Stats |-> None]
    /\ typeMap = {}
    /\ nextInstId = 0 /\ cur = 1 /\ toWrite = {}
    /\ samples = 0 /\ rolls = 0 /\ buf = 0
    /\ old = <<>> /\ file = <<>> /\ pending = <<>>
    /\ closing = FALSE /\ closed = FALSE
    /\ written = 0 /\ toFile = 0 /\ sampleSize = 0
-----------------------------------------------------------------------------
(* A record is one unit of what bytesWritten counts.  The header, a type *)
(* and a create carry strings: writeString and writeUTF, lines 119-129,  *)
(* add the character count only, while the buffer also gets the length   *)
(* writeASCII and writeUTF put before each string (and the extra bytes   *)
(* of wide characters).  Such a record holds one unit more than counted. *)
StrKinds == {"header", "type", "create"}

\* The bytes a sequence of records takes in a buffer or a file.
ByteSize(recs) == Len(recs) + Cardinality({i \in 1..Len(recs) : recs[i].k \in StrKinds})

(* StatDataOutput::writeByte ... writeUTF, lines 97-129: the data goes to  *)
(* the buffer and bytesWritten grows by its counted size.                 *)
Emit(recs) ==
    /\ pending' = pending \o recs
    /\ written' = written + Len(recs)

(* The constructor, lines 42-55, for an output that is then handed recs  *)
(* one writeByte at a time: open, and counting every byte of them.        *)
NewOutput(recs) ==
    /\ closed' = FALSE
    /\ written' = ByteSize(recs)

\* StatDataOutput::flush, lines 65-90: the buffer is written to the FILE.
OutputFlush(recs) == file' = file \o recs

\* resetBuffer, lines 92-95.
ResetBuffer ==
    /\ pending' = <<>>
    /\ written' = 0

\* StatDataOutput::close, lines 131-135.
OutputClose == closed' = TRUE

(* allocateResourceInst, lines 540-557, with getResourceType, 559-604: a  *)
(* closed statistics is skipped; the type is written on first sight; the *)
(* ResourceInst (values zeroed, firstTime set, writing to the current     *)
(* buffer) is inserted in the map (an existing entry is kept) and its     *)
(* create token written with the next id.                                 *)
AllocateResourceInst(s) ==
    IF life[s] = "closed"
    THEN UNCHANGED <<inst, typeMap, nextInstId, pending, written>>
    ELSE /\ typeMap' = typeMap \cup {TypeOf[s]}
         /\ inst' = IF inst[s] = None
                    THEN [inst EXCEPT ![s] = [id |-> nextInstId, archived |-> Zero,
                                              first |-> TRUE, out |-> buf]]
                    ELSE inst
         /\ Emit((IF TypeOf[s] \in typeMap THEN <<>> ELSE <<TypeRec(TypeOf[s])>>)
                 \o <<CreateRec(nextInstId, TypeOf[s])>>)
         /\ nextInstId' = nextInstId + 1

(* The constructor, lines 313-379, up to resampleResources (505-515): a   *)
(* StatDataOutput is opened on the archive file (lines 42-55), the header *)
(* is written and the stat-list mutex taken.                              *)
Construct ==
    /\ pc = "unbuilt"
    /\ pc' = "ctor"
    /\ cur' = 1
    /\ Emit(<<HeaderRec>>)
    /\ UNCHANGED <<statsList, newStats, life, value, inst, typeMap, nextInstId,
                   toWrite, samples, rolls, buf, old, file, outVars, sampleSize>>

\* resampleResources: every statistics not closed is allocated; the new list is left as it is.
ResampleStep ==
    /\ pc = "ctor" /\ cur <= Len(statsList)
    /\ AllocateResourceInst(statsList[cur])
    /\ cur' = cur + 1
    /\ UNCHANGED <<pc, statsList, newStats, life, value, toWrite, samples, rolls,
                   buf, old, file, outVars, sampleSize>>

ResampleDone ==
    /\ pc = "ctor" /\ cur > Len(statsList)
    /\ pc' = "idle"
    /\ UNCHANGED <<statsList, newStats, life, value, inst, typeMap, nextInstId,
                   cur, toWrite, samples, rolls, buf, old, file, pending, outVars,
                   written, sampleSize>>

(* sample, lines 397-401 and 416: the mutex is taken, the bytes written so *)
(* far noted in m_samplesize, and sampleResources begins.                  *)
SampleBegin ==
    /\ pc = "idle" /\ samples < MaxSamples
    /\ pc' = "alloc"
    /\ samples' = samples + 1
    /\ sampleSize' = written
    /\ cur' = 1
    /\ UNCHANGED <<statsList, newStats, life, value, inst, typeMap, nextInstId,
                   toWrite, rolls, buf, old, file, pending, outVars, written>>

\* resourceInstMapHas, lines 530-538.
resourceInstMapHas(s) == inst[s] # None

\* Mutant: the resourceInstMapHas check is dropped.
AllocNewNoCheck ==
    /\ pc = "alloc" /\ newStats # <<>>
    /\ AllocateResourceInst(Head(newStats))
    /\ newStats' = Tail(newStats)
    /\ UNCHANGED <<pc, statsList, life, value, cur, toWrite, samples, rolls, buf,
                   old, file, outVars, sampleSize>>

(* sampleResources, lines 468-477: each new statistics without a          *)
(* ResourceInst is allocated, then the new list is cleared.               *)
AllocNew ==
    /\ pc = "alloc" /\ newStats # <<>>
    /\ IF ~resourceInstMapHas(Head(newStats))
       THEN AllocateResourceInst(Head(newStats))
       ELSE UNCHANGED <<inst, typeMap, nextInstId, pending, written>>
    /\ newStats' = Tail(newStats)
    /\ UNCHANGED <<pc, statsList, life, value, cur, toWrite, samples, rolls, buf,
                   old, file, outVars, sampleSize>>

\* std::vector::erase of the element at position i.
EraseAt(sq, i) == [j \in 1..Len(sq) - 1 |-> IF j < i THEN sq[j] ELSE sq[j + 1]]

\* The delete token of a statistics, if it has a ResourceInst.
DeleteOf(s) == IF inst[s] # None THEN <<DeleteRec(inst[s].id)>> ELSE <<>>

\* Mutant: the map entry of a closed statistics is not erased.
ScanEraseKeepsInst ==
    /\ pc = "alloc" /\ newStats = <<>> /\ cur <= Len(statsList)
    /\ life[statsList[cur]] = "closed"
    /\ Emit(DeleteOf(statsList[cur]))
    /\ life' = [life EXCEPT ![statsList[cur]] = "deleted"]
    /\ statsList' = EraseAt(statsList, cur)
    /\ cur' = 1
    /\ UNCHANGED <<pc, newStats, value, inst, typeMap, nextInstId, toWrite, samples,
                   rolls, buf, old, file, outVars, sampleSize>>

(* sampleResources, lines 479-497: the statistics at the iterator is      *)
(* closed: its delete token is written and its ResourceInst erased, if it *)
(* has one; the object is deleted and erased from the list, and the scan *)
(* restarts at the front.                                                 *)
ScanErase ==
    /\ pc = "alloc" /\ newStats = <<>> /\ cur <= Len(statsList)
    /\ life[statsList[cur]] = "closed"
    /\ Emit(DeleteOf(statsList[cur]))
    /\ inst' = [inst EXCEPT ![statsList[cur]] = None]
    /\ life' = [life EXCEPT ![statsList[cur]] = "deleted"]
    /\ statsList' = EraseAt(statsList, cur)
    /\ cur' = 1
    /\ UNCHANGED <<pc, newStats, value, typeMap, nextInstId, toWrite, samples,
                   rolls, buf, old, file, outVars, sampleSize>>

\* Lines 498-500: a statistics not closed is passed over.
ScanSkip ==
    /\ pc = "alloc" /\ newStats = <<>> /\ cur <= Len(statsList)
    /\ life[statsList[cur]] # "closed"
    /\ cur' = cur + 1
    /\ UNCHANGED <<pc, statsList, newStats, life, value, inst, typeMap, nextInstId,
                   toWrite, samples, rolls, buf, old, file, pending, outVars, written,
                   sampleSize>>

(* The end of the scan, and the sample token of line 402: the map loop   *)
(* starts over the entries now in the map.                                 *)
ScanDone ==
    /\ pc = "alloc" /\ newStats = <<>> /\ cur > Len(statsList)
    /\ Emit(<<SampleRec>>)
    /\ toWrite' = {s \in Stats : inst[s] # None}
    /\ pc' = "write"
    /\ UNCHANGED <<statsList, newStats, life, value, inst, typeMap, nextInstId, cur,
                   samples, rolls, buf, old, file, outVars, sampleSize>>
-----------------------------------------------------------------------------
(* ResourceInst::writeSample, lines 197-226, for one entry of the map, in *)
(* the map's (pointer) order, here any order: nothing if the statistics  *)
(* is closed; otherwise every descriptor whose value differs from the    *)
(* archived one (every descriptor the first time) has its delta written  *)
(* and its value archived, after the instance id if anything is written. *)
Changed(s) == {i \in Descs : inst[s].first \/ value[s][i] # inst[s].archived[i]}

WrittenBy(s) ==
    IF Changed(s) # {} /\ inst[s].out = buf
    THEN <<InstRec(inst[s].id, [i \in Changed(s) |-> value[s][i] - inst[s].archived[i]])>>
    ELSE <<>>

\* Mutant: the delta, not the value, is kept as the archived value.
WriteSampleArchivesDelta(s) ==
    /\ pc = "write" /\ s \in toWrite
    /\ toWrite' = toWrite \ {s}
    /\ life[s] # "closed"
    /\ inst' = [inst EXCEPT ![s].archived =
                    [i \in Descs |-> IF i \in Changed(s) THEN value[s][i] - @[i] ELSE @[i]],
                            ![s].first = FALSE]
    /\ Emit(WrittenBy(s))
    /\ UNCHANGED <<pc, statsList, newStats, life, value, typeMap, nextInstId, cur,
                   samples, rolls, buf, old, file, outVars, sampleSize>>

\* Mutant: the archived values are never updated.
WriteSampleNoArchive(s) ==
    /\ pc = "write" /\ s \in toWrite
    /\ toWrite' = toWrite \ {s}
    /\ life[s] # "closed"
    /\ inst' = [inst EXCEPT ![s].first = FALSE]
    /\ Emit(WrittenBy(s))
    /\ UNCHANGED <<pc, statsList, newStats, life, value, typeMap, nextInstId, cur,
                   samples, rolls, buf, old, file, outVars, sampleSize>>

WriteSample(s) ==
    /\ pc = "write" /\ s \in toWrite
    /\ toWrite' = toWrite \ {s}
    /\ life[s] # "closed"
    /\ inst' = [inst EXCEPT ![s].archived = value[s], ![s].first = FALSE]
    /\ Emit(WrittenBy(s))
    /\ UNCHANGED <<pc, statsList, newStats, life, value, typeMap, nextInstId, cur,
                   samples, rolls, buf, old, file, outVars, sampleSize>>

\* The early return of writeSample for a statistics closed since sampleResources.
WriteSampleClosed(s) ==
    /\ pc = "write" /\ s \in toWrite
    /\ toWrite' = toWrite \ {s}
    /\ life[s] = "closed"
    /\ UNCHANGED <<pc, statsList, newStats, life, value, inst, typeMap, nextInstId,
                   cur, samples, rolls, buf, old, file, pending, outVars, written,
                   sampleSize>>

\* The end-of-sample id (ILLEGAL_RESOURCE_INST_ID, line 411), m_samplesize and the unlock.
SampleEnd ==
    /\ pc = "write" /\ toWrite = {} /\ ~closing
    /\ Emit(<<EndRec>>)
    /\ sampleSize' = written + 1 - sampleSize
    /\ pc' = "idle"
    /\ UNCHANGED <<statsList, newStats, life, value, inst, typeMap, nextInstId,
                   cur, toWrite, samples, rolls, buf, old, file, outVars>>

(* flush, lines 453-464: the buffer is written to the file, its count    *)
(* added to bytesWrittenToFile, and both reset.  On a closed output      *)
(* fwrite gets the null FILE* of close (line 133), and the process stops *)
(* there.                                                                  *)
Flush ==
    /\ pc = "idle" /\ pending # <<>> /\ ~closed
    /\ OutputFlush(pending)
    /\ toFile' = toFile + written
    /\ ResetBuffer
    /\ UNCHANGED <<pc, statsList, newStats, life, value, inst, typeMap, nextInstId,
                   cur, toWrite, samples, rolls, buf, old, closing, closed, sampleSize>>

\* Mutant: the new output starts its count at m_samplesize, as the commented-out line 427 would.
OpenFileSampleSize ==
    /\ pc = "idle" /\ rolls < MaxRolls
    /\ rolls' = rolls + 1
    /\ buf' = buf + 1
    /\ old' = old \o file
    /\ file' = <<>>
    /\ closed' = FALSE
    /\ written' = sampleSize
    /\ UNCHANGED <<pc, statsList, newStats, life, value, inst, typeMap, nextInstId,
                   cur, toWrite, samples, pending, closing, toFile, sampleSize>>

\* Mutant: the copy loop is dropped; the new output starts empty.
OpenFileNoCopy ==
    /\ pc = "idle" /\ rolls < MaxRolls
    /\ rolls' = rolls + 1
    /\ buf' = buf + 1
    /\ old' = old \o file
    /\ file' = <<>>
    /\ pending' = <<>>
    /\ NewOutput(<<>>)
    /\ UNCHANGED <<pc, statsList, newStats, life, value, inst, typeMap, nextInstId,
                   cur, toWrite, samples, closing, toFile, sampleSize>>

(* openFile, lines 426-451: a new StatDataOutput on a new file (lines     *)
(* 42-55) gets a copy of the unflushed bytes, one writeByte each, and the *)
(* old one is deleted (its destructor, lines 57-61, closes its FILE if    *)
(* closeFile has not).                                                    *)
OpenFile ==
    /\ pc = "idle" /\ rolls < MaxRolls
    /\ rolls' = rolls + 1
    /\ buf' = buf + 1
    /\ old' = old \o file
    /\ file' = <<>>
    /\ NewOutput(pending)
    /\ UNCHANGED <<pc, statsList, newStats, life, value, inst, typeMap, nextInstId,
                   cur, toWrite, samples, pending, closing, toFile, sampleSize>>

(* closeFile, line 424, with StatDataOutput::close, lines 131-135.  A     *)
(* second close would pass the null FILE* to fclose.                      *)
CloseFile ==
    /\ pc = "idle" /\ ~closed
    /\ OutputClose
    /\ UNCHANGED <<pc, statsList, newStats, life, value, inst, typeMap, nextInstId,
                   cur, toWrite, samples, rolls, buf, old, file, pending, closing,
                   written, toFile, sampleSize>>

(* close, lines 418-422: a last sample (the same steps as sample's), then *)
(* StatDataOutput::flush and close.  Its flush is the output's own: the  *)
(* bytes go to the file, but neither bytesWrittenToFile nor the buffer is *)
(* updated.  The buffer is not read again.                                 *)
Close ==
    /\ pc = "idle" /\ ~closed
    /\ pc' = "alloc"
    /\ closing' = TRUE
    /\ sampleSize' = written
    /\ cur' = 1
    /\ UNCHANGED <<statsList, newStats, life, value, inst, typeMap, nextInstId,
                   toWrite, samples, rolls, buf, old, file, pending, closed,
                   written, toFile>>

CloseEnd ==
    /\ pc = "write" /\ toWrite = {} /\ closing
    /\ written' = written + 1
    /\ sampleSize' = written + 1 - sampleSize
    /\ OutputFlush(pending \o <<EndRec>>)
    /\ pending' = <<>>
    /\ OutputClose
    /\ pc' = "closed"
    /\ UNCHANGED <<statsList, newStats, life, value, inst, typeMap, nextInstId,
                   cur, toWrite, samples, rolls, buf, old, closing, toFile>>
-----------------------------------------------------------------------------
(* The rest of the process.  A statistics is created and added to both   *)
(* lists under the stat-list mutex; it is closed, and its values change, *)
(* at any time.                                                            *)
AddStats(s) ==
    /\ pc \in {"unbuilt", "idle", "closed"} /\ life[s] = "absent"
    /\ life' = [life EXCEPT ![s] = "open"]
    /\ statsList' = Append(statsList, s)
    /\ newStats' = Append(newStats, s)
    /\ UNCHANGED <<pc, value, inst, typeMap, nextInstId, cur, toWrite, samples,
                   rolls, buf, old, file, pending, outVars, written, sampleSize>>

CloseStats(s) ==
    /\ life[s] = "open"
    /\ life' = [life EXCEPT ![s] = "closed"]
    /\ UNCHANGED <<pc, statsList, newStats, value, inst, typeMap, nextInstId, cur,
                   toWrite, samples, rolls, buf, old, file, pending, outVars, written,
                   sampleSize>>

SetValue(s, i, v) ==
    /\ life[s] = "open" /\ value[s][i] # v
    /\ value' = [value EXCEPT ![s][i] = v]
    /\ UNCHANGED <<pc, statsList, newStats, life, inst, typeMap, nextInstId, cur,
                   toWrite, samples, rolls, buf, old, file, pending, outVars, written,
                   sampleSize>>

Next ==
    \/ Construct \/ ResampleStep \/ ResampleDone
    \/ SampleBegin \/ AllocNew \/ ScanErase \/ ScanSkip \/ ScanDone \/ SampleEnd
    \/ \E s \in Stats : WriteSample(s) \/ WriteSampleClosed(s)
    \/ Flush \/ OpenFile \/ CloseFile \/ Close \/ CloseEnd
    \/ \E s \in Stats : AddStats(s) \/ CloseStats(s)
    \/ \E s \in Stats, i \in Descs, v \in Vals : SetValue(s, i, v)

Spec == Init /\ [][Next]_vars
-----------------------------------------------------------------------------
(* The reader of the format, replaying an archive: a create token starts *)
(* an instance at zero, an instance record adds its deltas.               *)
Replay(a) ==
    LET Apply(vals, r) ==
          CASE r.k = "create" ->
                 [x \in DOMAIN vals \cup {r.id} |-> IF x = r.id THEN Zero ELSE vals[x]]
            [] r.k = "inst" /\ r.id \in DOMAIN vals ->
                 [vals EXCEPT ![r.id] = [i \in Descs |->
                      IF i \in DOMAIN r.d THEN @[i] + r.d[i] ELSE @[i]]]
            [] OTHER -> vals
        R[n \in 0..Len(a)] == IF n = 0 THEN <<>> ELSE Apply(R[n - 1], a[n])
    IN  R[Len(a)]

\* The ids created and not deleted in an archive.
LiveIn(a) ==
    {a[n].id : n \in {m \in DOMAIN a : a[m].k = "create"
                         /\ ~\E j \in m..Len(a) : a[j] = DeleteRec(a[m].id)}}

Archive == old \o file \o pending

\* The ids of resourceInstMap's entries.
InstIds == {inst[s].id : s \in {x \in Stats : inst[x] # None}}

(* Between samples, what a reader of the archive reconstructs for every  *)
(* sampled statistics is what writeSample last archived for it: the       *)
(* deltas, the firstTime full write and the skipping of unchanged values *)
(* add up, whatever closes and updates happened in between.               *)
ReaderMatches ==
    pc = "idle" =>
        LET r == Replay(Archive) IN
        \A s \in Stats : inst[s] # None =>
            inst[s].id \in DOMAIN r /\ r[inst[s].id] = inst[s].archived

(* The instances live in the archive (created, not yet deleted) are those *)
(* of resourceInstMap: every statistics is created once, and deleted      *)
(* exactly when its entry is erased.                                      *)
LiveIds == LiveIn(Archive) = InstIds

(* The writer implements the archive its reader is promised: the records  *)
(* it has written are the log, the ids of resourceInstMap the live         *)
(* instances and resourceInstId the next id.  Every step appends records  *)
(* that announce nothing, or one create with resourceInstId after them,   *)
(* or the delete of an entry it erases, or leaves the three alone.        *)
Log == INSTANCE ArchiveLog WITH log <- Archive, live <- InstIds, nextId <- nextInstId

ArchiveLogRefined == Log!Spec

(* No ResourceInst refers to a Statistics that sampleResources has       *)
(* deleted: writeSample would dereference it.                              *)
NoDanglingResource == \A s \in Stats : inst[s] # None => life[s] \in {"open", "closed"}

(* bytesWritten() never overstates what the archive files hold, across   *)
(* flushes and rollovers, and the output's own count never overstates    *)
(* its buffer; and neither misses a write's counted bytes.  The strings' *)
(* lengths are not counted when written (writeString, writeUTF), but the *)
(* output openFile installs counts every byte it copies, so the counts    *)
(* drift below the bytes and are pulled back by a rollover.  Until       *)
(* close(), whose own flush is not counted.                               *)
BytesCounted ==
    pc # "closed" =>
        /\ Len(old \o file) <= toFile /\ toFile <= ByteSize(old \o file)
        /\ Len(pending) <= written /\ written <= ByteSize(pending)

(* Nothing the writer has written is lost or changed: every step appends *)
(* to the archive or leaves it alone.  flush moves the buffer to the file, *)
(* openFile moves the file among the earlier ones and copies the unflushed *)
(* bytes into the new StatDataOutput, and close's flush writes the last    *)
(* ones: the reader of the files sees every token, in the order written.  *)
ArchiveAppendOnly ==
    [][Len(Archive) <= Len(Archive') /\ SubSeq(Archive', 1, Len(Archive)) = Archive]_vars

\* Every ResourceInst writes to the StatDataOutput the writer now uses.
OutputLive == \A s \in Stats : inst[s] # None => inst[s].out = buf

\* Every instance the current file's records use is created in it, after its type.
FileSelfContained ==
    LET a == file \o pending IN
    \A n \in DOMAIN a :
        /\ a[n].k \in {"inst", "delete"} =>
              \E m \in 1..n : a[m] = CreateRec(a[n].id, a[m].t)
        /\ a[n].k = "create" => \E m \in 1..n : a[m] = TypeRec(a[n].t)

(* openFile leaves the writer as consistent as a new one: the instances  *)
(* write to the StatDataOutput it installed, not to the one it deleted,  *)
(* and the new archive file can be read on its own.                        *)
RolloverConsistent == OutputLive /\ FileSelfContained
====
