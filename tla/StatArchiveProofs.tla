------------------------- MODULE StatArchiveProofs -------------------------
(* Proofs about the statistics archive writer, for every set of          *)
(* statistics, types and descriptors and every bound.                     *)
EXTENDS StatArchive, SequenceTheorems, FiniteSetTheorems, TLAPS

\* The delta maps of instance records: a value per changed descriptor.
Deltas == UNION {[D -> Int] : D \in SUBSET Descs}

\* Every record the writer emits.
Recs == {HeaderRec, SampleRec, EndRec}
        \cup [k : {"type"}, t : Types]
        \cup [k : {"create"}, id : Nat, t : Types]
        \cup [k : {"delete"}, id : Nat]
        \cup [k : {"inst"}, id : Nat, d : Deltas]

(* The entries the map loop has still to visit have a ResourceInst: the  *)
(* map is not changed during the loop.                                     *)
WriteTargets == pc = "write" => \A s \in toWrite : inst[s] # None

(* The type invariant, with the archive's records; within a sample the   *)
(* output has grown since m_samplesize was taken, so the size computed  *)
(* at the end is not negative.                                            *)
TypeInv ==
    /\ TypeOK
    /\ old \in Seq(Recs) /\ file \in Seq(Recs) /\ pending \in Seq(Recs)
    /\ WriteTargets
    /\ cur >= 1
    /\ pc \in {"alloc", "write"} => sampleSize <= written

\* Every statistics in the sampler's lists is open or closed: added, and
\* not yet deleted.
ListsLive ==
    /\ \A i \in 1..Len(statsList) : life[statsList[i]] \in {"open", "closed"}
    /\ \A i \in 1..Len(newStats) : life[newStats[i]] \in {"open", "closed"}

\* A statistics is in the list at most once.
NoDup == \A i, j \in 1..Len(statsList) : statsList[i] = statsList[j] => i = j

(* The strengthening of NoDanglingResource: the statistics the sampler  *)
(* walks are live and listed once, so the erase of a closed one leaves   *)
(* no live copy behind.                                                    *)
DanglingInv == ListsLive /\ NoDup /\ NoDanglingResource
-----------------------------------------------------------------------------
(* Each token the writer emits is a record of Recs.                        *)
LEMMA RecMembers ==
  /\ HeaderRec \in Recs /\ SampleRec \in Recs /\ EndRec \in Recs
  /\ \A t \in Types : TypeRec(t) \in Recs
  /\ \A n \in Nat, t \in Types : CreateRec(n, t) \in Recs
  /\ \A n \in Nat : DeleteRec(n) \in Recs
  /\ \A n \in Nat, d \in Deltas : InstRec(n, d) \in Recs
  <1>1. HeaderRec \in Recs /\ SampleRec \in Recs /\ EndRec \in Recs
    BY DEF HeaderRec, SampleRec, EndRec, Recs
  <1>2. \A t \in Types : TypeRec(t) \in Recs
    BY DEF TypeRec, Recs
  <1>3. \A n \in Nat, t \in Types : CreateRec(n, t) \in Recs
    BY DEF CreateRec, Recs
  <1>4. \A n \in Nat : DeleteRec(n) \in Recs
    BY DEF DeleteRec, Recs
  <1>5. \A n \in Nat, d \in Deltas : InstRec(n, d) \in Recs
    BY DEF InstRec, Recs
  <1>6. QED
    BY <1>1, <1>2, <1>3, <1>4, <1>5

(* The records of an allocation, a delete and a sample are records.       *)
LEMMA RecordsTyped ==
  ASSUME TypeOK
  PROVE  /\ \A s \in Stats : DeleteOf(s) \in Seq(Recs)
         /\ \A s \in Stats : inst[s] # None => WrittenBy(s) \in Seq(Recs)
         /\ \A s \in Stats :
               (IF TypeOf[s] \in typeMap THEN <<>> ELSE <<TypeRec(TypeOf[s])>>)
                  \o <<CreateRec(nextInstId, TypeOf[s])>> \in Seq(Recs)
         /\ <<HeaderRec>> \in Seq(Recs) /\ <<SampleRec>> \in Seq(Recs)
         /\ <<EndRec>> \in Seq(Recs)
  <1> USE BoundsAssumption
  <1>1. ASSUME NEW s \in Stats PROVE DeleteOf(s) \in Seq(Recs)
    <2>1. CASE inst[s] # None
      <3>1. inst[s].id \in Nat
        BY <2>1 DEF TypeOK, InstType
      <3>2. QED
        BY <2>1, <3>1, RecMembers DEF DeleteOf
    <2>2. CASE inst[s] = None
      BY <2>2 DEF DeleteOf
    <2>3. QED
      BY <2>1, <2>2
  <1>2. ASSUME NEW s \in Stats, inst[s] # None PROVE WrittenBy(s) \in Seq(Recs)
    <2>1. inst[s] \in InstType
      BY <1>2 DEF TypeOK
    <2>2. CASE Changed(s) # {} /\ inst[s].out = buf
      <3> DEFINE d == [i \in Changed(s) |-> value[s][i] - inst[s].archived[i]]
      <3>1. Changed(s) \in SUBSET Descs
        BY Zenon DEF Changed
      <3>0. inst[s].archived \in [Descs -> Vals] /\ value[s] \in [Descs -> Vals]
        BY <2>1, Zenon DEF TypeOK, InstType
      <3>1a. \A i \in Descs : value[s][i] \in Int /\ inst[s].archived[i] \in Int
        BY <3>0, Zenon
      <3>2. \A i \in Descs : value[s][i] - inst[s].archived[i] \in Int
        BY <3>1a
      <3>3. d \in [Changed(s) -> Int]
        BY <3>1, <3>2
      <3>6. d \in Deltas
        BY <3>1, <3>3 DEF Deltas
      <3>4. inst[s].id \in Nat
        BY <2>1 DEF InstType
      <3>5. QED
        BY <2>2, <3>6, <3>4, RecMembers DEF WrittenBy
    <2>3. CASE ~(Changed(s) # {} /\ inst[s].out = buf)
      BY <2>3 DEF WrittenBy
    <2>4. QED
      BY <2>2, <2>3
  <1>3. ASSUME NEW s \in Stats
        PROVE  (IF TypeOf[s] \in typeMap THEN <<>> ELSE <<TypeRec(TypeOf[s])>>)
                  \o <<CreateRec(nextInstId, TypeOf[s])>> \in Seq(Recs)
    <2>1. TypeOf[s] \in Types /\ nextInstId \in Nat
      BY DEF TypeOK
    <2>2. TypeRec(TypeOf[s]) \in Recs /\ CreateRec(nextInstId, TypeOf[s]) \in Recs
      BY <2>1, RecMembers
    <2>3. QED
      BY <2>2
  <1>4. QED
    BY <1>1, <1>2, <1>3, RecMembers
-----------------------------------------------------------------------------
(* A ResourceInst as allocateResourceInst builds it, and as writeSample  *)
(* leaves it, is a ResourceInst.                                          *)
LEMMA InstTyped ==
  ASSUME TypeOK, BoundsAssumption
  PROVE  /\ [id |-> nextInstId, archived |-> Zero, first |-> TRUE, out |-> buf] \in InstType
         /\ \A s \in Stats : inst[s] # None =>
               [inst EXCEPT ![s].archived = value[s], ![s].first = FALSE]
                  \in [Stats -> InstType \cup {None}]
  <1>1. Zero \in [Descs -> Vals]
    BY DEF Zero
  <1>2. [id |-> nextInstId, archived |-> Zero, first |-> TRUE, out |-> buf] \in InstType
    BY <1>1, Zenon DEF TypeOK, InstType
  <1>3. ASSUME NEW s \in Stats, inst[s] # None
        PROVE  [inst EXCEPT ![s].archived = value[s], ![s].first = FALSE]
                  \in [Stats -> InstType \cup {None}]
    <2>1. inst[s] \in InstType /\ value[s] \in [Descs -> Vals]
      BY <1>3 DEF TypeOK
    <2>2. [inst[s] EXCEPT !.archived = value[s], !.first = FALSE] \in InstType
      BY <2>1, Zenon DEF InstType
    <2>3. QED
      BY <2>2 DEF TypeOK
  <1>4. QED
    BY <1>2, <1>3

(* allocateResourceInst keeps the types.                                   *)
LEMMA AllocTyped ==
  ASSUME TypeInv, BoundsAssumption, NEW s \in Stats, AllocateResourceInst(s)
  PROVE  /\ inst' \in [Stats -> InstType \cup {None}]
         /\ typeMap' \subseteq Types /\ nextInstId' \in Nat
         /\ pending' \in Seq(Recs) /\ written' \in Nat
  <1>1. CASE life[s] = "closed"
    BY <1>1 DEF AllocateResourceInst, TypeInv, TypeOK
  <1>2. CASE life[s] # "closed"
    <2>1. /\ typeMap' = typeMap \cup {TypeOf[s]}
          /\ inst' = IF inst[s] = None
                     THEN [inst EXCEPT ![s] = [id |-> nextInstId, archived |-> Zero,
                                               first |-> TRUE, out |-> buf]]
                     ELSE inst
          /\ Emit((IF TypeOf[s] \in typeMap THEN <<>> ELSE <<TypeRec(TypeOf[s])>>)
                  \o <<CreateRec(nextInstId, TypeOf[s])>>)
          /\ nextInstId' = nextInstId + 1
      BY <1>2 DEF AllocateResourceInst
    <2>2. inst' \in [Stats -> InstType \cup {None}]
      BY <2>1, InstTyped DEF TypeInv, TypeOK
    <2>3. (IF TypeOf[s] \in typeMap THEN <<>> ELSE <<TypeRec(TypeOf[s])>>)
             \o <<CreateRec(nextInstId, TypeOf[s])>> \in Seq(Recs)
      BY RecordsTyped DEF TypeInv
    <2>5. pending \in Seq(Recs) /\ written \in Nat
      BY DEF TypeInv, TypeOK
    <2>6. pending' \in Seq(Recs) /\ written' \in Nat
      BY <2>1, <2>3, <2>5 DEF Emit
    <2>4. QED
      BY <2>1, <2>2, <2>6 DEF TypeInv, TypeOK
  <1>3. QED
    BY <1>1, <1>2
-----------------------------------------------------------------------------
\* The positions of a sequence of records that hold strings.
StrIdx(recs) == {i \in 1..Len(recs) : recs[i].k \in StrKinds}

(* The bytes of records are a natural number, at least one per record.   *)
LEMMA ByteSizeType ==
  ASSUME NEW r \in Seq(Recs)
  PROVE  /\ IsFiniteSet(StrIdx(r)) /\ Cardinality(StrIdx(r)) \in Nat
         /\ ByteSize(r) \in Nat /\ Len(r) <= ByteSize(r)
  <1>1. IsFiniteSet(1..Len(r))
    BY FS_Interval
  <1>2. IsFiniteSet(StrIdx(r))
    BY <1>1, FS_Subset DEF StrIdx
  <1>3. Cardinality(StrIdx(r)) \in Nat
    BY <1>2, FS_CardinalityType
  <1>4. QED
    BY <1>2, <1>3 DEF ByteSize, StrIdx

(* An empty buffer holds no bytes.                                         *)
LEMMA ByteSizeEmpty == ByteSize(<<>>) = 0
  <1>1. StrIdx(<<>>) = {}
    BY DEF StrIdx
  <1>2. QED
    BY <1>1, FS_EmptySet DEF ByteSize, StrIdx

(* The bytes of two sequences of records written one after the other    *)
(* are the sum of theirs.                                                 *)
LEMMA ByteSizeConcat ==
  ASSUME NEW a \in Seq(Recs), NEW b \in Seq(Recs)
  PROVE  ByteSize(a \o b) = ByteSize(a) + ByteSize(b)
  <1> DEFINE A == StrIdx(a)
             B == StrIdx(b)
             Sh == {Len(a) + j : j \in B}
  <1>1. StrIdx(a \o b) = A \cup Sh
    <2>1. ASSUME NEW i \in StrIdx(a \o b) PROVE i \in A \cup Sh
      <3>1. i \in 1..Len(a) + Len(b) /\ (a \o b)[i].k \in StrKinds
        BY <2>1 DEF StrIdx
      <3>2. CASE i <= Len(a)
        BY <3>1, <3>2 DEF StrIdx
      <3>3. CASE i > Len(a)
        <4>1. i - Len(a) \in 1..Len(b) /\ b[i - Len(a)].k \in StrKinds
          BY <3>1, <3>3
        <4>2. i - Len(a) \in B /\ i = Len(a) + (i - Len(a))
          BY <4>1 DEF StrIdx
        <4>3. QED
          BY <4>2
      <3>4. QED
        BY <3>1, <3>2, <3>3
    <2>2. ASSUME NEW i \in A PROVE i \in StrIdx(a \o b)
      BY <2>2 DEF StrIdx
    <2>3. ASSUME NEW j \in B PROVE Len(a) + j \in StrIdx(a \o b)
      BY <2>3 DEF StrIdx
    <2>4. QED
      BY <2>1, <2>2, <2>3
  <1>2. A \cap Sh = {}
    BY DEF StrIdx
  <1>3. IsFiniteSet(A) /\ IsFiniteSet(B)
        /\ Cardinality(A) \in Nat /\ Cardinality(B) \in Nat
    BY ByteSizeType
  <1>4. IsFiniteSet(Sh) /\ Cardinality(Sh) = Cardinality(B)
    <2> DEFINE f == [j \in B |-> Len(a) + j]
    <2>1. f \in Bijection(B, Sh)
      BY DEF Bijection, Injection, Surjection, IsInjective, StrIdx
    <2>2. ExistsBijection(B, Sh)
      BY <2>1 DEF ExistsBijection
    <2>3. QED
      BY <1>3, <2>2, FS_Bijection
  <1>5. Cardinality(A \cup Sh) = Cardinality(A) + Cardinality(B)
    <2>1. Cardinality(A \cup Sh) = Cardinality(A) + Cardinality(Sh) - Cardinality(A \cap Sh)
      BY <1>3, <1>4, FS_Union
    <2>2. Cardinality(A \cap Sh) = 0
      <3>1. Cardinality({}) = 0
        BY FS_EmptySet
      <3>2. QED
        BY <1>2, <3>1, Zenon
    <2>3. QED
      BY <1>3, <1>4, <2>1, <2>2
  <1>6. Len(a \o b) = Len(a) + Len(b)
    OBVIOUS
  <1>7. ByteSize(a \o b) = Len(a) + Len(b) + Cardinality(A) + Cardinality(B)
    <2>1. ByteSize(a \o b) = Len(a \o b) + Cardinality(StrIdx(a \o b))
      BY DEF ByteSize, StrIdx
    <2>2. QED
      BY <1>1, <1>3, <1>5, <1>6, <2>1
  <1>8. ByteSize(a) = Len(a) + Cardinality(A) /\ ByteSize(b) = Len(b) + Cardinality(B)
    BY DEF ByteSize, StrIdx
  <1>9. QED
    BY <1>3, <1>7, <1>8

-----------------------------------------------------------------------------
(* Every reachable state of the writer is well typed: the records it      *)
(* emits, its counters (m_samplesize included: a sample never ends with  *)
(* fewer bytes than it began with), and the ResourceInsts of the map.     *)
THEOREM TypeCorrect == Spec => []TypeInv
  <1>1. Init => TypeInv
    <2> SUFFICES ASSUME Init PROVE TypeInv
      OBVIOUS
    <2>1. closing \in BOOLEAN /\ closed \in BOOLEAN
      BY Zenon DEF Init
    <2>2. Zero \in [Descs -> Vals]
      BY BoundsAssumption DEF Zero
    <2>3. QED
      BY <2>1, <2>2, BoundsAssumption DEF Init, TypeInv, TypeOK, WriteTargets
  <1>2. TypeInv /\ [Next]_vars => TypeInv'
    <2> SUFFICES ASSUME TypeInv, [Next]_vars PROVE TypeInv'
      OBVIOUS
    <2> USE BoundsAssumption
    <2>0. /\ pending \in Seq(Recs) /\ written \in Nat /\ TypeOK
          /\ \A s \in Stats : DeleteOf(s) \in Seq(Recs)
          /\ \A s \in Stats : inst[s] # None => WrittenBy(s) \in Seq(Recs)
          /\ <<HeaderRec>> \in Seq(Recs) /\ <<SampleRec>> \in Seq(Recs)
          /\ <<EndRec>> \in Seq(Recs)
      BY RecordsTyped DEF TypeInv, TypeOK
    <2>1. CASE Construct
      <3>1. pending' \in Seq(Recs) /\ written' \in Nat
        BY <2>0, <2>1 DEF Construct, Emit
      <3>2. QED
        BY <2>1, <3>1 DEF Construct, TypeInv, TypeOK, WriteTargets, outVars
    <2>2. CASE ResampleStep
      <3>1. statsList[cur] \in Stats
        BY <2>2 DEF ResampleStep, TypeInv, TypeOK
      <3>2. /\ inst' \in [Stats -> InstType \cup {None}]
            /\ typeMap' \subseteq Types /\ nextInstId' \in Nat
            /\ pending' \in Seq(Recs) /\ written' \in Nat
        BY <3>1, <2>2, AllocTyped DEF ResampleStep
      <3>3. QED
        BY <2>2, <3>2 DEF ResampleStep, TypeInv, TypeOK, WriteTargets, outVars
    <2>3. CASE ResampleDone
      BY <2>3 DEF ResampleDone, TypeInv, TypeOK, WriteTargets, outVars
    <2>4. CASE SampleBegin
      BY <2>4 DEF SampleBegin, TypeInv, TypeOK, WriteTargets, outVars
    <2>5. CASE AllocNew
      <3>1. Head(newStats) \in Stats
        BY <2>5 DEF AllocNew, TypeInv, TypeOK
      <3>2. /\ inst' \in [Stats -> InstType \cup {None}]
            /\ typeMap' \subseteq Types /\ nextInstId' \in Nat
            /\ pending' \in Seq(Recs) /\ written' \in Nat
            /\ written' >= written
        <4>1. CASE ~resourceInstMapHas(Head(newStats))
          <5>1. AllocateResourceInst(Head(newStats))
            BY <2>5, <4>1 DEF AllocNew
          <5>2. written' >= written
            BY <5>1, <2>0 DEF AllocateResourceInst, Emit
          <5>3. QED
            BY <3>1, <5>1, <5>2, AllocTyped
        <4>2. CASE resourceInstMapHas(Head(newStats))
          BY <2>5, <4>2, <2>0 DEF AllocNew, TypeInv, TypeOK
        <4>3. QED
          BY <4>1, <4>2
      <3>3. QED
        BY <2>5, <3>2 DEF AllocNew, TypeInv, TypeOK, WriteTargets, outVars
    <2>6. CASE ScanErase
      <3>1. cur \in 1..Len(statsList) /\ statsList[cur] \in Stats
        BY <2>6 DEF ScanErase, TypeInv, TypeOK
      <3>2. pending' \in Seq(Recs) /\ written' \in Nat /\ written' >= written
        BY <3>1, <2>0, <2>6 DEF ScanErase, Emit
      <3>3. statsList' \in Seq(Stats)
        BY <3>1, <2>6 DEF ScanErase, EraseAt, TypeInv, TypeOK
      <3>4. QED
        BY <2>6, <3>1, <3>2, <3>3 DEF ScanErase, TypeInv, TypeOK, WriteTargets, outVars
    <2>7. CASE ScanSkip
      BY <2>7 DEF ScanSkip, TypeInv, TypeOK, WriteTargets, outVars
    <2>8. CASE ScanDone
      <3>1. pending' \in Seq(Recs) /\ written' \in Nat /\ written' >= written
        BY <2>0, <2>8 DEF ScanDone, Emit
      <3>2. QED
        BY <2>8, <3>1 DEF ScanDone, TypeInv, TypeOK, WriteTargets, outVars
    <2>9. CASE SampleEnd
      <3>1. pending' \in Seq(Recs) /\ written' \in Nat /\ written' = written + 1
        BY <2>0, <2>9 DEF SampleEnd, Emit
      <3>2. QED
        BY <2>9, <3>1 DEF SampleEnd, TypeInv, TypeOK, WriteTargets, outVars
    <2>10. ASSUME NEW s \in Stats, WriteSample(s) PROVE TypeInv'
      <3>1. inst[s] # None
        BY <2>10 DEF WriteSample, TypeInv, WriteTargets
      <3>2. pending' \in Seq(Recs) /\ written' \in Nat /\ written' >= written
        BY <3>1, <2>0, <2>10 DEF WriteSample, Emit
      <3>3. inst' \in [Stats -> InstType \cup {None}]
        BY <3>1, <2>10, InstTyped DEF WriteSample, TypeInv
      <3>4. WriteTargets'
        BY <2>10 DEF WriteSample, TypeInv, TypeOK, WriteTargets
      <3>5. closing' \in BOOLEAN /\ closed' \in BOOLEAN
        BY <2>10, Zenon DEF WriteSample, TypeInv, TypeOK, outVars
      <3>6. /\ UNCHANGED <<pc, statsList, newStats, life, value, typeMap, nextInstId,
                           cur, samples, rolls, buf, old, file, toFile, sampleSize>>
            /\ toWrite' \subseteq Stats
        BY <2>10 DEF WriteSample, outVars, TypeInv, TypeOK
      <3>7. QED
        BY <3>2, <3>3, <3>4, <3>5, <3>6 DEF TypeInv, TypeOK
    <2>11. ASSUME NEW s \in Stats, WriteSampleClosed(s) PROVE TypeInv'
      BY <2>11 DEF WriteSampleClosed, TypeInv, TypeOK, WriteTargets, outVars
    <2>12. CASE Flush
      BY <2>12 DEF Flush, OutputFlush, ResetBuffer, TypeInv, TypeOK, WriteTargets
    <2>13. CASE OpenFile
      <3>1. closing' \in BOOLEAN /\ closed' \in BOOLEAN
        BY <2>13, Zenon DEF OpenFile, NewOutput, TypeInv, TypeOK
      <3>2. old \o file \in Seq(Recs) /\ ByteSize(pending) \in Nat
        <4>1. old \o file \in Seq(Recs) /\ pending \in Seq(Recs)
          BY DEF TypeInv
        <4>2. QED
          BY <4>1, ByteSizeType
      <3>3. written' \in Nat
        BY <2>13, <3>2 DEF OpenFile, NewOutput
      <3>4. QED
        BY <2>13, <3>1, <3>2, <3>3 DEF OpenFile, NewOutput, TypeInv, TypeOK, WriteTargets
    <2>14. CASE CloseFile
      BY <2>14 DEF CloseFile, OutputClose, TypeInv, TypeOK, WriteTargets
    <2>15. CASE Close
      BY <2>15 DEF Close, TypeInv, TypeOK, WriteTargets
    <2>16. CASE CloseEnd
      <3>1. pending \o <<EndRec>> \in Seq(Recs)
        BY <2>0
      <3>2. QED
        BY <2>16, <3>1 DEF CloseEnd, OutputFlush, OutputClose, TypeInv, TypeOK,
                           WriteTargets
    <2>17. ASSUME NEW s \in Stats, AddStats(s) PROVE TypeInv'
      BY <2>17 DEF AddStats, TypeInv, TypeOK, WriteTargets, outVars
    <2>18. ASSUME NEW s \in Stats, CloseStats(s) PROVE TypeInv'
      BY <2>18 DEF CloseStats, TypeInv, TypeOK, WriteTargets, outVars
    <2>19. ASSUME NEW s \in Stats, NEW i \in Descs, NEW v \in Vals, SetValue(s, i, v)
           PROVE  TypeInv'
      BY <2>19 DEF SetValue, TypeInv, TypeOK, WriteTargets, outVars
    <2>20. CASE UNCHANGED vars
      BY <2>20 DEF vars, TypeInv, TypeOK, WriteTargets
    <2>21. QED
      BY <2>1, <2>2, <2>3, <2>4, <2>5, <2>6, <2>7, <2>8, <2>9, <2>10, <2>11,
         <2>12, <2>13, <2>14, <2>15, <2>16, <2>17, <2>18, <2>19, <2>20 DEF Next
  <1>3. QED
    BY <1>1, <1>2, PTL DEF Spec

(* The writer's variables keep their types in every reachable state: the *)
(* lists, the lives, the map's ResourceInsts and the counters.           *)
THEOREM TypeOKHolds == Spec => []TypeOK
  <1>1. TypeInv => TypeOK
    BY DEF TypeInv
  <1>2. QED
    BY <1>1, TypeCorrect, PTL

-----------------------------------------------------------------------------
(* A step that leaves the lists, the lives and the map alone keeps        *)
(* DanglingInv.                                                            *)
LEMMA DanglingFrame ==
  ASSUME DanglingInv, UNCHANGED <<statsList, newStats, life, inst>>
  PROVE  DanglingInv'
  BY DEF DanglingInv, ListsLive, NoDup, NoDanglingResource

(* allocateResourceInst of a live statistics keeps NoDanglingResource:   *)
(* a ResourceInst is built only for an open one.                          *)
LEMMA AllocLive ==
  ASSUME TypeInv, NoDanglingResource, NEW s \in Stats,
         life[s] \in {"open", "closed"}, AllocateResourceInst(s),
         UNCHANGED life
  PROVE  NoDanglingResource'
  <1>1. CASE life[s] = "closed"
    BY <1>1 DEF AllocateResourceInst, NoDanglingResource
  <1>2. CASE life[s] # "closed"
    <2>1. inst' = IF inst[s] = None
                  THEN [inst EXCEPT ![s] = [id |-> nextInstId, archived |-> Zero,
                                            first |-> TRUE, out |-> buf]]
                  ELSE inst
      BY <1>2 DEF AllocateResourceInst
    <2>2. life[s] = "open"
      BY <1>2
    <2>3. QED
      BY <2>1, <2>2 DEF NoDanglingResource, TypeInv, TypeOK
  <1>3. QED
    BY <1>1, <1>2

\* The types of the lists and the lives, which the list reasoning needs.
ListTypes ==
    /\ statsList \in Seq(Stats) /\ newStats \in Seq(Stats)
    /\ life \in [Stats -> {"absent", "open", "closed", "deleted"}]
    /\ inst \in [Stats -> InstType \cup {None}]

(* The statistics the sampler walks are live and listed once, and no     *)
(* ResourceInst refers to a deleted one, for every number of statistics  *)
(* and samples: the scan erases the map entry together with the object,  *)
(* allocation happens only for listed, hence live, statistics, and a     *)
(* statistics is listed once, so no copy of a deleted one stays behind.  *)
THEOREM DanglingHolds == Spec => []DanglingInv
  <1>1. Init => DanglingInv
    BY DEF Init, DanglingInv, ListsLive, NoDup, NoDanglingResource
  <1>2. TypeInv /\ TypeInv' /\ DanglingInv /\ [Next]_vars => DanglingInv'
    <2> SUFFICES ASSUME TypeInv, TypeInv', DanglingInv, [Next]_vars
                 PROVE  DanglingInv'
      OBVIOUS
    <2>0. ListTypes /\ ListTypes'
      BY DEF TypeInv, TypeOK, ListTypes
    <2>1. CASE ResampleStep
      <3>1. cur \in 1..Len(statsList) /\ statsList[cur] \in Stats
        BY <2>1 DEF ResampleStep, TypeInv, TypeOK
      <3>2. life[statsList[cur]] \in {"open", "closed"}
        BY <3>1 DEF DanglingInv, ListsLive
      <3>3. NoDanglingResource'
        BY <2>1, <3>1, <3>2, AllocLive DEF ResampleStep, DanglingInv
      <3>4. QED
        BY <2>1, <3>3 DEF ResampleStep, DanglingInv, ListsLive, NoDup
    <2>2. CASE AllocNew
      <3>1. Len(newStats) >= 1 /\ Head(newStats) = newStats[1]
            /\ Head(newStats) \in Stats
        BY <2>2 DEF AllocNew, TypeInv, TypeOK
      <3>2. life[Head(newStats)] \in {"open", "closed"}
        BY <3>1 DEF DanglingInv, ListsLive
      <3>3. NoDanglingResource'
        <4>1. CASE ~resourceInstMapHas(Head(newStats))
          BY <2>2, <4>1, <3>1, <3>2, AllocLive DEF AllocNew, DanglingInv
        <4>2. CASE resourceInstMapHas(Head(newStats))
          BY <2>2, <4>2 DEF AllocNew, DanglingInv, NoDanglingResource
        <4>3. QED
          BY <4>1, <4>2
      <3>4. ListsLive'
        <4>1. newStats' = Tail(newStats) /\ UNCHANGED <<statsList, life>>
          BY <2>2 DEF AllocNew
        <4>2. QED
          BY <3>1, <4>1, <2>0 DEF DanglingInv, ListsLive, ListTypes
      <3>5. QED
        BY <2>2, <3>3, <3>4 DEF AllocNew, DanglingInv, NoDup
    <2>3. CASE ScanErase
      <3> DEFINE x == statsList[cur]
      <3>1. cur \in 1..Len(statsList) /\ x \in Stats /\ newStats = <<>>
        BY <2>3 DEF ScanErase, TypeInv, TypeOK
      <3>2. /\ statsList' = EraseAt(statsList, cur)
            /\ life' = [life EXCEPT ![x] = "deleted"]
            /\ inst' = [inst EXCEPT ![x] = None]
            /\ UNCHANGED newStats
        BY <2>3 DEF ScanErase
      <3>3. /\ Len(statsList') = Len(statsList) - 1
            /\ \A j \in 1..Len(statsList) - 1 :
                  statsList'[j] = statsList[IF j < cur THEN j ELSE j + 1]
        BY <3>1, <3>2, <2>0 DEF ListTypes, EraseAt
      <3>4. \A j \in 1..Len(statsList) - 1 : statsList'[j] # x
        BY <3>1, <3>3 DEF DanglingInv, NoDup
      <3>5. ListsLive'
        BY <3>1, <3>2, <3>3, <3>4, <2>0 DEF DanglingInv, ListsLive, ListTypes
      <3>6. NoDup'
        <4>1. SUFFICES ASSUME NEW i \in 1..Len(statsList'), NEW j \in 1..Len(statsList'),
                              statsList'[i] = statsList'[j]
                       PROVE  i = j
          BY DEF NoDup
        <4>2. i \in 1..Len(statsList) - 1 /\ j \in 1..Len(statsList) - 1
          BY <3>3
        <4>3a. cur \in Nat
          BY <3>1, <2>0 DEF ListTypes
        <4>3b. /\ (IF i < cur THEN i ELSE i + 1) \in 1..Len(statsList)
               /\ (IF j < cur THEN j ELSE j + 1) \in 1..Len(statsList)
          BY <4>2, <4>3a
        <4>3c. statsList'[i] = statsList[IF i < cur THEN i ELSE i + 1]
               /\ statsList'[j] = statsList[IF j < cur THEN j ELSE j + 1]
          BY <4>2, <3>3
        <4>3. /\ (IF i < cur THEN i ELSE i + 1) \in 1..Len(statsList)
              /\ (IF j < cur THEN j ELSE j + 1) \in 1..Len(statsList)
              /\ statsList[IF i < cur THEN i ELSE i + 1]
                    = statsList[IF j < cur THEN j ELSE j + 1]
          BY <4>1, <4>3b, <4>3c, Zenon
        <4>4. (IF i < cur THEN i ELSE i + 1) = (IF j < cur THEN j ELSE j + 1)
          BY <4>3 DEF DanglingInv, NoDup
        <4>5. QED
          BY <4>2, <4>4, <3>1
      <3>7. NoDanglingResource'
        BY <3>1, <3>2, <2>0 DEF DanglingInv, NoDanglingResource, ListTypes
      <3>8. QED
        BY <3>5, <3>6, <3>7 DEF DanglingInv
    <2>4. ASSUME NEW s \in Stats, AddStats(s) PROVE DanglingInv'
      <3>1. /\ life[s] = "absent" /\ life' = [life EXCEPT ![s] = "open"]
            /\ statsList' = Append(statsList, s) /\ newStats' = Append(newStats, s)
            /\ UNCHANGED inst
        BY <2>4 DEF AddStats
      <3>2. /\ \A i \in 1..Len(statsList) : statsList[i] # s
            /\ \A i \in 1..Len(newStats) : newStats[i] # s
        BY <3>1 DEF DanglingInv, ListsLive
      <3>3. ListsLive'
        BY <3>1, <3>2, <2>0 DEF DanglingInv, ListsLive, ListTypes
      <3>4. NoDup'
        BY <3>1, <3>2, <2>0 DEF DanglingInv, NoDup, ListTypes
      <3>5. NoDanglingResource'
        BY <3>1, <2>0 DEF DanglingInv, NoDanglingResource, ListTypes
      <3>6. QED
        BY <3>3, <3>4, <3>5 DEF DanglingInv
    <2>5. ASSUME NEW s \in Stats, CloseStats(s) PROVE DanglingInv'
      <3>1. life[s] = "open" /\ life' = [life EXCEPT ![s] = "closed"]
            /\ UNCHANGED <<statsList, newStats, inst>>
        BY <2>5 DEF CloseStats
      <3>2. QED
        BY <3>1, <2>0 DEF DanglingInv, ListsLive, NoDup, NoDanglingResource, ListTypes
    <2>6. CASE \/ Construct \/ ResampleDone \/ SampleBegin \/ ScanSkip \/ ScanDone
               \/ SampleEnd \/ Flush \/ OpenFile \/ CloseFile \/ Close \/ CloseEnd
      <3>1. UNCHANGED <<statsList, newStats, life, inst>>
        BY <2>6 DEF Construct, ResampleDone, SampleBegin, ScanSkip, ScanDone,
                    SampleEnd, Flush, OpenFile, CloseFile, Close, CloseEnd
      <3>2. QED
        BY <3>1, DanglingFrame
    <2>7. ASSUME NEW s \in Stats, WriteSample(s) PROVE DanglingInv'
      <3>1. UNCHANGED <<statsList, newStats, life>> /\ inst' = [inst EXCEPT ![s].archived = value[s], ![s].first = FALSE]
        BY <2>7 DEF WriteSample
      <3>2. inst[s] # None
        BY <2>7 DEF WriteSample, TypeInv, WriteTargets
      <3>3. QED
        BY <3>1, <3>2, <2>0 DEF DanglingInv, ListsLive, NoDup, NoDanglingResource, ListTypes
    <2>8. ASSUME NEW s \in Stats,
                 \/ WriteSampleClosed(s)
                 \/ \E i \in Descs, v \in Vals : SetValue(s, i, v)
          PROVE  DanglingInv'
      <3>1. UNCHANGED <<statsList, newStats, life, inst>>
        BY <2>8 DEF WriteSampleClosed, SetValue
      <3>2. QED
        BY <3>1, DanglingFrame
    <2>9. CASE UNCHANGED vars
      BY <2>9, DanglingFrame DEF vars
    <2>10. QED
      BY <2>1, <2>2, <2>3, <2>4, <2>5, <2>6, <2>7, <2>8, <2>9 DEF Next
  <1>3. QED
    BY <1>1, <1>2, TypeCorrect, PTL DEF Spec

(* No ResourceInst refers to a Statistics object that sampleResources     *)
(* has deleted, in any reachable state of the writer.                      *)
THEOREM NoDangling == Spec => []NoDanglingResource
  <1>1. DanglingInv => NoDanglingResource
    BY DEF DanglingInv
  <1>2. QED
    BY <1>1, DanglingHolds, PTL
-----------------------------------------------------------------------------
-----------------------------------------------------------------------------
(* bytesWritten() never overstates the bytes of the archive files, and   *)
(* the output's count never overstates its buffer, nor misses a write's  *)
(* counted bytes, for every number of samples, flushes and rollovers,   *)
(* until close(): each write adds its counted size, at most its bytes;  *)
(* each flush adds the count to bytesWrittenToFile and resets it; and    *)
(* openFile's new output counts every byte it is handed.                 *)
THEOREM BytesAccounted == Spec => []BytesCounted
  <1>1. Init => BytesCounted
    <2> SUFFICES ASSUME Init PROVE BytesCounted
      OBVIOUS
    <2>1. old \o file = <<>> /\ pending = <<>> /\ toFile = 0 /\ written = 0
      BY DEF Init
    <2>2. QED
      BY <2>1, ByteSizeEmpty DEF BytesCounted
  <1>2. TypeInv /\ BytesCounted /\ [Next]_vars => BytesCounted'
    <2> SUFFICES ASSUME TypeInv, BytesCounted, [Next]_vars PROVE BytesCounted'
      OBVIOUS
    <2>0. /\ old \in Seq(Recs) /\ file \in Seq(Recs) /\ pending \in Seq(Recs)
          /\ written \in Nat /\ toFile \in Nat /\ TypeOK
          /\ \A s \in Stats : DeleteOf(s) \in Seq(Recs)
          /\ \A s \in Stats : inst[s] # None => WrittenBy(s) \in Seq(Recs)
          /\ \A s \in Stats :
               (IF TypeOf[s] \in typeMap THEN <<>> ELSE <<TypeRec(TypeOf[s])>>)
                  \o <<CreateRec(nextInstId, TypeOf[s])>> \in Seq(Recs)
          /\ <<HeaderRec>> \in Seq(Recs) /\ <<SampleRec>> \in Seq(Recs)
      BY RecordsTyped DEF TypeInv, TypeOK
    <2>1. CASE pc = "closed"
      <3>1. pc' = "closed"
        BY <2>1 DEF Next, vars, Construct, ResampleStep, ResampleDone, SampleBegin,
                    AllocNew, ScanErase, ScanSkip, ScanDone, SampleEnd, WriteSample,
                    WriteSampleClosed, Flush, OpenFile, CloseFile, Close, CloseEnd,
                    AddStats, CloseStats, SetValue
      <3>2. QED
        BY <3>1 DEF BytesCounted
    <2> DEFINE Counted ==
                 /\ Len(old \o file) <= toFile /\ toFile <= ByteSize(old \o file)
                 /\ Len(pending) <= written /\ written <= ByteSize(pending)
    <2>s. SUFFICES ASSUME pc # "closed" PROVE BytesCounted'
      BY <2>1
    <2>2. Counted /\ pc # "closed"
      BY <2>s DEF BytesCounted
    <2>p. BytesCounted' <=>
            (pc' # "closed" =>
               /\ Len(old' \o file') <= toFile' /\ toFile' <= ByteSize(old' \o file')
               /\ Len(pending') <= written' /\ written' <= ByteSize(pending'))
      BY DEF BytesCounted
    <2>3. ASSUME UNCHANGED <<old, file, pending, written, toFile>> PROVE BytesCounted'
      BY <2>2, <2>3 DEF BytesCounted
    \* A write of recs appends them and adds their number.
    <2>4. ASSUME NEW recs \in Seq(Recs), Emit(recs), UNCHANGED <<old, file, toFile>>
          PROVE  BytesCounted'
      <3>1. pending' = pending \o recs /\ written' = written + Len(recs)
            /\ Len(pending') = Len(pending) + Len(recs)
        BY <2>0, <2>4 DEF Emit
      <3>2. ByteSize(pending') = ByteSize(pending) + ByteSize(recs)
        BY <2>0, <3>1, ByteSizeConcat
      <3>3. Len(recs) <= ByteSize(recs) /\ ByteSize(recs) \in Nat
            /\ ByteSize(pending) \in Nat
        BY <2>0, ByteSizeType
      <3>4. QED
        BY <2>0, <2>2, <2>p, <2>4, <3>1, <3>2, <3>3
    <2>5. ASSUME NEW s \in Stats, AllocateResourceInst(s), UNCHANGED <<old, file, toFile>>
          PROVE  BytesCounted'
      <3>1. CASE life[s] = "closed"
        BY <2>3, <2>5, <3>1 DEF AllocateResourceInst
      <3>2. CASE life[s] # "closed"
        <4> DEFINE recs == (IF TypeOf[s] \in typeMap THEN <<>> ELSE <<TypeRec(TypeOf[s])>>)
                             \o <<CreateRec(nextInstId, TypeOf[s])>>
        <4>1. recs \in Seq(Recs) /\ Emit(recs) /\ UNCHANGED <<old, file, toFile>>
          BY <2>0, <2>5, <3>2 DEF AllocateResourceInst
        <4>2. QED
          BY <4>1, <2>4, Zenon
      <3>3. QED
        BY <3>1, <3>2
    <2>6. CASE Construct
      <3>1. <<HeaderRec>> \in Seq(Recs) /\ Emit(<<HeaderRec>>) /\ UNCHANGED <<old, file, toFile>>
        BY <2>0, <2>6 DEF Construct, outVars
      <3>2. QED
        BY <3>1, <2>4
    <2>7. CASE ResampleStep
      <3>1. statsList[cur] \in Stats
        BY <2>7 DEF ResampleStep, TypeInv, TypeOK
      <3>2. QED
        BY <2>5, <2>7, <3>1 DEF ResampleStep, outVars
    <2>8. CASE AllocNew
      <3>1. Head(newStats) \in Stats
        BY <2>8, <2>0 DEF AllocNew, TypeOK
      <3>2. QED
        BY <2>3, <2>5, <2>8, <3>1 DEF AllocNew, outVars
    <2>9. CASE ScanErase
      <3>1. statsList[cur] \in Stats
        BY <2>9 DEF ScanErase, TypeInv, TypeOK
      <3>2. QED
        BY <2>0, <2>4, <2>9, <3>1 DEF ScanErase, outVars
    <2>10. CASE ScanDone
      <3>1. <<SampleRec>> \in Seq(Recs) /\ Emit(<<SampleRec>>) /\ UNCHANGED <<old, file, toFile>>
        BY <2>0, <2>10 DEF ScanDone, outVars
      <3>2. QED
        BY <3>1, <2>4
    <2>11. CASE SampleEnd
      <3>1. <<EndRec>> \in Seq(Recs)
        BY RecordsTyped DEF TypeInv
      <3>2. Emit(<<EndRec>>) /\ UNCHANGED <<old, file, toFile>>
        BY <2>11 DEF SampleEnd, outVars
      <3>3. QED
        BY <3>1, <3>2, <2>4, Zenon
    <2>12. ASSUME NEW s \in Stats, WriteSample(s) PROVE BytesCounted'
      <3>1. inst[s] # None
        BY <2>12 DEF WriteSample, TypeInv, WriteTargets
      <3>2. QED
        BY <2>0, <2>4, <2>12, <3>1 DEF WriteSample, outVars
    \* flush: the buffer goes to the file, its count to bytesWrittenToFile.
    <2>13. CASE Flush
      <3>1. /\ old' \o file' = (old \o file) \o pending
            /\ pending' = <<>> /\ written' = 0 /\ toFile' = toFile + written
        BY <2>0, <2>13, ConcatAssociative DEF Flush, OutputFlush, ResetBuffer
      <3>2. old \o file \in Seq(Recs)
        BY <2>0
      <3>3. /\ ByteSize(old' \o file') = ByteSize(old \o file) + ByteSize(pending)
            /\ Len(old' \o file') = Len(old \o file) + Len(pending)
        <4>1. ByteSize((old \o file) \o pending) = ByteSize(old \o file) + ByteSize(pending)
          BY <2>0, <3>2, ByteSizeConcat, Zenon
        <4>2. Len((old \o file) \o pending) = Len(old \o file) + Len(pending)
          BY <2>0, <3>2
        <4>3. QED
          BY <3>1, <4>1, <4>2
      <3>4. ByteSize(<<>>) = 0
        BY ByteSizeEmpty
      <3>5. ByteSize(old \o file) \in Nat /\ ByteSize(pending) \in Nat
        BY <2>0, <3>2, ByteSizeType, Zenon
      <3>6. QED
        BY <2>0, <2>2, <2>p, <3>1, <3>3, <3>4, <3>5
    \* openFile: the file is rolled into the old ones; the count is the copy's.
    <2>14. CASE OpenFile
      <3>1. /\ old' \o file' = old \o file
            /\ pending' = pending /\ written' = ByteSize(pending) /\ toFile' = toFile
        BY <2>0, <2>14, ConcatEmptySeq DEF OpenFile, NewOutput
      <3>2. Len(pending) <= ByteSize(pending) /\ ByteSize(pending) \in Nat
        BY <2>0, ByteSizeType
      <3>3. QED
        BY <2>0, <2>2, <2>p, <3>1, <3>2
    <2>15. CASE CloseEnd
      BY <2>15 DEF CloseEnd, BytesCounted
    <2>16. CASE \/ ResampleDone \/ SampleBegin \/ ScanSkip \/ CloseFile \/ Close
                \/ \E s \in Stats : WriteSampleClosed(s) \/ AddStats(s) \/ CloseStats(s)
                \/ \E s \in Stats, i \in Descs, v \in Vals : SetValue(s, i, v)
      <3>1. UNCHANGED <<old, file, pending, written, toFile>>
        BY <2>16 DEF ResampleDone, SampleBegin, ScanSkip, CloseFile, Close,
                     WriteSampleClosed, AddStats, CloseStats, SetValue, outVars
      <3>2. QED
        BY <2>3, <3>1
    <2>17. CASE UNCHANGED vars
      BY <2>3, <2>17 DEF vars
    <2>18. QED
      BY <2>6, <2>7, <2>8, <2>9, <2>10, <2>11, <2>12, <2>13, <2>14, <2>15, <2>16,
         <2>17 DEF Next
  <1>3. QED
    BY <1>1, <1>2, TypeCorrect, PTL DEF Spec
-----------------------------------------------------------------------------
(* The reader's view of which instances are live, one position at a time: *)
(* a create record with no delete of its id at or after it.              *)
LiveAt(a, m) == a[m].k = "create" /\ ~\E j \in m..Len(a) : a[j] = DeleteRec(a[m].id)

LEMMA LiveInAt ==
  ASSUME NEW a \in Seq(Recs)
  PROVE  LiveIn(a) = {a[m].id : m \in {n \in 1..Len(a) : LiveAt(a, n)}}
  BY DEF LiveIn, LiveAt

(* Appending records that create and delete nothing changes no instance's *)
(* liveness.                                                               *)
LEMMA LiveAppendQuiet ==
  ASSUME NEW a \in Seq(Recs), NEW r \in Seq(Recs),
         \A j \in 1..Len(r) : r[j].k \notin {"create", "delete"}
  PROVE  LiveIn(a \o r) = LiveIn(a)
  <1> DEFINE b == a \o r
  <1>1. /\ b \in Seq(Recs) /\ Len(b) = Len(a) + Len(r)
        /\ \A m \in 1..Len(a) : b[m] = a[m]
        /\ \A m \in Len(a) + 1..Len(b) : b[m] = r[m - Len(a)]
    OBVIOUS
  <1>2. \A m \in Len(a) + 1..Len(b) : b[m].k \notin {"create", "delete"}
    BY <1>1
  <1>3. \A x : DeleteRec(x).k = "delete"
    BY DEF DeleteRec
  <1>4. \A m \in 1..Len(a) : LiveAt(b, m) <=> LiveAt(a, m)
    BY <1>1, <1>2, <1>3 DEF LiveAt
  <1>5. \A m \in 1..Len(b) : LiveAt(b, m) => m \in 1..Len(a)
    BY <1>1, <1>2 DEF LiveAt
  <1>6. {n \in 1..Len(b) : LiveAt(b, n)} = {n \in 1..Len(a) : LiveAt(a, n)}
    BY <1>1, <1>4, <1>5
  <1>7. {b[m].id : m \in {n \in 1..Len(a) : LiveAt(a, n)}}
          = {a[m].id : m \in {n \in 1..Len(a) : LiveAt(a, n)}}
    BY <1>1
  <1>8. QED
    BY <1>1, <1>6, <1>7, LiveInAt

(* A create appended at the end is live: no delete follows it.           *)
LEMMA LiveAppendCreate ==
  ASSUME NEW a \in Seq(Recs), NEW n \in Nat, NEW t \in Types
  PROVE  LiveIn(a \o <<CreateRec(n, t)>>) = LiveIn(a) \cup {n}
  <1> DEFINE b == a \o <<CreateRec(n, t)>>
  <1>0. CreateRec(n, t) \in Recs
    BY RecMembers
  <1>1. /\ b \in Seq(Recs) /\ Len(b) = Len(a) + 1
        /\ \A m \in 1..Len(a) : b[m] = a[m]
        /\ b[Len(a) + 1] = CreateRec(n, t)
    BY <1>0
  <1>2. \A x : CreateRec(n, t) # DeleteRec(x)
    BY DEF CreateRec, DeleteRec
  <1>3. \A m \in 1..Len(a) : LiveAt(b, m) <=> LiveAt(a, m)
    BY <1>1, <1>2 DEF LiveAt
  <1>4. LiveAt(b, Len(a) + 1) /\ b[Len(a) + 1].id = n
    BY <1>1, <1>2 DEF LiveAt, CreateRec
  <1>5. {m \in 1..Len(b) : LiveAt(b, m)}
           = {m \in 1..Len(a) : LiveAt(a, m)} \cup {Len(a) + 1}
    BY <1>1, <1>3, <1>4
  <1>6. {b[m].id : m \in {m \in 1..Len(a) : LiveAt(a, m)} \cup {Len(a) + 1}}
          = {a[m].id : m \in {m \in 1..Len(a) : LiveAt(a, m)}} \cup {n}
    BY <1>1, <1>4
  <1>7. QED
    BY <1>1, <1>5, <1>6, LiveInAt

(* A delete appended at the end ends every create of its id.             *)
LEMMA LiveAppendDelete ==
  ASSUME NEW a \in Seq(Recs), NEW d \in Nat
  PROVE  LiveIn(a \o <<DeleteRec(d)>>) = LiveIn(a) \ {d}
  <1> DEFINE b == a \o <<DeleteRec(d)>>
  <1>0. DeleteRec(d) \in Recs
    BY RecMembers
  <1>1. /\ b \in Seq(Recs) /\ Len(b) = Len(a) + 1
        /\ \A m \in 1..Len(a) : b[m] = a[m]
        /\ b[Len(a) + 1] = DeleteRec(d)
    BY <1>0
  <1>2. \A m \in 1..Len(a) : a[m].k = "create" => a[m].id \in Nat
    BY DEF Recs, HeaderRec, SampleRec, EndRec
  <1>3. \A m \in 1..Len(a) : LiveAt(b, m) <=> LiveAt(a, m) /\ a[m].id # d
    BY <1>1, <1>2 DEF LiveAt, DeleteRec
  <1>4. ~LiveAt(b, Len(a) + 1)
    BY <1>1 DEF LiveAt, DeleteRec
  <1>5. {m \in 1..Len(b) : LiveAt(b, m)}
           = {m \in 1..Len(a) : LiveAt(a, m) /\ a[m].id # d}
    BY <1>1, <1>3, <1>4
  <1>6. {b[m].id : m \in {m \in 1..Len(a) : LiveAt(a, m) /\ a[m].id # d}}
          = {a[m].id : m \in {m \in 1..Len(a) : LiveAt(a, m)}} \ {d}
    BY <1>1
  <1>7. QED
    BY <1>1, <1>5, <1>6, LiveInAt
-----------------------------------------------------------------------------
\* Records that neither create nor delete an instance.
Quiet(r) == \A j \in 1..Len(r) : r[j].k \notin {"create", "delete"}


(* The ids of the map are below resourceInstId and distinct, so the next *)
(* create is fresh and a delete drops the id of one entry only.          *)
IdsDistinct ==
    /\ \A s \in Stats : inst[s] # None => inst[s].id < nextInstId
    /\ \A s, x \in Stats : inst[s] # None /\ inst[x] # None /\ inst[s].id = inst[x].id
                             => s = x

(* Before the constructor, and in its loop ahead of the iterator, no      *)
(* listed statistics has a ResourceInst: every create it emits enters the *)
(* map.                                                                    *)
NoInstBeforeCtor ==
    /\ pc = "unbuilt" => \A s \in Stats : inst[s] = None
    /\ pc = "ctor" => \A i \in cur..Len(statsList) : inst[statsList[i]] = None

\* The strengthening of LiveIds.
IdsFresh == IdsDistinct /\ NoInstBeforeCtor

\* A write appends its records to the archive.
LEMMA ArchiveEmit ==
  ASSUME TypeInv, NEW recs \in Seq(Recs), Emit(recs), UNCHANGED <<old, file>>
  PROVE  /\ Archive \in Seq(Recs)
         /\ Archive' = Archive \o recs
  <1>1. old \in Seq(Recs) /\ file \in Seq(Recs) /\ pending \in Seq(Recs)
    BY DEF TypeInv
  <1>2. pending' = pending \o recs
    BY DEF Emit
  <1>3. old \o file \in Seq(Recs) /\ old' = old /\ file' = file
    BY <1>1
  <1>4. Archive \in Seq(Recs)
    BY <1>1, <1>3 DEF Archive
  <1>5. Archive' = (old \o file) \o (pending \o recs)
    BY <1>2, <1>3 DEF Archive
  <1>6. (old \o file) \o (pending \o recs) = ((old \o file) \o pending) \o recs
    BY <1>1, <1>3, ConcatAssociative
  <1>7. QED
    BY <1>4, <1>5, <1>6 DEF Archive

(* flush moves the buffer into the file and openFile the file into the   *)
(* old ones: the archive is the same.                                      *)
LEMMA ArchiveMoves ==
  ASSUME old \in Seq(Recs), file \in Seq(Recs), pending \in Seq(Recs)
  PROVE  /\ old \o (file \o pending) \o <<>> = Archive
         /\ (old \o file) \o <<>> \o pending = Archive
         /\ old \o (file \o (pending \o <<EndRec>>)) \o <<>> = Archive \o <<EndRec>>
  <1>1. EndRec \in Recs
    BY RecMembers
  <1>2. file \o pending \in Seq(Recs) /\ old \o file \in Seq(Recs)
    OBVIOUS
  <1>3. old \o (file \o pending) \o <<>> = Archive
    BY <1>2, ConcatAssociative, ConcatEmptySeq DEF Archive
  <1>4. (old \o file) \o <<>> \o pending = Archive
    BY <1>2, ConcatEmptySeq DEF Archive
  <1>5. pending \o <<EndRec>> \in Seq(Recs)
    BY <1>1
  <1>6. old \o (file \o (pending \o <<EndRec>>)) = Archive \o <<EndRec>>
    BY <1>1, <1>5, ConcatAssociative DEF Archive
  <1>7. old \o (file \o (pending \o <<EndRec>>)) \in Seq(Recs)
    BY <1>5
  <1>8. old \o (file \o (pending \o <<EndRec>>)) \o <<>> = Archive \o <<EndRec>>
    BY <1>6, <1>7, ConcatEmptySeq
  <1>9. QED
    BY <1>3, <1>4, <1>8, Zenon

(* allocateResourceInst of a statistics with no ResourceInst: if it is    *)
(* not closed, the entry it inserts has the id of the create it writes,  *)
(* a fresh one.                                                            *)
LEMMA AllocIds ==
  ASSUME TypeInv, IdsDistinct, LiveIds, NEW s \in Stats, inst[s] = None,
         AllocateResourceInst(s), UNCHANGED <<old, file>>
  PROVE  IdsDistinct' /\ LiveIds'
  <1>1. CASE life[s] = "closed"
    <2>1. UNCHANGED <<inst, nextInstId, pending>>
      BY <1>1 DEF AllocateResourceInst
    <2>2. QED
      BY <2>1 DEF IdsDistinct, LiveIds, InstIds, Archive
  <1>2. CASE life[s] # "closed"
    <2> DEFINE n == nextInstId
               t == TypeOf[s]
               ty == IF t \in typeMap THEN <<>> ELSE <<TypeRec(t)>>
               new == [id |-> n, archived |-> Zero, first |-> TRUE, out |-> buf]
    <2>1. /\ inst' = [inst EXCEPT ![s] = new]
          /\ nextInstId' = n + 1
          /\ Emit(ty \o <<CreateRec(n, t)>>)
      BY <1>2 DEF AllocateResourceInst
    <2>2. n \in Nat /\ t \in Types /\ inst \in [Stats -> InstType \cup {None}]
      BY BoundsAssumption DEF TypeInv, TypeOK
    <2>3. ty \in Seq(Recs) /\ Quiet(ty) /\ CreateRec(n, t) \in Recs
      <3>1. CreateRec(n, t) \in Recs /\ TypeRec(t) \in Recs
        BY <2>2, RecMembers
      <3>2. CASE t \in typeMap
        BY <3>1, <3>2 DEF Quiet
      <3>3. CASE t \notin typeMap
        <4>0. ty = <<TypeRec(t)>>
          BY <3>3
        <4>1. TypeRec(t).k \notin {"create", "delete"}
          BY DEF TypeRec
        <4>2. ty \in Seq(Recs)
          BY <3>1, <4>0
        <4>3. Quiet(ty)
          <5>1. Len(ty) = 1 /\ ty[1] = TypeRec(t)
            BY <4>0
          <5>2. \A j \in 1..Len(ty) : j = 1
            BY <5>1
          <5>3. ty[1].k \notin {"create", "delete"}
            BY <4>1, <5>1
          <5>4. QED
            BY <5>2, <5>3 DEF Quiet
        <4>4. QED
          BY <3>1, <4>2, <4>3
      <3>4. QED
        BY <3>2, <3>3
    <2>3b. <<CreateRec(n, t)>> \in Seq(Recs)
      BY <2>3
    <2>3a. ty \o <<CreateRec(n, t)>> \in Seq(Recs)
      BY <2>3, <2>3b, ConcatProperties
    <2>4. Archive \in Seq(Recs) /\ Archive' = Archive \o (ty \o <<CreateRec(n, t)>>)
      BY <2>1, <2>3a, ArchiveEmit
    <2>5. Archive' = (Archive \o ty) \o <<CreateRec(n, t)>> /\ Archive \o ty \in Seq(Recs)
      <3>1. Archive \o ty \in Seq(Recs)
        BY <2>3, <2>4, ConcatProperties
      <3>2. (Archive \o ty) \o <<CreateRec(n, t)>> = Archive \o (ty \o <<CreateRec(n, t)>>)
        <4>1. Archive \in Seq(Recs) /\ ty \in Seq(Recs) /\ <<CreateRec(n, t)>> \in Seq(Recs)
          BY <2>3, <2>3b, <2>4
        <4>2. \A a, b, c \in Seq(Recs) : (a \o b) \o c = a \o (b \o c)
          BY ConcatAssociative
        <4>3. QED
          BY <4>1, <4>2
      <3>3. QED
        BY <2>4, <3>1, <3>2
    <2>6a. LiveIn(Archive \o ty) = LiveIn(Archive)
      BY <2>3, <2>4, LiveAppendQuiet DEF Quiet
    <2>6b. LiveIn((Archive \o ty) \o <<CreateRec(n, t)>>) = LiveIn(Archive \o ty) \cup {n}
      BY <2>2, <2>5, LiveAppendCreate
    <2>6. LiveIn(Archive') = LiveIn(Archive) \cup {n}
      BY <2>5, <2>6a, <2>6b
    <2>7. new \in InstType /\ new # None /\ new.id = n
      BY InstTyped, NoneAssumption, BoundsAssumption DEF TypeInv
    <2>8. InstIds' = InstIds \cup {n}
      BY <2>1, <2>2, <2>7 DEF InstIds
    <2>9. IdsDistinct'
      BY <2>1, <2>2, <2>7 DEF IdsDistinct, InstType
    <2>10. QED
      BY <2>6, <2>8, <2>9 DEF LiveIds, InstIds
  <1>3. QED
    BY <1>1, <1>2

\* A write of records that create and delete nothing keeps the live ids.
LEMMA QuietEmit ==
  ASSUME TypeInv, NEW recs \in Seq(Recs), Quiet(recs), Emit(recs), UNCHANGED <<old, file>>
  PROVE  LiveIn(Archive') = LiveIn(Archive)
  <1>1. Archive \in Seq(Recs) /\ Archive' = Archive \o recs
    BY ArchiveEmit
  <1>2. QED
    BY <1>1, LiveAppendQuiet DEF Quiet

\* A step that leaves the map and the live ids alone keeps IdsDistinct and LiveIds.
LEMMA LiveFrame ==
  ASSUME IdsDistinct, LiveIds, UNCHANGED <<inst, nextInstId>>,
         LiveIn(Archive') = LiveIn(Archive)
  PROVE  IdsDistinct' /\ LiveIds'
  BY DEF IdsDistinct, LiveIds, InstIds

\* A step that leaves the map alone, and the constructor's loop if it is in it.
LEMMA CtorFrame ==
  ASSUME NoInstBeforeCtor, UNCHANGED inst,
         pc' = "unbuilt" => pc = "unbuilt",
         pc' = "ctor" => pc = "ctor" /\ UNCHANGED <<statsList, cur>>
  PROVE  NoInstBeforeCtor'
  BY DEF NoInstBeforeCtor

(* The map's ids are fresh and the instances live in the archive are      *)
(* exactly those of resourceInstMap, in every reachable state: the        *)
(* constructor's loop and sampleResources write a create exactly when     *)
(* they insert an entry, with the fresh id they give it, and the scan a   *)
(* delete exactly when it erases one; nothing else the writer does (the   *)
(* flushes and rollovers included) creates or deletes one.                 *)
THEOREM FreshHolds == Spec => [](IdsFresh /\ LiveIds)
  <1>1. Init => IdsFresh /\ LiveIds
    <2> SUFFICES ASSUME Init PROVE IdsFresh /\ LiveIds
      OBVIOUS
    <2>1. IdsFresh
      BY DEF Init, IdsFresh, IdsDistinct, NoInstBeforeCtor
    <2>2. Archive = <<>> /\ InstIds = {}
      BY DEF Init, InstIds, Archive
    <2>3. QED
      BY <2>1, <2>2 DEF LiveIds, LiveIn
  <1>2. TypeInv /\ TypeInv' /\ DanglingInv /\ IdsFresh /\ LiveIds /\ [Next]_vars
          => IdsFresh' /\ LiveIds'
    <2> SUFFICES ASSUME TypeInv, TypeInv', DanglingInv, IdsFresh, LiveIds, [Next]_vars
                 PROVE  IdsFresh' /\ LiveIds'
      OBVIOUS
    <2>0. /\ IdsDistinct /\ NoInstBeforeCtor
          /\ old \in Seq(Recs) /\ file \in Seq(Recs) /\ pending \in Seq(Recs)
          /\ ListTypes
      BY DEF IdsFresh, TypeInv, TypeOK, ListTypes
    <2>1. CASE Construct
      <3>1. /\ pc = "unbuilt" /\ pc' = "ctor" /\ cur' = 1
            /\ UNCHANGED <<inst, nextInstId, statsList, old, file>>
            /\ Emit(<<HeaderRec>>)
        BY <2>1 DEF Construct
      <3>2. <<HeaderRec>> \in Seq(Recs) /\ Quiet(<<HeaderRec>>)
        BY RecMembers DEF Quiet, HeaderRec
      <3>3. IdsDistinct' /\ LiveIds'
        BY <2>0, <3>1, <3>2, QuietEmit, LiveFrame
      <3>4. NoInstBeforeCtor'
        BY <2>0, <3>1 DEF NoInstBeforeCtor, ListTypes
      <3>5. QED
        BY <3>3, <3>4 DEF IdsFresh
    <2>2. CASE ResampleStep
      <3> DEFINE s == statsList[cur]
      <3>1. /\ pc = "ctor" /\ cur \in 1..Len(statsList) /\ s \in Stats
            /\ AllocateResourceInst(s)
            /\ UNCHANGED <<pc, statsList, old, file>> /\ cur' = cur + 1
        BY <2>2, <2>0 DEF ResampleStep, TypeInv, TypeOK, ListTypes
      <3>2. inst[s] = None
        BY <3>1, <2>0 DEF NoInstBeforeCtor
      <3>3. IdsDistinct' /\ LiveIds'
        BY <2>0, <3>1, <3>2, AllocIds
      <3>4. \A y \in Stats : y # s => inst'[y] = inst[y]
        BY <3>1, <2>0 DEF AllocateResourceInst, ListTypes
      <3>5. \A i \in cur + 1..Len(statsList) : statsList[i] # s
        BY <3>1 DEF DanglingInv, NoDup
      <3>6. NoInstBeforeCtor'
        <4>1. \A i \in cur + 1..Len(statsList) : inst'[statsList[i]] = None
          <5>1. \A i \in cur + 1..Len(statsList) :
                   statsList[i] \in Stats /\ inst[statsList[i]] = None
            BY <3>1, <2>0 DEF NoInstBeforeCtor, ListTypes
          <5>2. QED
            BY <3>4, <3>5, <5>1
        <4>2. QED
          BY <3>1, <4>1 DEF NoInstBeforeCtor
      <3>7. QED
        BY <3>3, <3>6 DEF IdsFresh
    <2>3. CASE AllocNew
      <3> DEFINE s == Head(newStats)
      <3>1. /\ s \in Stats /\ pc = "alloc" /\ pc' = "alloc"
            /\ UNCHANGED <<old, file>>
        BY <2>3, <2>0 DEF AllocNew, ListTypes
      <3>2. CASE resourceInstMapHas(s)
        <4>1. UNCHANGED <<inst, nextInstId, pending>>
          BY <2>3, <3>2 DEF AllocNew
        <4>2. IdsDistinct' /\ LiveIds'
          BY <3>1, <4>1, <2>0, LiveFrame DEF Archive
        <4>3. QED
          BY <3>1, <4>2 DEF IdsFresh, NoInstBeforeCtor
      <3>3. CASE ~resourceInstMapHas(s)
        <4>1. inst[s] = None /\ AllocateResourceInst(s)
          BY <2>3, <3>3 DEF AllocNew, resourceInstMapHas
        <4>2. IdsDistinct' /\ LiveIds'
          BY <3>1, <4>1, <2>0, AllocIds
        <4>3. QED
          BY <3>1, <4>2 DEF IdsFresh, NoInstBeforeCtor
      <3>4. QED
        BY <3>2, <3>3
    <2>4. CASE ScanErase
      <3> DEFINE x == statsList[cur]
      <3>1. /\ pc' = "alloc" /\ x \in Stats
            /\ Emit(DeleteOf(x)) /\ inst' = [inst EXCEPT ![x] = None]
            /\ UNCHANGED <<nextInstId, old, file>>
        BY <2>4, <2>0 DEF ScanErase, TypeInv, TypeOK, ListTypes
      <3>2. NoInstBeforeCtor'
        BY <3>1 DEF NoInstBeforeCtor
      <3>3. CASE inst[x] = None
        <4>1. DeleteOf(x) = <<>> /\ inst' = inst
          BY <3>1, <3>3, <2>0 DEF DeleteOf, ListTypes
        <4>2. <<>> \in Seq(Recs) /\ Quiet(<<>>)
          BY DEF Quiet
        <4>3. LiveIn(Archive') = LiveIn(Archive)
          BY <3>1, <4>1, <4>2, QuietEmit
        <4>4. QED
          BY <3>1, <3>2, <4>1, <4>3, <2>0, LiveFrame DEF IdsFresh
      <3>4. CASE inst[x] # None
        <4> DEFINE d == inst[x].id
        <4>0. inst[x] \in InstType
          BY <3>1, <3>4, <2>0 DEF ListTypes
        <4>0a. d \in Nat /\ DeleteOf(x) = <<DeleteRec(d)>>
          BY <4>0, <3>4 DEF DeleteOf, InstType
        <4>1. d \in Nat /\ DeleteOf(x) = <<DeleteRec(d)>> /\ DeleteRec(d) \in Recs
          BY <4>0a, RecMembers
        <4>1a. Emit(<<DeleteRec(d)>>) /\ <<DeleteRec(d)>> \in Seq(Recs)
          BY <3>1, <4>1 DEF Emit
        <4>2. Archive \in Seq(Recs) /\ Archive' = Archive \o <<DeleteRec(d)>>
          BY <3>1, <4>1a, ArchiveEmit
        <4>3. LiveIn(Archive') = LiveIn(Archive) \ {d}
          BY <4>1, <4>2, LiveAppendDelete
        <4>4. InstIds' = InstIds \ {d}
          <5>1. \A y \in Stats : inst'[y] = IF y = x THEN None ELSE inst[y]
            BY <3>1, <2>0 DEF ListTypes
          <5>2. \A y \in Stats : inst[y] # None /\ y # x => inst[y].id # d
            BY <3>4, <3>1, <2>0 DEF IdsDistinct
          <5>3. QED
            BY <3>1, <3>4, <5>1, <5>2 DEF InstIds
        <4>5. IdsDistinct'
          BY <3>1, <2>0 DEF IdsDistinct, ListTypes
        <4>6. QED
          BY <3>2, <4>3, <4>4, <4>5 DEF IdsFresh, LiveIds, InstIds
      <3>5. QED
        BY <3>3, <3>4
    <2>5. CASE ScanDone \/ SampleEnd
      <3>1. /\ pc' \in {"write", "idle"}
            /\ UNCHANGED <<inst, nextInstId, old, file>>
            /\ Emit(<<SampleRec>>) \/ Emit(<<EndRec>>)
        BY <2>5 DEF ScanDone, SampleEnd
      <3>2. /\ <<SampleRec>> \in Seq(Recs) /\ Quiet(<<SampleRec>>)
            /\ <<EndRec>> \in Seq(Recs) /\ Quiet(<<EndRec>>)
        BY RecMembers DEF Quiet, SampleRec, EndRec
      <3>3. LiveIn(Archive') = LiveIn(Archive)
        BY <3>1, <3>2, QuietEmit
      <3>4. QED
        BY <3>1, <3>3, <2>0, LiveFrame DEF IdsFresh, NoInstBeforeCtor
    <2>6. ASSUME NEW s \in Stats, WriteSample(s) PROVE IdsFresh' /\ LiveIds'
      <3>1. /\ pc' = "write" /\ inst[s] # None
            /\ inst' = [inst EXCEPT ![s].archived = value[s], ![s].first = FALSE]
            /\ Emit(WrittenBy(s))
            /\ UNCHANGED <<nextInstId, old, file>>
        BY <2>6 DEF WriteSample, TypeInv, WriteTargets
      <3>2. inst[s] \in InstType /\ value[s] \in [Descs -> Vals]
        BY <3>1, <2>0 DEF ListTypes, TypeInv, TypeOK
      <3>3. /\ [inst[s] EXCEPT !.archived = value[s], !.first = FALSE] \in InstType
            /\ [inst[s] EXCEPT !.archived = value[s], !.first = FALSE].id = inst[s].id
        BY <3>2, Zenon DEF InstType
      <3>4. /\ inst'[s] = [inst[s] EXCEPT !.archived = value[s], !.first = FALSE]
            /\ \A y \in Stats : y # s => inst'[y] = inst[y]
        BY <3>1, <2>0, Zenon DEF ListTypes
      <3>5. inst'[s] # None /\ inst'[s].id = inst[s].id
        BY <3>3, <3>4, NoneAssumption
      <3>5a. \A y \in Stats : /\ inst'[y] # None <=> inst[y] # None
                            /\ inst'[y].id = inst[y].id
        BY <3>1, <3>4, <3>5, Zenon
      <3>6. InstIds' = InstIds
        BY <3>5a DEF InstIds
      <3>7a. WrittenBy(s) \in Seq(Recs)
        BY <3>1, RecordsTyped DEF TypeInv
      <3>7b. Quiet(WrittenBy(s))
        BY DEF Quiet, WrittenBy, InstRec
      <3>8. LiveIn(Archive') = LiveIn(Archive)
        BY <3>1, <3>7a, <3>7b, QuietEmit
      <3>9a. nextInstId' = nextInstId
        BY <3>1
      <3>9. IdsDistinct'
        BY <2>0, <3>5a, <3>9a DEF IdsDistinct
      <3>10. QED
        BY <3>1, <3>6, <3>8, <3>9 DEF IdsFresh, NoInstBeforeCtor, LiveIds, InstIds
    <2>7. CASE Flush \/ OpenFile \/ CloseEnd
      <3>1. /\ pc' \in {"idle", "closed"}
            /\ UNCHANGED <<inst, nextInstId>>
            /\ \/ /\ old' = old /\ file' = file \o pending /\ pending' = <<>>
               \/ /\ old' = old \o file /\ file' = <<>> /\ pending' = pending
               \/ /\ old' = old /\ file' = file \o (pending \o <<EndRec>>) /\ pending' = <<>>
        BY <2>7 DEF Flush, OpenFile, CloseEnd, OutputFlush, ResetBuffer, NewOutput
      <3>2. Archive' = Archive \/ Archive' = Archive \o <<EndRec>>
        BY <3>1, <2>0, ArchiveMoves DEF Archive
      <3>3. <<EndRec>> \in Seq(Recs) /\ Quiet(<<EndRec>>) /\ Archive \in Seq(Recs)
        BY <2>0, RecMembers DEF Quiet, EndRec, Archive
      <3>4. LiveIn(Archive') = LiveIn(Archive)
        BY <3>2, <3>3, LiveAppendQuiet DEF Quiet
      <3>5. QED
        BY <3>1, <3>4, <2>0, LiveFrame DEF IdsFresh, NoInstBeforeCtor
    <2>8. CASE \/ ResampleDone \/ SampleBegin \/ ScanSkip \/ CloseFile \/ Close
               \/ \E s \in Stats : WriteSampleClosed(s) \/ AddStats(s) \/ CloseStats(s)
               \/ \E s \in Stats, i \in Descs, v \in Vals : SetValue(s, i, v)
               \/ UNCHANGED vars
      <3>1. UNCHANGED <<inst, nextInstId, old, file, pending>>
        BY <2>8 DEF ResampleDone, SampleBegin, ScanSkip, CloseFile, Close,
                    WriteSampleClosed, AddStats, CloseStats, SetValue, vars
      <3>2. /\ pc' = "unbuilt" => pc = "unbuilt"
            /\ pc' = "ctor" => pc = "ctor" /\ UNCHANGED <<statsList, cur>>
        BY <2>8 DEF ResampleDone, SampleBegin, ScanSkip, CloseFile, Close,
                    WriteSampleClosed, AddStats, CloseStats, SetValue, vars
      <3>3. QED
        BY <3>1, <3>2, <2>0, LiveFrame, CtorFrame DEF Archive, IdsFresh
    <2>9. QED
      BY <2>1, <2>2, <2>3, <2>4, <2>5, <2>6, <2>7, <2>8 DEF Next
  <1>3. QED
    BY <1>1, <1>2, TypeCorrect, DanglingHolds, PTL DEF Spec

(* The instances live in the archive are exactly those of                 *)
(* resourceInstMap, in every reachable state of the writer.                *)
THEOREM LiveIdsHold == Spec => []LiveIds
  BY FreshHolds, PTL
-----------------------------------------------------------------------------
\* An archive is a prefix of itself with records appended.
LEMMA AppendExtends ==
  ASSUME NEW a \in Seq(Recs), NEW r \in Seq(Recs)
  PROVE  Len(a) <= Len(a \o r) /\ SubSeq(a \o r, 1, Len(a)) = a
  OBVIOUS

(* A step of the writer appends records to the archive or leaves it      *)
(* alone: the writes append to the buffer, and flush, openFile and close  *)
(* move records between the buffer, the file and the earlier files.       *)
LEMMA ArchiveStep ==
  ASSUME TypeInv, [Next]_vars
  PROVE  \E r \in Seq(Recs) : Archive' = Archive \o r
  <1>0. /\ old \in Seq(Recs) /\ file \in Seq(Recs) /\ pending \in Seq(Recs)
        /\ Archive \in Seq(Recs) /\ Archive \o <<>> = Archive
        /\ <<>> \in Seq(Recs) /\ TypeOK
    BY ConcatEmptySeq DEF TypeInv, Archive
  <1>1. ASSUME NEW recs \in Seq(Recs), Emit(recs), UNCHANGED <<old, file>>
        PROVE  \E r \in Seq(Recs) : Archive' = Archive \o r
    BY <1>1, ArchiveEmit
  <1>2. ASSUME UNCHANGED <<old, file, pending>>
        PROVE  \E r \in Seq(Recs) : Archive' = Archive \o r
    BY <1>0, <1>2 DEF Archive
  <1>3. ASSUME NEW s \in Stats, AllocateResourceInst(s), UNCHANGED <<old, file>>
        PROVE  \E r \in Seq(Recs) : Archive' = Archive \o r
    <2>1. CASE life[s] = "closed"
      BY <1>2, <1>3, <2>1 DEF AllocateResourceInst
    <2>2. CASE life[s] # "closed"
      <3>1. Emit((IF TypeOf[s] \in typeMap THEN <<>> ELSE <<TypeRec(TypeOf[s])>>)
                 \o <<CreateRec(nextInstId, TypeOf[s])>>)
        BY <1>3, <2>2 DEF AllocateResourceInst
      <3>2. QED
        BY <1>0, <1>1, <1>3, <3>1, RecordsTyped
    <2>3. QED
      BY <2>1, <2>2
  <1>4. CASE Construct \/ ScanDone \/ SampleEnd
    <2>1. UNCHANGED <<old, file>>
          /\ (Emit(<<HeaderRec>>) \/ Emit(<<SampleRec>>) \/ Emit(<<EndRec>>))
      BY <1>4 DEF Construct, ScanDone, SampleEnd
    <2>2. QED
      BY <1>0, <1>1, <2>1, RecordsTyped
  <1>5. CASE ResampleStep
    <2>1. cur \in 1..Len(statsList) /\ statsList[cur] \in Stats
      BY <1>5, <1>0 DEF ResampleStep, TypeInv, TypeOK
    <2>2. QED
      BY <1>5, <2>1, <1>3 DEF ResampleStep
  <1>6. CASE AllocNew
    <2>1. Head(newStats) \in Stats
      BY <1>6, <1>0 DEF AllocNew, TypeOK
    <2>2. CASE resourceInstMapHas(Head(newStats))
      BY <1>6, <2>2, <1>2 DEF AllocNew
    <2>3. CASE ~resourceInstMapHas(Head(newStats))
      BY <1>6, <2>1, <2>3, <1>3 DEF AllocNew
    <2>4. QED
      BY <2>2, <2>3
  <1>7. CASE ScanErase
    <2>1. cur \in 1..Len(statsList) /\ statsList[cur] \in Stats
      BY <1>7, <1>0 DEF ScanErase, TypeInv, TypeOK
    <2>2. Emit(DeleteOf(statsList[cur])) /\ UNCHANGED <<old, file>>
      BY <1>7 DEF ScanErase
    <2>3. QED
      BY <1>0, <1>1, <2>1, <2>2, RecordsTyped
  <1>8. ASSUME NEW s \in Stats, WriteSample(s)
        PROVE  \E r \in Seq(Recs) : Archive' = Archive \o r
    <2>1. inst[s] # None /\ Emit(WrittenBy(s)) /\ UNCHANGED <<old, file>>
      BY <1>8 DEF WriteSample, TypeInv, WriteTargets
    <2>2. QED
      BY <1>0, <1>1, <2>1, RecordsTyped
  <1>9. CASE Flush \/ OpenFile \/ CloseEnd
    <2>1. \/ /\ old' = old /\ file' = file \o pending /\ pending' = <<>>
          \/ /\ old' = old \o file /\ file' = <<>> /\ pending' = pending
          \/ /\ old' = old /\ file' = file \o (pending \o <<EndRec>>) /\ pending' = <<>>
      BY <1>9 DEF Flush, OpenFile, CloseEnd, OutputFlush, ResetBuffer, NewOutput
    <2>2. Archive' = Archive \/ Archive' = Archive \o <<EndRec>>
      BY <1>0, <2>1, ArchiveMoves DEF Archive
    <2>3. <<EndRec>> \in Seq(Recs)
      BY RecMembers
    <2>4. QED
      BY <1>0, <2>2, <2>3
  <1>10. CASE \/ ResampleDone \/ SampleBegin \/ ScanSkip \/ CloseFile \/ Close
              \/ \E s \in Stats : WriteSampleClosed(s) \/ AddStats(s) \/ CloseStats(s)
              \/ \E s \in Stats, i \in Descs, v \in Vals : SetValue(s, i, v)
              \/ UNCHANGED vars
    <2>1. UNCHANGED <<old, file, pending>>
      BY <1>10 DEF ResampleDone, SampleBegin, ScanSkip, CloseFile, Close,
                   WriteSampleClosed, AddStats, CloseStats, SetValue, vars
    <2>2. QED
      BY <2>1, <1>2
  <1>11. QED
    BY <1>4, <1>5, <1>6, <1>7, <1>8, <1>9, <1>10 DEF Next

(* No token the writer has written is ever lost or changed, for every     *)
(* number of samples, flushes and rollovers: each write appends to the     *)
(* buffer, flush moves it to the file, openFile moves the file among the  *)
(* earlier ones and copies the unflushed bytes into the new output, and   *)
(* close's flush writes the rest.                                          *)
THEOREM AppendOnly == Spec => ArchiveAppendOnly
  <1>1. TypeInv /\ [Next]_vars
          => [Len(Archive) <= Len(Archive') /\ SubSeq(Archive', 1, Len(Archive)) = Archive]_vars
    <2> SUFFICES ASSUME TypeInv, [Next]_vars
                 PROVE  Len(Archive) <= Len(Archive') /\ SubSeq(Archive', 1, Len(Archive)) = Archive
      OBVIOUS
    <2>1. Archive \in Seq(Recs)
      BY DEF TypeInv, Archive
    <2>2. PICK r \in Seq(Recs) : Archive' = Archive \o r
      BY ArchiveStep
    <2>3. QED
      BY <2>1, <2>2, AppendExtends
  <1>2. QED
    BY <1>1, TypeCorrect, PTL DEF Spec, ArchiveAppendOnly
-----------------------------------------------------------------------------
(* The refinement of ArchiveLog.  Each lemma turns a change of the        *)
(* archive, the map's ids and resourceInstId into a step of the log.      *)

\* What a step appends to an archive is what was appended.
LEMMA AddedIs ==
  ASSUME NEW a \in Seq(Recs), NEW r \in Seq(Recs), NEW b, b = a \o r
  PROVE  SubSeq(b, Len(a) + 1, Len(b)) = r
  OBVIOUS

LEMMA LogStutter ==
  ASSUME Archive' = Archive, InstIds' = InstIds, nextInstId' = nextInstId
  PROVE  UNCHANGED Log!vars
  BY DEF Log!vars

LEMMA LogWrite ==
  ASSUME Archive \in Seq(Recs), NEW r \in Seq(Recs), Quiet(r),
         Archive' = Archive \o r, InstIds' = InstIds, nextInstId' = nextInstId
  PROVE  Log!Write
  <1>1. Log!Grows
    BY AppendExtends DEF Log!Grows
  <1>2. Log!Added = r
    <2>1. SubSeq(Archive', Len(Archive) + 1, Len(Archive')) = r
      BY AddedIs
    <2>2. QED
      BY <2>1 DEF Log!Added
  <1>3. QED
    BY <1>1, <1>2 DEF Log!Write, Log!Quiet, Quiet

LEMMA LogCreate ==
  ASSUME Archive \in Seq(Recs), NEW q \in Seq(Recs), Quiet(q), NEW t,
         CreateRec(nextInstId, t) \in Recs,
         Archive' = Archive \o (q \o <<CreateRec(nextInstId, t)>>),
         InstIds' = InstIds \cup {nextInstId}, nextInstId' = nextInstId + 1
  PROVE  Log!Create
  <1> DEFINE c == CreateRec(nextInstId, t)
  <1>1. q \o <<c>> \in Seq(Recs)
    OBVIOUS
  <1>2. Log!Grows
    BY <1>1, AppendExtends DEF Log!Grows
  <1>3. Log!Added = q \o <<c>>
    <2>1. SubSeq(Archive', Len(Archive) + 1, Len(Archive')) = q \o <<c>>
      BY <1>1, AddedIs
    <2>2. QED
      BY <2>1 DEF Log!Added
  <1>4. /\ Len(q \o <<c>>) = Len(q) + 1
        /\ SubSeq(q \o <<c>>, 1, Len(q)) = q
        /\ (q \o <<c>>)[Len(q) + 1] = c
    BY AppendExtends
  <1>5. c.k = "create" /\ c.id = nextInstId
    BY DEF CreateRec
  <1>6. Len(Log!Added) >= 1 /\ Log!Added[Len(Log!Added)] = c
    BY <1>3, <1>4
  <1>7. Log!Quiet(SubSeq(Log!Added, 1, Len(Log!Added) - 1))
    <2>1. SubSeq(Log!Added, 1, Len(Log!Added) - 1) = q
      BY <1>3, <1>4
    <2>2. QED
      BY <2>1 DEF Log!Quiet, Quiet
  <1>8. QED
    BY <1>2, <1>5, <1>6, <1>7 DEF Log!Create

LEMMA LogDelete ==
  ASSUME Archive \in Seq(Recs), NEW d \in InstIds, DeleteRec(d) \in Recs,
         Archive' = Archive \o <<DeleteRec(d)>>,
         InstIds' = InstIds \ {d}, nextInstId' = nextInstId
  PROVE  Log!Delete
  <1>1. Log!Grows
    BY AppendExtends DEF Log!Grows
  <1>1a. <<DeleteRec(d)>> \in Seq(Recs)
    OBVIOUS
  <1>2a. Log!Added = <<DeleteRec(d)>>
    <2>1. SubSeq(Archive', Len(Archive) + 1, Len(Archive')) = <<DeleteRec(d)>>
      BY <1>1a, AddedIs, Zenon
    <2>2. QED
      BY <2>1 DEF Log!Added
  <1>2. Log!Added = <<[k |-> "delete", id |-> d]>>
    BY <1>2a DEF DeleteRec
  <1>3. QED
    BY <1>1, <1>2 DEF Log!Delete

(* allocateResourceInst of a statistics with no ResourceInst is a create  *)
(* of the log, or nothing if the statistics is closed.                    *)
LEMMA AllocLog ==
  ASSUME TypeInv, NEW s \in Stats, inst[s] = None,
         AllocateResourceInst(s), UNCHANGED <<old, file>>
  PROVE  [Log!Next]_Log!vars
  <1>1. CASE life[s] = "closed"
    <2>1. Archive' = Archive /\ InstIds' = InstIds /\ nextInstId' = nextInstId
      BY <1>1 DEF AllocateResourceInst, Archive, InstIds
    <2>2. QED
      BY <2>1, LogStutter
  <1>2. CASE life[s] # "closed"
    <2> DEFINE n == nextInstId
               t == TypeOf[s]
               ty == IF t \in typeMap THEN <<>> ELSE <<TypeRec(t)>>
               new == [id |-> n, archived |-> Zero, first |-> TRUE, out |-> buf]
    <2>1. /\ inst' = [inst EXCEPT ![s] = new]
          /\ nextInstId' = n + 1
          /\ Emit(ty \o <<CreateRec(n, t)>>)
      BY <1>2 DEF AllocateResourceInst
    <2>2. n \in Nat /\ t \in Types /\ inst \in [Stats -> InstType \cup {None}]
      BY BoundsAssumption DEF TypeInv, TypeOK
    <2>3. ty \in Seq(Recs) /\ Quiet(ty) /\ CreateRec(n, t) \in Recs
      <3>1. CreateRec(n, t) \in Recs /\ TypeRec(t) \in Recs
        BY <2>2, RecMembers
      <3>2. CASE t \in typeMap
        BY <3>1, <3>2 DEF Quiet
      <3>3. CASE t \notin typeMap
        <4>0. ty = <<TypeRec(t)>>
          BY <3>3
        <4>1. TypeRec(t).k \notin {"create", "delete"}
          BY DEF TypeRec
        <4>2. ty \in Seq(Recs)
          BY <3>1, <4>0
        <4>3. Quiet(ty)
          <5>1. Len(ty) = 1 /\ ty[1] = TypeRec(t)
            BY <4>0
          <5>2. \A j \in 1..Len(ty) : j = 1
            BY <5>1
          <5>3. ty[1].k \notin {"create", "delete"}
            BY <4>1, <5>1
          <5>4. QED
            BY <5>2, <5>3 DEF Quiet
        <4>4. QED
          BY <3>1, <4>2, <4>3
      <3>4. QED
        BY <3>2, <3>3
    <2>3b. <<CreateRec(n, t)>> \in Seq(Recs)
      BY <2>3
    <2>3a. ty \o <<CreateRec(n, t)>> \in Seq(Recs)
      BY <2>3, <2>3b, ConcatProperties
    <2>4. Archive \in Seq(Recs) /\ Archive' = Archive \o (ty \o <<CreateRec(n, t)>>)
      BY <2>1, <2>3a, ArchiveEmit
    <2>5. new # None /\ new.id = n
      BY InstTyped, NoneAssumption, BoundsAssumption DEF TypeInv
    <2>6. InstIds' = InstIds \cup {n}
      BY <2>1, <2>2, <2>5 DEF InstIds
    <2>7. Log!Create
      BY <2>1, <2>3, <2>4, <2>6, LogCreate
    <2>8. QED
      BY <2>7 DEF Log!Next
  <1>3. QED
    BY <1>1, <1>2

(* The writer implements ArchiveLog, for every number of statistics,     *)
(* samples, flushes and rollovers: a write appends records that announce *)
(* nothing, allocateResourceInst announces the entry it inserts with     *)
(* resourceInstId, the scan ends the entry it erases, and flush, openFile *)
(* and the steps of the rest of the process leave the log alone.          *)
THEOREM ArchiveRefinement == Spec => ArchiveLogRefined
  <1>1. Init => Log!Init
    BY DEF Init, Log!Init, Archive, InstIds
  <1>2. TypeInv /\ TypeInv' /\ DanglingInv /\ IdsFresh /\ [Next]_vars
          => [Log!Next]_Log!vars
    <2> SUFFICES ASSUME TypeInv, TypeInv', DanglingInv, IdsFresh, [Next]_vars
                 PROVE  [Log!Next]_Log!vars
      OBVIOUS
    <2>0a. /\ IdsDistinct /\ NoInstBeforeCtor
           /\ old \in Seq(Recs) /\ file \in Seq(Recs) /\ pending \in Seq(Recs)
           /\ ListTypes
      BY DEF IdsFresh, TypeInv, TypeOK, ListTypes
    <2>0. /\ IdsDistinct /\ NoInstBeforeCtor
          /\ old \in Seq(Recs) /\ file \in Seq(Recs) /\ pending \in Seq(Recs)
          /\ Archive \in Seq(Recs) /\ ListTypes
      BY <2>0a DEF Archive
    <2>1. ASSUME NEW r \in Seq(Recs), Quiet(r), Emit(r),
                 UNCHANGED <<old, file, nextInstId>>, InstIds' = InstIds
          PROVE  [Log!Next]_Log!vars
      <3>1. Archive' = Archive \o r
        BY <2>1, ArchiveEmit
      <3>2. QED
        BY <2>0, <2>1, <3>1, LogWrite DEF Log!Next
    <2>2. CASE Construct \/ ScanDone \/ SampleEnd
      <3>1. /\ UNCHANGED <<old, file, nextInstId, inst>>
            /\ Emit(<<HeaderRec>>) \/ Emit(<<SampleRec>>) \/ Emit(<<EndRec>>)
        BY <2>2 DEF Construct, ScanDone, SampleEnd
      <3>2. /\ <<HeaderRec>> \in Seq(Recs) /\ Quiet(<<HeaderRec>>)
            /\ <<SampleRec>> \in Seq(Recs) /\ Quiet(<<SampleRec>>)
            /\ <<EndRec>> \in Seq(Recs) /\ Quiet(<<EndRec>>)
        BY RecMembers DEF Quiet, HeaderRec, SampleRec, EndRec
      <3>3. InstIds' = InstIds
        BY <3>1 DEF InstIds
      <3>4. QED
        BY <3>1, <3>2, <3>3, <2>1
    <2>3. CASE ResampleStep
      <3> DEFINE s == statsList[cur]
      <3>1. /\ pc = "ctor" /\ cur \in 1..Len(statsList) /\ s \in Stats
            /\ AllocateResourceInst(s) /\ UNCHANGED <<old, file>>
        BY <2>3, <2>0 DEF ResampleStep, TypeInv, TypeOK, ListTypes
      <3>2. inst[s] = None
        BY <3>1, <2>0 DEF NoInstBeforeCtor
      <3>3. QED
        BY <3>1, <3>2, AllocLog
    <2>4. CASE AllocNew
      <3> DEFINE s == Head(newStats)
      <3>1. s \in Stats /\ UNCHANGED <<old, file>>
        BY <2>4, <2>0 DEF AllocNew, ListTypes
      <3>2. CASE resourceInstMapHas(s)
        <4>1. UNCHANGED <<inst, nextInstId, pending>>
          BY <2>4, <3>2 DEF AllocNew
        <4>2. QED
          BY <3>1, <4>1, LogStutter DEF Archive, InstIds
      <3>3. CASE ~resourceInstMapHas(s)
        <4>1. inst[s] = None /\ AllocateResourceInst(s)
          BY <2>4, <3>3 DEF AllocNew, resourceInstMapHas
        <4>2. QED
          BY <3>1, <4>1, AllocLog
      <3>4. QED
        BY <3>2, <3>3
    <2>5. CASE ScanErase
      <3> DEFINE x == statsList[cur]
      <3>0. cur \in 1..Len(statsList)
        <4>1. cur \in Nat /\ cur >= 1
          BY DEF TypeInv, TypeOK
        <4>2. QED
          BY <2>5, <4>1 DEF ScanErase
      <3>1. /\ x \in Stats
            /\ Emit(DeleteOf(x)) /\ inst' = [inst EXCEPT ![x] = None]
            /\ UNCHANGED <<nextInstId, old, file>>
        <4>1. x \in Stats
          BY <3>0, <2>0 DEF ListTypes
        <4>2. QED
          BY <2>5, <4>1 DEF ScanErase
      <3>2. CASE inst[x] = None
        <4>1. DeleteOf(x) = <<>> /\ inst' = inst
          BY <3>1, <3>2, <2>0 DEF DeleteOf, ListTypes
        <4>1a. Emit(<<>>) /\ <<>> \in Seq(Recs)
          BY <3>1, <4>1 DEF Emit
        <4>2. Archive' = Archive \o <<>>
          BY <3>1, <4>1a, ArchiveEmit
        <4>3. Archive' = Archive
          BY <2>0, <4>2, ConcatEmptySeq
        <4>4. InstIds' = InstIds
          BY <4>1 DEF InstIds
        <4>5. QED
          BY <3>1, <4>3, <4>4, LogStutter
      <3>3. CASE inst[x] # None
        <4> DEFINE d == inst[x].id
        <4>0. inst[x] \in InstType
          BY <3>1, <3>3, <2>0 DEF ListTypes
        <4>0a. d \in Nat /\ DeleteOf(x) = <<DeleteRec(d)>>
          BY <4>0, <3>3 DEF DeleteOf, InstType
        <4>1. d \in Nat /\ DeleteOf(x) = <<DeleteRec(d)>> /\ DeleteRec(d) \in Recs
          BY <4>0a, RecMembers
        <4>2. Emit(<<DeleteRec(d)>>) /\ <<DeleteRec(d)>> \in Seq(Recs)
          BY <3>1, <4>1 DEF Emit
        <4>3. Archive' = Archive \o <<DeleteRec(d)>>
          BY <3>1, <4>2, ArchiveEmit
        <4>4. d \in InstIds /\ InstIds' = InstIds \ {d}
          <5>1. \A y \in Stats : inst'[y] = IF y = x THEN None ELSE inst[y]
            BY <3>1, <2>0 DEF ListTypes
          <5>2. \A y \in Stats : inst[y] # None /\ y # x => inst[y].id # d
            BY <3>3, <3>1, <2>0 DEF IdsDistinct
          <5>3. QED
            BY <3>1, <3>3, <5>1, <5>2 DEF InstIds
        <4>5. Log!Delete
          BY <2>0, <3>1, <4>1, <4>3, <4>4, LogDelete
        <4>6. QED
          BY <4>5 DEF Log!Next
      <3>4. QED
        BY <3>2, <3>3
    <2>6. ASSUME NEW s \in Stats, WriteSample(s) PROVE [Log!Next]_Log!vars
      <3>1. /\ inst[s] # None
            /\ inst' = [inst EXCEPT ![s].archived = value[s], ![s].first = FALSE]
            /\ Emit(WrittenBy(s))
            /\ UNCHANGED <<nextInstId, old, file>>
        BY <2>6 DEF WriteSample, TypeInv, WriteTargets
      <3>2. inst[s] \in InstType /\ value[s] \in [Descs -> Vals]
        BY <3>1, <2>0 DEF ListTypes, TypeInv, TypeOK
      <3>3. /\ [inst[s] EXCEPT !.archived = value[s], !.first = FALSE] \in InstType
            /\ [inst[s] EXCEPT !.archived = value[s], !.first = FALSE].id = inst[s].id
        BY <3>2, Zenon DEF InstType
      <3>4. /\ inst'[s] = [inst[s] EXCEPT !.archived = value[s], !.first = FALSE]
            /\ \A y \in Stats : y # s => inst'[y] = inst[y]
        BY <3>1, <2>0, Zenon DEF ListTypes
      <3>5. inst'[s] # None /\ inst'[s].id = inst[s].id
        BY <3>3, <3>4, NoneAssumption
      <3>6. \A y \in Stats : /\ inst'[y] # None <=> inst[y] # None
                             /\ inst'[y].id = inst[y].id
        BY <3>1, <3>4, <3>5, Zenon
      <3>7. InstIds' = InstIds
        BY <3>6 DEF InstIds
      <3>8a. WrittenBy(s) \in Seq(Recs)
        BY <3>1, RecordsTyped DEF TypeInv
      <3>8b. Quiet(WrittenBy(s))
        BY DEF Quiet, WrittenBy, InstRec
      <3>8. WrittenBy(s) \in Seq(Recs) /\ Quiet(WrittenBy(s))
        BY <3>8a, <3>8b
      <3>9. QED
        BY <3>1, <3>7, <3>8, <2>1
    <2>7. CASE Flush \/ OpenFile \/ CloseEnd
      <3>1. /\ UNCHANGED <<inst, nextInstId>>
            /\ \/ /\ old' = old /\ file' = file \o pending /\ pending' = <<>>
               \/ /\ old' = old \o file /\ file' = <<>> /\ pending' = pending
               \/ /\ old' = old /\ file' = file \o (pending \o <<EndRec>>) /\ pending' = <<>>
        BY <2>7 DEF Flush, OpenFile, CloseEnd, OutputFlush, ResetBuffer, NewOutput
      <3>2. Archive' = Archive \/ Archive' = Archive \o <<EndRec>>
        BY <3>1, <2>0, ArchiveMoves DEF Archive
      <3>3. <<EndRec>> \in Seq(Recs) /\ Quiet(<<EndRec>>)
        BY RecMembers DEF Quiet, EndRec
      <3>4. InstIds' = InstIds
        BY <3>1 DEF InstIds
      <3>5. CASE Archive' = Archive
        BY <3>1, <3>4, <3>5, LogStutter
      <3>6. CASE Archive' = Archive \o <<EndRec>>
        BY <2>0, <3>1, <3>3, <3>4, <3>6, LogWrite DEF Log!Next
      <3>7. QED
        BY <3>2, <3>5, <3>6
    <2>8. CASE \/ ResampleDone \/ SampleBegin \/ ScanSkip \/ CloseFile \/ Close
               \/ \E s \in Stats : WriteSampleClosed(s) \/ AddStats(s) \/ CloseStats(s)
               \/ \E s \in Stats, i \in Descs, v \in Vals : SetValue(s, i, v)
               \/ UNCHANGED vars
      <3>1. UNCHANGED <<inst, nextInstId, old, file, pending>>
        BY <2>8 DEF ResampleDone, SampleBegin, ScanSkip, CloseFile, Close,
                    WriteSampleClosed, AddStats, CloseStats, SetValue, vars
      <3>2. QED
        BY <3>1, LogStutter DEF Archive, InstIds
    <2>9. QED
      BY <2>2, <2>3, <2>4, <2>5, <2>6, <2>7, <2>8 DEF Next
  <1>3. QED
    BY <1>1, <1>2, TypeCorrect, DanglingHolds, FreshHolds, PTL
       DEF Spec, ArchiveLogRefined, Log!Spec
====
