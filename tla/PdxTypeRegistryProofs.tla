----------------------- MODULE PdxTypeRegistryProofs -----------------------
(* Proofs about PdxTypeRegistry for every value of the constants that     *)
(* satisfies ConstantsAssumption.                                          *)
EXTENDS PdxTypeRegistry, TLAPS

-----------------------------------------------------------------------------
(* The std::map operations keep a table a function from its key set to   *)
(* its value set or None.                                                  *)
LEMMA InsertType ==
  ASSUME NEW D, NEW R, NEW m \in [D -> R \cup {None}], NEW k \in D, NEW v \in R
  PROVE  Insert(m, k, v) \in [D -> R \cup {None}]
  BY DEF Insert

LEMMA PutType ==
  ASSUME NEW D, NEW R, NEW m \in [D -> R \cup {None}], NEW k \in D, NEW v \in R
  PROVE  Put(m, k, v) \in [D -> R \cup {None}]
  BY DEF Put

LEMMA EraseType ==
  ASSUME NEW D, NEW R, NEW m \in [D -> R \cup {None}], NEW k
  PROVE  Erase(m, k) \in [D -> R \cup {None}]
  BY DEF Erase

(* The server's answers lie in the id and code sets. *)
LEMMA ServerAnswers ==
  /\ \A s \in Schemas : TypeIdOf[s] \in Ids
  /\ \A e \in Enums : EnumCodeOf[e] \in Codes
  /\ \A c \in Codes : EnumOf(c) \in Enums
  BY DEF Ids, Codes, EnumOf

-----------------------------------------------------------------------------
(* Type correctness: every table maps its keys to values of the right    *)
(* kind, the expiry tasks stay within the task bound, and each thread's   *)
(* argument suits the call it is in.                                       *)
THEOREM TypeCorrect == Spec => []TypeOK
  <1> USE ConstantsAssumption, ServerAnswers
      DEF TypeOK, EmptyMap, Goto, Return, tableVars, presVars, Steps, TaskIds, Blob,
          Insert, Put, Erase
  <1>1. Init => TypeOK
    BY DEF Init
  <1>2. TypeOK /\ [Next]_vars => TypeOK'
    <2> SUFFICES ASSUME TypeOK, [Next]_vars PROVE TypeOK'
      OBVIOUS
  <2>1. ASSUME NEW t \in Threads, NEW s \in Schemas, CallGetPDXIdForType(t, s)
        PROVE  TypeOK'
    BY <2>1 DEF CallGetPDXIdForType
  <2>2. ASSUME NEW t \in Threads, NEW s \in Schemas, GetPDXIdForLocalType(t, s)
        PROVE  TypeOK'
    <3>1. CASE UNCHANGED <<typeIdField, pc, arg>>
      BY <2>2, <3>1 DEF GetPDXIdForLocalType
    <3>2. CASE /\ typeIdField' = [typeIdField EXCEPT ![s] = TypeIdOf[s]]
               /\ Goto(t, "add_type")
               /\ arg' = [arg EXCEPT ![t] = s]
      BY <2>2, <3>2 DEF GetPDXIdForLocalType
    <3>3. QED
      BY <2>2, <3>1, <3>2 DEF GetPDXIdForLocalType
  <2>3. ASSUME NEW t \in Threads, NEW s \in Schemas, AddLocalPdxType(t, s)
        PROVE  TypeOK'
    BY <2>3 DEF AddLocalPdxType
  <2>4. ASSUME NEW t \in Threads, NEW s \in Schemas, AddPdxType(t, s)
        PROVE  TypeOK'
    BY <2>4 DEF AddPdxType
  <2>5. ASSUME NEW t \in Threads, NEW s \in Schemas, SetMergedTypeLock(t, s)
        PROVE  TypeOK'
    BY <2>5 DEF SetMergedTypeLock
  <2>6. ASSUME NEW t \in Threads, NEW s \in Schemas, CallGetMergedType(t, s)
        PROVE  TypeOK'
    BY <2>6 DEF CallGetMergedType
  <2>7. ASSUME NEW t \in Threads, RevFind(t)
        PROVE  TypeOK'
    <3>1. CASE Return(t) /\ UNCHANGED tableVars
      BY <2>7, <3>1 DEF RevFind
    <3>2. CASE /\ typeIdField' = [typeIdField EXCEPT ![arg[t]] = TypeIdOf[arg[t]]]
               /\ Goto(t, "rev_insert")
               /\ UNCHANGED <<typeIdToPdxType, localTypeToPdxType,
                              remoteTypeIdToMergedPdxType, pdxTypeToTypeIdMap,
                              enumToInt, intToEnum, arg>>
      BY <2>7, <3>2 DEF RevFind
    <3>3. QED
      BY <2>7, <3>1, <3>2 DEF RevFind
  <2>8. ASSUME NEW t \in Threads, RevInsert(t)
        PROVE  TypeOK'
    BY <2>8 DEF RevInsert
  <2>9. ASSUME NEW t \in Threads, AddType(t)
        PROVE  TypeOK'
    BY <2>9 DEF AddType
  <2>10. ASSUME NEW t \in Threads, SetMergedTypeInsert(t)
        PROVE  TypeOK'
    BY <2>10 DEF SetMergedTypeInsert
  <2>11. ASSUME NEW t \in Threads, GetMergedType(t)
        PROVE  TypeOK'
    BY <2>11 DEF GetMergedType
  <2>12. ASSUME NEW t \in Threads, GetEnumValueFind(t)
        PROVE  TypeOK'
    <3>1. UNCHANGED <<tableVars, writer, presVars, serverCalls>>
      BY <2>12 DEF GetEnumValueFind
    <3>2. CASE enumToInt[arg[t]] # None
      <4>1. Return(t)
        BY <2>12, <3>2 DEF GetEnumValueFind
      <4>2. QED
        BY <3>1, <4>1
    <3>3. CASE enumToInt[arg[t]] = None
      <4>1. pc' = [pc EXCEPT ![t] = "ev_lock"] /\ arg' = arg
        BY <2>12, <3>3 DEF GetEnumValueFind
      <4>2. arg[t] \in Enums
        BY <2>12 DEF GetEnumValueFind
      <4>3. QED
        BY <3>1, <4>1, <4>2
    <3>4. QED
      BY <3>2, <3>3
  <2>13. ASSUME NEW t \in Threads, GetEnumValueLock(t)
        PROVE  TypeOK'
    BY <2>13 DEF GetEnumValueLock
  <2>14. ASSUME NEW t \in Threads, GetEnumValueLocked(t)
        PROVE  TypeOK'
    <3>1. /\ arg[t] \in Enums
          /\ writer' = NoThread
          /\ Return(t)
          /\ UNCHANGED <<typeIdToPdxType, localTypeToPdxType, remoteTypeIdToMergedPdxType,
                         pdxTypeToTypeIdMap, intToEnum, typeIdField, presVars>>
      BY <2>14 DEF GetEnumValueLocked
    <3>2. CASE UNCHANGED <<enumToInt, serverCalls>>
      BY <3>1, <3>2
    <3>3. CASE /\ enumToInt' = Insert(enumToInt, arg[t], EnumCodeOf[arg[t]])
               /\ serverCalls' = [serverCalls EXCEPT ![arg[t]] = @ + 1]
      <4>1. enumToInt' \in [Enums -> Codes \cup {None}]
        BY <3>1, <3>3
      <4>2. serverCalls' \in [Enums \cup Codes -> Nat]
        BY <3>1, <3>3
      <4>3. QED
        BY <3>1, <4>1, <4>2
    <3>4. QED
      BY <2>14, <3>2, <3>3 DEF GetEnumValueLocked
  <2>15. ASSUME NEW t \in Threads, GetEnumFind(t)
        PROVE  TypeOK'
    <3>1. UNCHANGED <<tableVars, writer, presVars, serverCalls>>
      BY <2>15 DEF GetEnumFind
    <3>2. CASE intToEnum[arg[t]] # None
      <4>1. Return(t)
        BY <2>15, <3>2 DEF GetEnumFind
      <4>2. QED
        BY <3>1, <4>1
    <3>3. CASE intToEnum[arg[t]] = None
      <4>1. pc' = [pc EXCEPT ![t] = "ge_lock"] /\ arg' = arg
        BY <2>15, <3>3 DEF GetEnumFind
      <4>2. arg[t] \in Codes
        BY <2>15 DEF GetEnumFind
      <4>3. QED
        BY <3>1, <4>1, <4>2
    <3>4. QED
      BY <3>2, <3>3
  <2>16. ASSUME NEW t \in Threads, GetEnumLock(t)
        PROVE  TypeOK'
    BY <2>16 DEF GetEnumLock
  <2>17. ASSUME NEW t \in Threads, GetEnumLocked(t)
        PROVE  TypeOK'
    <3>1. /\ arg[t] \in Codes
          /\ writer' = NoThread
          /\ Return(t)
          /\ UNCHANGED <<typeIdToPdxType, localTypeToPdxType, remoteTypeIdToMergedPdxType,
                         pdxTypeToTypeIdMap, enumToInt, typeIdField, presVars>>
      BY <2>17 DEF GetEnumLocked
    <3>2. CASE UNCHANGED <<intToEnum, serverCalls>>
      BY <3>1, <3>2
    <3>3. CASE /\ intToEnum' = Put(intToEnum, arg[t], EnumOf(arg[t]))
               /\ serverCalls' = [serverCalls EXCEPT ![arg[t]] = @ + 1]
      <4>1. intToEnum' \in [Codes -> Enums \cup {None}]
        BY <3>1, <3>3
      <4>2. serverCalls' \in [Enums \cup Codes -> Nat]
        BY <3>1, <3>3
      <4>3. QED
        BY <3>1, <4>1, <4>2
    <3>4. QED
      BY <2>17, <3>2, <3>3 DEF GetEnumLocked
  <2>18. ASSUME NEW t \in Threads, ClearLock(t)
        PROVE  TypeOK'
    BY <2>18 DEF ClearLock
  <2>19. ASSUME NEW t \in Threads, ClearTables(t)
        PROVE  TypeOK'
    BY <2>19 DEF ClearTables
  <2>20. ASSUME NEW t \in Threads, ClearPreserved(t)
        PROVE  TypeOK'
    BY <2>20 DEF ClearPreserved
  <2>21. ASSUME NEW t \in Threads, NEW e \in Enums, CallGetEnumValue(t, e)
        PROVE  TypeOK'
    BY <2>21 DEF CallGetEnumValue
  <2>22. ASSUME NEW t \in Threads, NEW c \in Codes, CallGetEnum(t, c)
        PROVE  TypeOK'
    BY <2>22 DEF CallGetEnum
  <2>23. ASSUME NEW t \in Threads, NEW o \in Objects, SetPreserveData(t, o)
        PROVE  TypeOK'
    <3>1. /\ sets' = sets + 1
          /\ sets < MaxSets
          /\ UNCHANGED <<tableVars, writer, serverCalls, pc, arg>>
      BY <2>23 DEF SetPreserveData
    <3>2. CASE /\ preserveData[o] # None
               /\ ResetTask(preserveData[o].task, sets + 1)
               /\ preserveData' = [preserveData EXCEPT
                                     ![o] = [ver |-> sets + 1, task |-> preserveData[o].task]]
               /\ UNCHANGED <<taskOwner, nextTask>>
      BY <3>1, <3>2 DEF ResetTask
    <3>3. CASE /\ preserveData[o] = None
               /\ nextTask < MaxTasks
               /\ nextTask' = nextTask + 1
               /\ taskState' = [taskState EXCEPT ![nextTask + 1] = "pending"]
               /\ taskOwner' = [taskOwner EXCEPT ![nextTask + 1] = o]
               /\ taskArm' = [taskArm EXCEPT ![nextTask + 1] = sets + 1]
               /\ preserveData' = Insert(preserveData, o, [ver |-> sets + 1, task |-> nextTask + 1])
      BY <3>1, <3>3
    <3>4. QED
      BY <2>23, <3>2, <3>3 DEF SetPreserveData
  <2>24. ASSUME NEW k \in TaskIds, ExpiryFire(k)
        PROVE  TypeOK'
    BY <2>24 DEF ExpiryFire
  <2>25. ASSUME NEW k \in TaskIds, ExpiryHandle(k)
        PROVE  TypeOK'
    BY <2>25 DEF ExpiryHandle
  <2>26. CASE UNCHANGED vars
    BY <2>26 DEF vars, tableVars, presVars
  <2>27. QED
    BY <2>1, <2>2, <2>3, <2>4, <2>5, <2>6, <2>7, <2>8, <2>9, <2>10, <2>11, <2>12, <2>13, <2>14, <2>15, <2>16, <2>17, <2>18, <2>19, <2>20, <2>21, <2>22, <2>23, <2>24, <2>25, <2>26 DEF Next
  <1>3. QED
    BY <1>1, <1>2, PTL DEF Spec
-----------------------------------------------------------------------------
(* The reverse index.  RevResolvable is not inductive by itself: a step  *)
(* of addPdxType makes typeIdToPdxType answer for TypeIdOf of its schema, *)
(* and that helps the reverse entry of the schema only if that entry holds *)
(* the schema's own id.  RevIds states it: getPDXIdForType stores nothing *)
(* else there.                                                             *)
RevIds == \A s \in Schemas : pdxTypeToTypeIdMap[s] \in {None, TypeIdOf[s]}

RevInv == RevIds /\ RevResolvable

\* Every thread on its way to addPdxType is still there, with its schema.
WitnessesKept ==
    \A t \in Threads : pc[t] = "add_type" => pc'[t] = "add_type" /\ arg'[t] = arg[t]

(* A step that leaves the reverse index alone, removes no id from        *)
(* typeIdToPdxType and keeps every thread bound for addPdxType keeps      *)
(* RevInv.                                                                 *)
LEMMA RevFrame ==
  ASSUME RevInv,
         pdxTypeToTypeIdMap' = pdxTypeToTypeIdMap,
         \A i \in Ids : typeIdToPdxType[i] # None => typeIdToPdxType'[i] # None,
         WitnessesKept
  PROVE  RevInv'
  BY ServerAnswers DEF RevInv, RevIds, RevResolvable, WitnessesKept

(* getPDXIdForType's reverse index always resolves but for the thread    *)
(* between its insert and its addPdxType, whatever the other threads and *)
(* clear() do in between.                                                  *)
THEOREM ReverseIndexResolvable == Spec => []RevResolvable
  <1>1. Init => RevInv
    BY DEF Init, RevInv, RevIds, RevResolvable, EmptyMap
  <1>2. TypeOK /\ RevInv /\ [Next]_vars => RevInv'
    <2> SUFFICES ASSUME TypeOK, RevInv, [Next]_vars PROVE RevInv'
      OBVIOUS
    <2> USE DEF Goto, Return, tableVars, presVars
    <2> DEFINE Kept == \A i \in Ids : typeIdToPdxType[i] # None => typeIdToPdxType'[i] # None
    <2>0. pc \in [Threads -> Steps] /\ arg \in [Threads -> Schemas \cup Enums \cup Codes \cup {None}]
      BY DEF TypeOK
    <2>1. ASSUME NEW t \in Threads, NEW s \in Schemas, CallGetPDXIdForType(t, s)
          PROVE  RevInv'
      BY <2>0, <2>1, RevFrame DEF CallGetPDXIdForType, WitnessesKept
    <2>2. ASSUME NEW t \in Threads, NEW s \in Schemas, GetPDXIdForLocalType(t, s)
          PROVE  RevInv'
      BY <2>0, <2>2, RevFrame DEF GetPDXIdForLocalType, WitnessesKept
    <2>3. ASSUME NEW t \in Threads, NEW s \in Schemas, AddLocalPdxType(t, s)
          PROVE  RevInv'
      BY <2>3, RevFrame DEF AddLocalPdxType, WitnessesKept
    <2>4. ASSUME NEW t \in Threads, NEW s \in Schemas, AddPdxType(t, s)
          PROVE  RevInv'
      <3>1. Kept
        BY <2>4, ServerAnswers, ConstantsAssumption DEF AddPdxType, Insert, TypeOK
      <3>2. QED
        BY <2>4, <3>1, RevFrame DEF AddPdxType, WitnessesKept
    <2>5. ASSUME NEW t \in Threads, NEW s \in Schemas, SetMergedTypeLock(t, s)
          PROVE  RevInv'
      BY <2>0, <2>5, RevFrame DEF SetMergedTypeLock, WitnessesKept
    <2>6. ASSUME NEW t \in Threads, NEW s \in Schemas, CallGetMergedType(t, s)
          PROVE  RevInv'
      BY <2>0, <2>6, RevFrame DEF CallGetMergedType, WitnessesKept
    <2>7. ASSUME NEW t \in Threads, RevFind(t)
          PROVE  RevInv'
      BY <2>0, <2>7, RevFrame DEF RevFind, WitnessesKept
    <2>8. ASSUME NEW t \in Threads, RevInsert(t)
          PROVE  RevInv'
      BY <2>0, <2>8, ServerAnswers DEF RevInsert, Insert, TypeOK, RevInv, RevIds, RevResolvable
    <2>9. ASSUME NEW t \in Threads, AddType(t)
          PROVE  RevInv'
      BY <2>0, <2>9, ServerAnswers, ConstantsAssumption
         DEF AddType, Insert, TypeOK, RevInv, RevIds, RevResolvable
    <2>10. ASSUME NEW t \in Threads, SetMergedTypeInsert(t)
           PROVE  RevInv'
      BY <2>0, <2>10, RevFrame DEF SetMergedTypeInsert, WitnessesKept
    <2>11. ASSUME NEW t \in Threads, GetMergedType(t)
           PROVE  RevInv'
      BY <2>0, <2>11, RevFrame DEF GetMergedType, WitnessesKept
    <2>12. ASSUME NEW t \in Threads, NEW e \in Enums, CallGetEnumValue(t, e)
           PROVE  RevInv'
      BY <2>0, <2>12, RevFrame DEF CallGetEnumValue, WitnessesKept
    <2>13. ASSUME NEW t \in Threads, GetEnumValueFind(t)
           PROVE  RevInv'
      BY <2>0, <2>13, RevFrame DEF GetEnumValueFind, WitnessesKept
    <2>14. ASSUME NEW t \in Threads, GetEnumValueLock(t)
           PROVE  RevInv'
      BY <2>0, <2>14, RevFrame DEF GetEnumValueLock, WitnessesKept
    <2>15. ASSUME NEW t \in Threads, GetEnumValueLocked(t)
           PROVE  RevInv'
      BY <2>0, <2>15, RevFrame DEF GetEnumValueLocked, WitnessesKept
    <2>16. ASSUME NEW t \in Threads, NEW c \in Codes, CallGetEnum(t, c)
           PROVE  RevInv'
      BY <2>0, <2>16, RevFrame DEF CallGetEnum, WitnessesKept
    <2>17. ASSUME NEW t \in Threads, GetEnumFind(t)
           PROVE  RevInv'
      BY <2>0, <2>17, RevFrame DEF GetEnumFind, WitnessesKept
    <2>18. ASSUME NEW t \in Threads, GetEnumLock(t)
           PROVE  RevInv'
      BY <2>0, <2>18, RevFrame DEF GetEnumLock, WitnessesKept
    <2>19. ASSUME NEW t \in Threads, GetEnumLocked(t)
           PROVE  RevInv'
      BY <2>0, <2>19, RevFrame DEF GetEnumLocked, WitnessesKept
    <2>20. ASSUME NEW t \in Threads, ClearLock(t)
           PROVE  RevInv'
      BY <2>0, <2>20, RevFrame DEF ClearLock, WitnessesKept
    <2>21. ASSUME NEW t \in Threads, ClearTables(t)
           PROVE  RevInv'
      BY <2>21 DEF ClearTables, EmptyMap, RevInv, RevIds, RevResolvable
    <2>22. ASSUME NEW t \in Threads, ClearPreserved(t)
           PROVE  RevInv'
      BY <2>0, <2>22, RevFrame DEF ClearPreserved, WitnessesKept
    <2>23. ASSUME NEW t \in Threads, NEW o \in Objects, SetPreserveData(t, o)
           PROVE  RevInv'
      BY <2>23, RevFrame DEF SetPreserveData, WitnessesKept
    <2>24. ASSUME NEW k \in TaskIds, ExpiryFire(k)
           PROVE  RevInv'
      BY <2>24, RevFrame DEF ExpiryFire, WitnessesKept
    <2>25. ASSUME NEW k \in TaskIds, ExpiryHandle(k)
           PROVE  RevInv'
      BY <2>25, RevFrame DEF ExpiryHandle, WitnessesKept
    <2>26. CASE UNCHANGED vars
      BY <2>26, RevFrame DEF vars, WitnessesKept
    <2>27. QED
      BY <2>1, <2>2, <2>3, <2>4, <2>5, <2>6, <2>7, <2>8, <2>9, <2>10, <2>11, <2>12, <2>13, <2>14, <2>15, <2>16, <2>17, <2>18, <2>19, <2>20, <2>21, <2>22, <2>23, <2>24, <2>25, <2>26 DEF Next
  <1>3. RevInv => RevResolvable
    BY DEF RevInv
  <1>4. QED
    BY <1>1, <1>2, <1>3, TypeCorrect, PTL DEF Spec
-----------------------------------------------------------------------------
(* The preserved-data store.  EntryHasLiveTask needs TasksIssued: an     *)
(* entry names a task already scheduled, so the task setPreserveData      *)
(* schedules next is no entry's task yet.                                  *)
TasksIssued ==
    \A o \in Objects : preserveData[o] # None => preserveData[o].task \in 1..nextTask

LiveInv == TasksIssued /\ EntryHasLiveTask

(* A step that touches neither the entries nor the tasks keeps LiveInv. *)
LEMMA LiveFrame ==
  ASSUME LiveInv, UNCHANGED <<preserveData, taskState, taskOwner, nextTask>>
  PROVE  LiveInv'
  BY DEF LiveInv, TasksIssued, EntryHasLiveTask

(* Every preserved-data entry carries the id of its own pending or        *)
(* running expiry task, for every number of threads, objects and tasks:  *)
(* a refresh keeps the id of a task it does not cancel, a new entry gets  *)
(* the task scheduled with it, and the handler of a task erases the entry *)
(* that still names it.                                                    *)
THEOREM EntriesHaveLiveTasks == Spec => []EntryHasLiveTask
  <1>1. Init => LiveInv
    BY DEF Init, LiveInv, TasksIssued, EntryHasLiveTask, EmptyMap
  <1>2. TypeOK /\ LiveInv /\ [Next]_vars => LiveInv'
    <2> SUFFICES ASSUME TypeOK, LiveInv, [Next]_vars PROVE LiveInv'
      OBVIOUS
    <2> USE DEF Goto, Return, tableVars, presVars
    <2>1. ASSUME NEW t \in Threads, NEW s \in Schemas,
                 \/ CallGetPDXIdForType(t, s) \/ GetPDXIdForLocalType(t, s)
                 \/ AddLocalPdxType(t, s) \/ AddPdxType(t, s)
                 \/ SetMergedTypeLock(t, s) \/ CallGetMergedType(t, s)
          PROVE  LiveInv'
      BY <2>1, LiveFrame DEF CallGetPDXIdForType, GetPDXIdForLocalType, AddLocalPdxType,
                             AddPdxType, SetMergedTypeLock, CallGetMergedType
    <2>2. ASSUME NEW t \in Threads,
                 \/ RevFind(t) \/ RevInsert(t) \/ AddType(t)
                 \/ SetMergedTypeInsert(t) \/ GetMergedType(t)
          PROVE  LiveInv'
      BY <2>2, LiveFrame DEF RevFind, RevInsert, AddType, SetMergedTypeInsert, GetMergedType
    <2>3. ASSUME NEW t \in Threads,
                 \/ \E e \in Enums : CallGetEnumValue(t, e)
                 \/ GetEnumValueFind(t) \/ GetEnumValueLock(t) \/ GetEnumValueLocked(t)
                 \/ \E c \in Codes : CallGetEnum(t, c)
                 \/ GetEnumFind(t) \/ GetEnumLock(t) \/ GetEnumLocked(t)
          PROVE  LiveInv'
      BY <2>3, LiveFrame DEF CallGetEnumValue, GetEnumValueFind, GetEnumValueLock,
                             GetEnumValueLocked, CallGetEnum, GetEnumFind, GetEnumLock,
                             GetEnumLocked
    <2>4. ASSUME NEW t \in Threads, ClearLock(t) \/ ClearTables(t)
          PROVE  LiveInv'
      BY <2>4, LiveFrame DEF ClearLock, ClearTables
    <2>5. ASSUME NEW t \in Threads, ClearPreserved(t)
          PROVE  LiveInv'
      BY <2>5 DEF ClearPreserved, EmptyMap, LiveInv, TasksIssued, EntryHasLiveTask
    <2>6. ASSUME NEW t \in Threads, NEW o \in Objects, SetPreserveData(t, o)
          PROVE  LiveInv'
      <3>1. CASE /\ preserveData[o] # None
                 /\ ResetTask(preserveData[o].task, sets + 1)
                 /\ preserveData' = [preserveData EXCEPT
                                       ![o] = [ver |-> sets + 1, task |-> preserveData[o].task]]
                 /\ UNCHANGED <<taskOwner, nextTask>>
        BY <3>1 DEF ResetTask, TypeOK, LiveInv, TasksIssued, EntryHasLiveTask
      <3>2. CASE /\ preserveData[o] = None
                 /\ nextTask < MaxTasks
                 /\ nextTask' = nextTask + 1
                 /\ taskState' = [taskState EXCEPT ![nextTask + 1] = "pending"]
                 /\ taskOwner' = [taskOwner EXCEPT ![nextTask + 1] = o]
                 /\ taskArm' = [taskArm EXCEPT ![nextTask + 1] = sets + 1]
                 /\ preserveData' = Insert(preserveData, o, [ver |-> sets + 1, task |-> nextTask + 1])
        BY <3>2, ConstantsAssumption
           DEF Insert, TypeOK, TaskIds, LiveInv, TasksIssued, EntryHasLiveTask
      <3>3. QED
        BY <2>6, <3>1, <3>2 DEF SetPreserveData
    <2>7. ASSUME NEW k \in TaskIds, ExpiryFire(k)
          PROVE  LiveInv'
      BY <2>7 DEF ExpiryFire, TypeOK, LiveInv, TasksIssued, EntryHasLiveTask
    <2>8. ASSUME NEW k \in TaskIds, ExpiryHandle(k)
          PROVE  LiveInv'
      BY <2>8 DEF ExpiryHandle, Erase, TypeOK, LiveInv, TasksIssued, EntryHasLiveTask
    <2>9. CASE UNCHANGED vars
      BY <2>9, LiveFrame DEF vars
    <2>10. QED
      BY <2>1, <2>2, <2>3, <2>4, <2>5, <2>6, <2>7, <2>8, <2>9 DEF Next
  <1>3. LiveInv => EntryHasLiveTask
    BY DEF LiveInv
  <1>4. QED
    BY <1>1, <1>2, <1>3, TypeCorrect, PTL DEF Spec
====

