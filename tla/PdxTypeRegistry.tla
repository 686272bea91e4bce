-------------------------- MODULE PdxTypeRegistry --------------------------
(***************************************************************************)
(* The PDX type registry of the native client (PdxTypeRegistry.cpp):       *)
(* the schema tables guarded by g_readerWriterLock, the reverse index      *)
(* pdxTypeToTypeIdMap, the two enum maps, and the preserved-data table     *)
(* guarded by g_preservedDataLock together with the expiry tasks that      *)
(* evict its entries.                                                      *)
(*                                                                         *)
(* Several client threads call the registry concurrently.  A call that     *)
(* touches a table without the lock, or holds the lock across several     *)
(* accesses, is split into one step per access; each thread's pc names the *)
(* access it performs next.  A call that does all its work inside one      *)
(* critical section on a table nobody touches unlocked is one step.  The   *)
(* server (SerializationRegistry::GetPDXIdForType, GetEnumValue, GetEnum)  *)
(* is a fixed injective map that may fail; the expiry task manager is a    *)
(* single timer thread that dispatches one task at a time.                 *)
(***************************************************************************)
EXTENDS Naturals

CONSTANTS
    Threads,     \* client threads calling the registry
    Schemas,     \* PDX type descriptors (one PdxType object per schema)
    Enums,       \* EnumInfo values
    Objects,     \* PdxSerializable objects that own preserved data
    TypeIdOf,    \* the id the server assigns to each schema
    EnumCodeOf,  \* the code the server assigns to each enum
    NoThread,    \* nobody holds the write lock
    None,        \* absent table entry, argument of an idle thread
    MaxSets,     \* bound on setPreserveData calls (versions of the blobs)
    MaxTasks     \* bound on expiry tasks scheduled

Ids   == {TypeIdOf[s] : s \in Schemas}
Codes == {EnumCodeOf[e] : e \in Enums}
TaskIds == 1..MaxTasks

ASSUME ConstantsAssumption ==
    /\ TypeIdOf \in [Schemas -> Nat \ {0}]
    /\ \A s1, s2 \in Schemas : TypeIdOf[s1] = TypeIdOf[s2] => s1 = s2
    /\ EnumCodeOf \in [Enums -> Nat]
    /\ \A e1, e2 \in Enums : EnumCodeOf[e1] = EnumCodeOf[e2] => e1 = e2
    /\ Enums \cap Codes = {}    \* an EnumInfo is never an int code
    /\ NoThread \notin Threads
    /\ None \notin Schemas \cup Enums \cup Codes \cup Objects \cup Ids
    /\ MaxSets \in Nat
    /\ MaxTasks \in Nat

VARIABLES
    typeIdToPdxType,              \* id -> schema, every known type
    localTypeToPdxType,           \* class name -> local schema
    remoteTypeIdToMergedPdxType,  \* remote id -> merged schema
    pdxTypeToTypeIdMap,           \* schema -> id (reverse index, unlocked)
    enumToInt,                    \* enum -> code
    intToEnum,                    \* code -> enum
    typeIdField,                  \* PdxType::m_geodeTypeId of each descriptor
    writer,                       \* holder of g_readerWriterLock for writing
    preserveData,                 \* object -> [ver, task]
    taskState,                    \* expiry task -> unused/pending/fired/done
    taskOwner,                    \* the object a task was scheduled for
    taskArm,                      \* blob version when the task was last armed
    nextTask,                     \* number of expiry tasks scheduled so far
    sets,                         \* number of setPreserveData calls so far
    serverCalls,                  \* enum negotiations per enum or code since clear
    pc, arg

tableVars == <<typeIdToPdxType, localTypeToPdxType, remoteTypeIdToMergedPdxType,
               pdxTypeToTypeIdMap, enumToInt, intToEnum, typeIdField>>
presVars  == <<preserveData, taskState, taskOwner, taskArm, nextTask, sets>>
vars == <<tableVars, writer, presVars, serverCalls, pc, arg>>

-----------------------------------------------------------------------------
(* std::map/unordered_map helpers.  A table is a total function on its   *)
(* key set, None where the key is absent.  insert and emplace keep an      *)
(* existing value; operator[] overwrites it.                               *)
EmptyMap(D) == [x \in D |-> None]

Insert(m, k, v) == [m EXCEPT ![k] = IF @ = None THEN v ELSE @]

Put(m, k, v) == [m EXCEPT ![k] = v]

Erase(m, k) == [m EXCEPT ![k] = None]

(* The enum the server resolves a code to. *)
EnumOf(c) == CHOOSE e \in Enums : EnumCodeOf[e] = c

Steps == {"idle", "rev_find", "rev_insert", "add_type", "mt_insert",
          "mt_find", "ev_find", "ev_lock", "ev_locked", "ge_find", "ge_lock",
          "ge_locked", "clr_tables", "clr_pres"}

Blob == [ver : 1..MaxSets, task : TaskIds]

TypeOK ==
    /\ typeIdToPdxType \in [Ids -> Schemas \cup {None}]
    /\ localTypeToPdxType \in [Schemas -> Schemas \cup {None}]
    /\ remoteTypeIdToMergedPdxType \in [Ids -> Schemas \cup {None}]
    /\ pdxTypeToTypeIdMap \in [Schemas -> Ids \cup {None}]
    /\ enumToInt \in [Enums -> Codes \cup {None}]
    /\ intToEnum \in [Codes -> Enums \cup {None}]
    /\ typeIdField \in [Schemas -> Ids \cup {0}]
    /\ writer \in Threads \cup {NoThread}
    /\ preserveData \in [Objects -> Blob \cup {None}]
    /\ taskState \in [TaskIds -> {"unused", "pending", "fired", "done"}]
    /\ taskOwner \in [TaskIds -> Objects \cup {None}]
    /\ taskArm \in [TaskIds -> 0..MaxSets]
    /\ nextTask \in 0..MaxTasks
    /\ sets \in 0..MaxSets
    /\ serverCalls \in [Enums \cup Codes -> Nat]
    /\ pc \in [Threads -> Steps]
    /\ arg \in [Threads -> Schemas \cup Enums \cup Codes \cup {None}]
    /\ \A t \in Threads :
         /\ pc[t] \in {"rev_find", "rev_insert", "add_type", "mt_insert",
                       "mt_find"} => arg[t] \in Schemas
         /\ pc[t] \in {"ev_find", "ev_lock", "ev_locked"} => arg[t] \in Enums
         /\ pc[t] \in {"ge_find", "ge_lock", "ge_locked"} => arg[t] \in Codes

Init ==
    /\ typeIdToPdxType = EmptyMap(Ids)
    /\ localTypeToPdxType = EmptyMap(Schemas)
    /\ remoteTypeIdToMergedPdxType = EmptyMap(Ids)
    /\ pdxTypeToTypeIdMap = EmptyMap(Schemas)
    /\ enumToInt = EmptyMap(Enums)
    /\ intToEnum = EmptyMap(Codes)
    /\ typeIdField = [s \in Schemas |-> 0]
    /\ writer = NoThread
    /\ preserveData = EmptyMap(Objects)
    /\ taskState = [k \in TaskIds |-> "unused"]
    /\ taskOwner = [k \in TaskIds |-> None]
    /\ taskArm = [k \in TaskIds |-> 0]
    /\ nextTask = 0
    /\ sets = 0
    /\ serverCalls = [x \in Enums \cup Codes |-> 0]
    /\ pc = [t \in Threads |-> "idle"]
    /\ arg = [t \in Threads |-> None]

Goto(t, step) == pc' = [pc EXCEPT ![t] = step]
Return(t) == /\ pc' = [pc EXCEPT ![t] = "idle"]
             /\ arg' = [arg EXCEPT ![t] = None]
-----------------------------------------------------------------------------
(* getPDXIdForType(nType, poolname): the reverse-index path.  The find,    *)
(* the insert into pdxTypeToTypeIdMap and the read in between take no      *)
(* lock (the WriteGuard is commented out); addPdxType takes the write lock. *)
CallGetPDXIdForType(t, s) ==
    /\ pc[t] = "idle"
    /\ Goto(t, "rev_find")
    /\ arg' = [arg EXCEPT ![t] = s]
    /\ UNCHANGED <<tableVars, writer, presVars, serverCalls>>

(* Mutant: the insert returns without calling addPdxType. *)
RevInsertNoAdd(t) ==
    /\ pc[t] = "rev_insert"
    /\ pdxTypeToTypeIdMap' = Insert(pdxTypeToTypeIdMap, arg[t], TypeIdOf[arg[t]])
    /\ Return(t)
    /\ UNCHANGED <<typeIdToPdxType, localTypeToPdxType, remoteTypeIdToMergedPdxType,
                   enumToInt, intToEnum, typeIdField, writer, presVars, serverCalls>>


(* Find in the reverse index.  A hit returns its id (ids are never 0); a  *)
(* miss negotiates the id with the server and stores it in the descriptor, *)
(* or throws before anything is written when the negotiation fails: both  *)
(* end the call, the first disjunct.                                       *)
RevFind(t) ==
    LET s == arg[t] IN
    /\ pc[t] = "rev_find"
    /\ \/ /\ Return(t)
          /\ UNCHANGED tableVars
       \/ /\ pdxTypeToTypeIdMap[s] = None
          /\ typeIdField' = [typeIdField EXCEPT ![s] = TypeIdOf[s]]
          /\ Goto(t, "rev_insert")
          /\ UNCHANGED <<typeIdToPdxType, localTypeToPdxType,
                         remoteTypeIdToMergedPdxType, pdxTypeToTypeIdMap,
                         enumToInt, intToEnum, arg>>
    /\ UNCHANGED <<writer, presVars, serverCalls>>

RevInsert(t) ==
    /\ pc[t] = "rev_insert"
    /\ pdxTypeToTypeIdMap' = Insert(pdxTypeToTypeIdMap, arg[t], TypeIdOf[arg[t]])
    /\ Goto(t, "add_type")
    /\ UNCHANGED <<typeIdToPdxType, localTypeToPdxType, remoteTypeIdToMergedPdxType,
                   enumToInt, intToEnum, typeIdField, writer, presVars, serverCalls, arg>>

(* addPdxType(typeId, nType) at the end of both getPDXIdForType overloads. *)
AddType(t) ==
    /\ pc[t] = "add_type"
    /\ writer = NoThread
    /\ typeIdToPdxType' = Insert(typeIdToPdxType, TypeIdOf[arg[t]], arg[t])
    /\ Return(t)
    /\ UNCHANGED <<localTypeToPdxType, remoteTypeIdToMergedPdxType, pdxTypeToTypeIdMap,
                   enumToInt, intToEnum, typeIdField, writer, presVars, serverCalls>>

(* getPDXIdForType(type, poolname, nType, true): the local-name path.  The *)
(* lookup holds the read lock; a registered local type with a non-zero id *)
(* is returned, otherwise the id is negotiated and published.  Returning   *)
(* the local id and a failed negotiation leave the state as it was.       *)
GetPDXIdForLocalType(t, s) ==
    /\ pc[t] = "idle"
    /\ writer = NoThread
    /\ \/ UNCHANGED <<typeIdField, pc, arg>>
       \/ /\ ~(localTypeToPdxType[s] # None
               /\ typeIdField[localTypeToPdxType[s]] # 0)
          /\ typeIdField' = [typeIdField EXCEPT ![s] = TypeIdOf[s]]
          /\ Goto(t, "add_type")
          /\ arg' = [arg EXCEPT ![t] = s]
    /\ UNCHANGED <<typeIdToPdxType, localTypeToPdxType, remoteTypeIdToMergedPdxType,
                   pdxTypeToTypeIdMap, enumToInt, intToEnum, writer, presVars, serverCalls>>

(* addLocalPdxType: the caller has set the descriptor's id beforehand.    *)
AddLocalPdxType(t, s) ==
    /\ pc[t] = "idle"
    /\ writer = NoThread
    /\ typeIdField[s] # 0
    /\ localTypeToPdxType' = Insert(localTypeToPdxType, s, s)
    /\ UNCHANGED <<typeIdToPdxType, remoteTypeIdToMergedPdxType, pdxTypeToTypeIdMap,
                   enumToInt, intToEnum, typeIdField, writer, presVars, serverCalls, pc, arg>>

(* addPdxType for a type whose id came from the wire. *)
AddPdxType(t, s) ==
    /\ pc[t] = "idle"
    /\ writer = NoThread
    /\ typeIdToPdxType' = Insert(typeIdToPdxType, TypeIdOf[s], s)
    /\ UNCHANGED <<localTypeToPdxType, remoteTypeIdToMergedPdxType, pdxTypeToTypeIdMap,
                   enumToInt, intToEnum, typeIdField, writer, presVars, serverCalls, pc, arg>>

(* setMergedType: write lock, insert, unlock. *)
SetMergedTypeLock(t, s) ==
    /\ pc[t] = "idle"
    /\ writer = NoThread
    /\ writer' = t
    /\ Goto(t, "mt_insert")
    /\ arg' = [arg EXCEPT ![t] = s]
    /\ UNCHANGED <<tableVars, presVars, serverCalls>>

SetMergedTypeInsert(t) ==
    /\ pc[t] = "mt_insert"
    /\ remoteTypeIdToMergedPdxType' =
           Insert(remoteTypeIdToMergedPdxType, TypeIdOf[arg[t]], arg[t])
    /\ writer' = NoThread
    /\ Return(t)
    /\ UNCHANGED <<typeIdToPdxType, localTypeToPdxType, pdxTypeToTypeIdMap,
                   enumToInt, intToEnum, typeIdField, presVars, serverCalls>>

(* getMergedType reads the merged table without taking any lock. *)
CallGetMergedType(t, s) ==
    /\ pc[t] = "idle"
    /\ Goto(t, "mt_find")
    /\ arg' = [arg EXCEPT ![t] = s]
    /\ UNCHANGED <<tableVars, writer, presVars, serverCalls>>

GetMergedType(t) ==
    /\ pc[t] = "mt_find"
    /\ Return(t)
    /\ UNCHANGED <<tableVars, writer, presVars, serverCalls>>
(* getEnumValue: an unlocked find, then under the write lock a re-check   *)
(* and, on a confirmed miss, the server call and the emplace.  A throwing *)
(* server call unwinds the WriteGuard.                                     *)
CallGetEnumValue(t, e) ==
    /\ pc[t] = "idle"
    /\ Goto(t, "ev_find")
    /\ arg' = [arg EXCEPT ![t] = e]
    /\ UNCHANGED <<tableVars, writer, presVars, serverCalls>>

GetEnumValueFind(t) ==
    /\ pc[t] = "ev_find"
    /\ IF enumToInt[arg[t]] # None THEN Return(t)
       ELSE Goto(t, "ev_lock") /\ UNCHANGED arg
    /\ UNCHANGED <<tableVars, writer, presVars, serverCalls>>

(* Mutant: no re-check under the write lock. *)
GetEnumValueLockedNoRecheck(t) ==
    LET e == arg[t] IN
    /\ pc[t] = "ev_locked"
    /\ \/ UNCHANGED <<enumToInt, serverCalls>>
       \/ /\ enumToInt' = Insert(enumToInt, e, EnumCodeOf[e])
          /\ serverCalls' = [serverCalls EXCEPT ![e] = @ + 1]
    /\ writer' = NoThread
    /\ Return(t)
    /\ UNCHANGED <<typeIdToPdxType, localTypeToPdxType, remoteTypeIdToMergedPdxType,
                   pdxTypeToTypeIdMap, intToEnum, typeIdField, presVars>>


GetEnumValueLock(t) ==
    /\ pc[t] = "ev_lock"
    /\ writer = NoThread
    /\ writer' = t
    /\ Goto(t, "ev_locked")
    /\ UNCHANGED <<tableVars, presVars, serverCalls, arg>>

GetEnumValueLocked(t) ==
    LET e == arg[t] IN
    /\ pc[t] = "ev_locked"
    /\ \/ UNCHANGED <<enumToInt, serverCalls>>
       \/ /\ enumToInt[e] = None
          /\ enumToInt' = Insert(enumToInt, e, EnumCodeOf[e])
          /\ serverCalls' = [serverCalls EXCEPT ![e] = @ + 1]
    /\ writer' = NoThread
    /\ Return(t)
    /\ UNCHANGED <<typeIdToPdxType, localTypeToPdxType, remoteTypeIdToMergedPdxType,
                   pdxTypeToTypeIdMap, intToEnum, typeIdField, presVars>>

(* getEnum: the same pattern on intToEnum; the store is operator[].        *)
CallGetEnum(t, c) ==
    /\ pc[t] = "idle"
    /\ Goto(t, "ge_find")
    /\ arg' = [arg EXCEPT ![t] = c]
    /\ UNCHANGED <<tableVars, writer, presVars, serverCalls>>

GetEnumFind(t) ==
    /\ pc[t] = "ge_find"
    /\ IF intToEnum[arg[t]] # None THEN Return(t)
       ELSE Goto(t, "ge_lock") /\ UNCHANGED arg
    /\ UNCHANGED <<tableVars, writer, presVars, serverCalls>>

GetEnumLock(t) ==
    /\ pc[t] = "ge_lock"
    /\ writer = NoThread
    /\ writer' = t
    /\ Goto(t, "ge_locked")
    /\ UNCHANGED <<tableVars, presVars, serverCalls, arg>>

(* Mutant: no re-check under the write lock in getEnum. *)
GetEnumLockedNoRecheck(t) ==
    LET c == arg[t] IN
    /\ pc[t] = "ge_locked"
    /\ \/ UNCHANGED <<intToEnum, serverCalls>>
       \/ /\ intToEnum' = Put(intToEnum, c, EnumOf(c))
          /\ serverCalls' = [serverCalls EXCEPT ![c] = @ + 1]
    /\ writer' = NoThread
    /\ Return(t)
    /\ UNCHANGED <<typeIdToPdxType, localTypeToPdxType, remoteTypeIdToMergedPdxType,
                   pdxTypeToTypeIdMap, enumToInt, typeIdField, presVars>>

GetEnumLocked(t) ==
    LET c == arg[t] IN
    /\ pc[t] = "ge_locked"
    /\ \/ UNCHANGED <<intToEnum, serverCalls>>
       \/ /\ intToEnum[c] = None
          /\ intToEnum' = Put(intToEnum, c, EnumOf(c))
          /\ serverCalls' = [serverCalls EXCEPT ![c] = @ + 1]
    /\ writer' = NoThread
    /\ Return(t)
    /\ UNCHANGED <<typeIdToPdxType, localTypeToPdxType, remoteTypeIdToMergedPdxType,
                   pdxTypeToTypeIdMap, enumToInt, typeIdField, presVars>>

(* clear: the six tables under g_readerWriterLock, then preserveData under *)
(* g_preservedDataLock.  The pending expiry tasks are left alone.         *)
ClearLock(t) ==
    /\ pc[t] = "idle"
    /\ writer = NoThread
    /\ writer' = t
    /\ Goto(t, "clr_tables")
    /\ UNCHANGED <<tableVars, presVars, serverCalls, arg>>

ClearTables(t) ==
    /\ pc[t] = "clr_tables"
    /\ typeIdToPdxType' = EmptyMap(Ids)
    /\ remoteTypeIdToMergedPdxType' = EmptyMap(Ids)
    /\ localTypeToPdxType' = EmptyMap(Schemas)
    /\ intToEnum' = EmptyMap(Codes)
    /\ enumToInt' = EmptyMap(Enums)
    /\ pdxTypeToTypeIdMap' = EmptyMap(Schemas)
    /\ serverCalls' = [x \in Enums \cup Codes |-> 0]
    /\ writer' = NoThread
    /\ Goto(t, "clr_pres")
    /\ UNCHANGED <<typeIdField, presVars, arg>>

ClearPreserved(t) ==
    /\ pc[t] = "clr_pres"
    /\ preserveData' = EmptyMap(Objects)
    /\ Return(t)
    /\ UNCHANGED <<tableVars, writer, taskState, taskOwner, taskArm, nextTask,
                   sets, serverCalls>>

-----------------------------------------------------------------------------
(* setPreserveData, under g_preservedDataLock.  An object that already has *)
(* an entry gets its task reset and the new blob keeps the old task id; a *)
(* new object gets a freshly scheduled task.  resetTask re-arms a pending *)
(* task and fails on one the timer thread has already dispatched.         *)
(* Mutant: the refresh cancels the old task instead of re-arming it.     *)
ResetTaskCancels(k, v) ==
    /\ taskArm' = taskArm
    /\ taskState' = [taskState EXCEPT ![k] = IF @ = "pending" THEN "done" ELSE @]

ResetTask(k, v) ==
    /\ taskArm' = IF taskState[k] = "pending" THEN [taskArm EXCEPT ![k] = v]
                  ELSE taskArm
    /\ UNCHANGED taskState

(* Mutant: the refresh forgets setPreservedDataExpiryTaskId (task id 0). *)
SetPreserveDataNoTaskId(t, o) ==
    LET v == sets + 1 IN
    /\ pc[t] = "idle"
    /\ sets < MaxSets
    /\ sets' = v
    /\ \/ /\ preserveData[o] # None
          /\ ResetTask(preserveData[o].task, v)
          /\ preserveData' = [preserveData EXCEPT ![o] = [ver |-> v, task |-> 0]]
          /\ UNCHANGED <<taskOwner, nextTask>>
       \/ /\ preserveData[o] = None
          /\ nextTask < MaxTasks
          /\ nextTask' = nextTask + 1
          /\ taskState' = [taskState EXCEPT ![nextTask + 1] = "pending"]
          /\ taskOwner' = [taskOwner EXCEPT ![nextTask + 1] = o]
          /\ taskArm' = [taskArm EXCEPT ![nextTask + 1] = v]
          /\ preserveData' = Insert(preserveData, o, [ver |-> v, task |-> nextTask + 1])
    /\ UNCHANGED <<tableVars, writer, serverCalls, pc, arg>>

SetPreserveData(t, o) ==
    LET v == sets + 1 IN
    /\ pc[t] = "idle"
    /\ sets < MaxSets
    /\ sets' = v
    /\ \/ /\ preserveData[o] # None
          /\ ResetTask(preserveData[o].task, v)
          /\ preserveData' = [preserveData EXCEPT
                                ![o] = [ver |-> v, task |-> preserveData[o].task]]
          /\ UNCHANGED <<taskOwner, nextTask>>
       \/ /\ preserveData[o] = None
          /\ nextTask < MaxTasks
          /\ nextTask' = nextTask + 1
          /\ taskState' = [taskState EXCEPT ![nextTask + 1] = "pending"]
          /\ taskOwner' = [taskOwner EXCEPT ![nextTask + 1] = o]
          /\ taskArm' = [taskArm EXCEPT ![nextTask + 1] = v]
          /\ preserveData' = Insert(preserveData, o, [ver |-> v, task |-> nextTask + 1])
    /\ UNCHANGED <<tableVars, writer, serverCalls, pc, arg>>

(* The timer thread dispatches a pending task whose deadline has passed;  *)
(* it runs one handler at a time.                                          *)
ExpiryFire(k) ==
    /\ taskState[k] = "pending"
    /\ \A j \in TaskIds : taskState[j] # "fired"
    /\ taskState' = [taskState EXCEPT ![k] = "fired"]
    /\ UNCHANGED <<tableVars, writer, preserveData, taskOwner, taskArm, nextTask,
                   sets, serverCalls, pc, arg>>

(* The expiry handler, under g_preservedDataLock, removes its owner's     *)
(* entry when the entry still carries this task's id.                     *)
ExpiryHandle(k) ==
    LET o == taskOwner[k] IN
    /\ taskState[k] = "fired"
    /\ taskState' = [taskState EXCEPT ![k] = "done"]
    /\ preserveData' = IF preserveData[o] # None /\ preserveData[o].task = k
                       THEN Erase(preserveData, o) ELSE preserveData
    /\ UNCHANGED <<tableVars, writer, taskOwner, taskArm, nextTask, sets,
                   serverCalls, pc, arg>>

-----------------------------------------------------------------------------
Next ==
    \/ \E t \in Threads :
         \/ \E s \in Schemas :
              \/ CallGetPDXIdForType(t, s)
              \/ GetPDXIdForLocalType(t, s)
              \/ AddLocalPdxType(t, s)
              \/ AddPdxType(t, s)
              \/ SetMergedTypeLock(t, s)
              \/ CallGetMergedType(t, s)
         \/ RevFind(t) \/ RevInsert(t) \/ AddType(t)
         \/ SetMergedTypeInsert(t) \/ GetMergedType(t)
         \/ \E e \in Enums : CallGetEnumValue(t, e)
         \/ GetEnumValueFind(t) \/ GetEnumValueLock(t) \/ GetEnumValueLocked(t)
         \/ \E c \in Codes : CallGetEnum(t, c)
         \/ GetEnumFind(t) \/ GetEnumLock(t) \/ GetEnumLocked(t)
         \/ ClearLock(t) \/ ClearTables(t) \/ ClearPreserved(t)
         \/ \E o \in Objects : SetPreserveData(t, o)
    \/ \E k \in TaskIds : ExpiryFire(k) \/ ExpiryHandle(k)

(* The timer thread keeps dispatching due tasks and their handlers get the *)
(* preserved-data lock, which no caller holds across steps.               *)
Spec == Init /\ [][Next]_vars
             /\ WF_vars(\E k \in TaskIds : ExpiryFire(k))
             /\ WF_vars(\E k \in TaskIds : ExpiryHandle(k))
-----------------------------------------------------------------------------
(* Reverse index entries resolve: every schema getPDXIdForType can answer *)
(* from pdxTypeToTypeIdMap without the server has its id in               *)
(* typeIdToPdxType, except while the thread that inserted it is still on  *)
(* its way to addPdxType.  A permanent dangling entry would make every    *)
(* later getPDXIdForType return an id that getPdxType cannot resolve,     *)
(* until the next clear.                                                   *)
RevResolvable ==
    \A s \in Schemas : pdxTypeToTypeIdMap[s] # None =>
        \/ typeIdToPdxType[pdxTypeToTypeIdMap[s]] # None
        \/ \E t \in Threads : pc[t] = "add_type" /\ arg[t] = s

(* The double-checked locking of getEnumValue and getEnum asks the server *)
(* about an enum or a code at most once between two clears, however many *)
(* threads miss on the unlocked find at the same time.                    *)
EnumNegotiatedOnce == \A x \in Enums \cup Codes : serverCalls[x] <= 1

(* The enum codec cache implements its abstract specification: the       *)
(* unlocked find, the write lock, the re-check and the server call of     *)
(* getEnumValue and getEnum add up to one atomic resolve of a value that  *)
(* is not cached, and the tables change in no other way than by resolve  *)
(* and clear.  The threads, their arguments and the lock are hidden.     *)
Codec == INSTANCE EnumCodec WITH
             Enums <- Enums, EnumCodeOf <- EnumCodeOf, None <- None,
             enumToInt <- enumToInt, intToEnum <- intToEnum,
             serverCalls <- serverCalls

EnumCodecRefined == Codec!Spec

(* Every preserved-data entry carries the id of an expiry task of its own *)
(* that is still pending or running, so that no entry outlives its TTL.   *)
EntryHasLiveTask ==
    \A o \in Objects : preserveData[o] # None =>
        LET k == preserveData[o].task IN
        /\ taskState[k] \in {"pending", "fired"}
        /\ taskOwner[k] = o

(* Every preserved-data entry is eventually evicted. *)
NoLeak == \A o \in Objects : (preserveData[o] # None) ~> (preserveData[o] = None)

(* Spec section 5: no table is mutated without its write lock and no entry *)
(* is read without at least the read lock.  Access(t) is the access the   *)
(* next step of thread t makes; two of them on one table race unless both *)
(* are reads.                                                              *)
Access(t) ==
    CASE pc[t] = "rev_find"   -> {<<"rev", "r">>}
      [] pc[t] = "rev_insert" -> {<<"rev", "w">>}
      [] pc[t] = "mt_insert"  -> {<<"merged", "w">>}
      [] pc[t] = "mt_find"    -> {<<"merged", "r">>}
      [] pc[t] = "ev_find"    -> {<<"e2i", "r">>}
      [] pc[t] = "ev_locked"  -> {<<"e2i", "w">>}
      [] pc[t] = "ge_find"    -> {<<"i2e", "r">>}
      [] pc[t] = "ge_locked"  -> {<<"i2e", "w">>}
      [] pc[t] = "clr_tables" -> {<<x, "w">> : x \in {"rev", "merged", "e2i", "i2e"}}
      [] OTHER                -> {}

RaceFree ==
    \A t, u \in Threads : t # u =>
        \A a \in Access(t), b \in Access(u) : a[1] = b[1] => a[2] = "r" /\ b[2] = "r"

(* Spec section 4.2 and the refresh test of section 8: an expiry handler  *)
(* only evicts a blob that was stored before its task was last armed; a   *)
(* refresh by setPreserveData is never lost to an earlier deadline.       *)
ExpiryRemovesOnlyStale ==
    [][\A k \in TaskIds :
         LET o == taskOwner[k] IN
         (/\ taskState[k] = "fired" /\ taskState'[k] = "done"
          /\ preserveData[o] # None /\ preserveData'[o] = None)
         => preserveData[o].ver <= taskArm[k]]_vars

(* Spec section 4.2: clear cancels the pending expiry tasks, so no expiry  *)
(* task is left pending or running for an entry that is gone.             *)
ClearCancelsExpiry ==
    \A k \in TaskIds :
        taskState[k] \in {"pending", "fired"} =>
            /\ preserveData[taskOwner[k]] # None
            /\ preserveData[taskOwner[k]].task = k
====
