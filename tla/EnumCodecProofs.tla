-------------------------- MODULE EnumCodecProofs --------------------------
(* The enum codec cache of PdxTypeRegistry implements EnumCodec, and the  *)
(* abstract specification asks the server about an enum or a code at most *)
(* once between two clears; so does the registry.                         *)
EXTENDS PdxTypeRegistryProofs

-----------------------------------------------------------------------------
(* A step that leaves the two enum maps and the call counts alone is a    *)
(* stuttering step of the abstract specification.                          *)
LEMMA CodecStutter ==
  ASSUME UNCHANGED <<enumToInt, intToEnum, serverCalls>>
  PROVE  [Codec!Next]_Codec!codecVars
  BY DEF Codec!codecVars

(* getEnumValue, getEnum and clear, whatever the interleaving of the      *)
(* other threads, change the enum maps only by the atomic resolves and    *)
(* the clear of the abstract specification.                                *)
THEOREM EnumCodecRefinement == Spec => EnumCodecRefined
  <1>1. Init => Codec!Init
    BY DEF Init, Codec!Init, EmptyMap, Codes, Codec!Codes
  <1>2. TypeOK /\ [Next]_vars => [Codec!Next]_Codec!codecVars
    <2> SUFFICES ASSUME TypeOK, [Next]_vars PROVE [Codec!Next]_Codec!codecVars
      OBVIOUS
    <2> DEFINE Frame == UNCHANGED <<enumToInt, intToEnum, serverCalls>>
    <2>1. ASSUME NEW t \in Threads, GetEnumValueLocked(t)
          PROVE  [Codec!Next]_Codec!codecVars
      <3>1. arg[t] \in Enums /\ UNCHANGED intToEnum
        BY <2>1 DEF GetEnumValueLocked, TypeOK
      <3>2. CASE UNCHANGED <<enumToInt, serverCalls>>
        BY <3>1, <3>2, CodecStutter
      <3>3. CASE /\ enumToInt[arg[t]] = None
                 /\ enumToInt' = Insert(enumToInt, arg[t], EnumCodeOf[arg[t]])
                 /\ serverCalls' = [serverCalls EXCEPT ![arg[t]] = @ + 1]
        <4>1. Codec!ResolveValue(arg[t])
          BY <3>1, <3>3 DEF Codec!ResolveValue, Insert, TypeOK
        <4>2. QED
          BY <3>1, <4>1 DEF Codec!Next
      <3>4. QED
        BY <2>1, <3>2, <3>3 DEF GetEnumValueLocked
    <2>2. ASSUME NEW t \in Threads, GetEnumLocked(t)
          PROVE  [Codec!Next]_Codec!codecVars
      <3>1. arg[t] \in Codes /\ UNCHANGED enumToInt
        BY <2>2 DEF GetEnumLocked, TypeOK
      <3>2. CASE UNCHANGED <<intToEnum, serverCalls>>
        BY <3>1, <3>2, CodecStutter
      <3>3. CASE /\ intToEnum[arg[t]] = None
                 /\ intToEnum' = Put(intToEnum, arg[t], EnumOf(arg[t]))
                 /\ serverCalls' = [serverCalls EXCEPT ![arg[t]] = @ + 1]
        <4>1. Codec!ResolveEnum(arg[t])
          BY <3>1, <3>3 DEF Codec!ResolveEnum, Codec!EnumOf, EnumOf, Put
        <4>2. arg[t] \in Codec!Codes
          BY <3>1 DEF Codes, Codec!Codes
        <4>3. QED
          BY <4>1, <4>2 DEF Codec!Next
      <3>4. QED
        BY <2>2, <3>2, <3>3 DEF GetEnumLocked
    <2>3. ASSUME NEW t \in Threads, ClearTables(t)
          PROVE  [Codec!Next]_Codec!codecVars
      <3>1. Codec!Clear
        BY <2>3 DEF ClearTables, Codec!Clear, EmptyMap, Codes, Codec!Codes
      <3>2. QED
        BY <3>1 DEF Codec!Next
    <2>4. ASSUME NEW t \in Threads, NEW s \in Schemas,
                 \/ CallGetPDXIdForType(t, s) \/ GetPDXIdForLocalType(t, s)
                 \/ AddLocalPdxType(t, s) \/ AddPdxType(t, s)
                 \/ SetMergedTypeLock(t, s) \/ CallGetMergedType(t, s)
          PROVE  Frame
      BY <2>4 DEF CallGetPDXIdForType, GetPDXIdForLocalType, AddLocalPdxType,
                  AddPdxType, SetMergedTypeLock, CallGetMergedType, tableVars
    <2>5. ASSUME NEW t \in Threads,
                 \/ RevFind(t) \/ RevInsert(t) \/ AddType(t)
                 \/ SetMergedTypeInsert(t) \/ GetMergedType(t)
          PROVE  Frame
      BY <2>5 DEF RevFind, RevInsert, AddType, SetMergedTypeInsert, GetMergedType,
                  tableVars
    <2>6. ASSUME NEW t \in Threads,
                 \/ \E e \in Enums : CallGetEnumValue(t, e)
                 \/ GetEnumValueFind(t) \/ GetEnumValueLock(t)
                 \/ \E c \in Codes : CallGetEnum(t, c)
                 \/ GetEnumFind(t) \/ GetEnumLock(t)
          PROVE  Frame
      BY <2>6 DEF CallGetEnumValue, GetEnumValueFind, GetEnumValueLock, CallGetEnum,
                  GetEnumFind, GetEnumLock, tableVars
    <2>7. ASSUME NEW t \in Threads,
                 \/ ClearLock(t) \/ ClearPreserved(t)
                 \/ \E o \in Objects : SetPreserveData(t, o)
          PROVE  Frame
      BY <2>7 DEF ClearLock, ClearPreserved, SetPreserveData, tableVars
    <2>8. ASSUME NEW k \in TaskIds, ExpiryFire(k) \/ ExpiryHandle(k)
          PROVE  Frame
      BY <2>8 DEF ExpiryFire, ExpiryHandle, tableVars
    <2>9. CASE UNCHANGED vars
      BY <2>9, CodecStutter DEF vars, tableVars
    <2>10. QED
      BY <2>1, <2>2, <2>3, <2>4, <2>5, <2>6, <2>7, <2>8, <2>9, CodecStutter DEF Next
  <1>3. QED
    BY <1>1, <1>2, TypeCorrect, PTL DEF Spec, EnumCodecRefined, Codec!Spec
-----------------------------------------------------------------------------
(* In the abstract specification the call count of an enum or a code is   *)
(* 1 exactly when its map holds it, and 0 otherwise: a resolve needs the  *)
(* entry absent and adds it, and clear resets both.  The key sets are    *)
(* disjoint, so a resolve of an enum leaves the counts of the codes.      *)
CallsMatch ==
    /\ enumToInt \in [Enums -> Codes \cup {None}]
    /\ intToEnum \in [Codes -> Enums \cup {None}]
    /\ serverCalls \in [Enums \cup Codes -> Nat]
    /\ \A e \in Enums : serverCalls[e] = IF enumToInt[e] = None THEN 0 ELSE 1
    /\ \A c \in Codes : serverCalls[c] = IF intToEnum[c] = None THEN 0 ELSE 1

(* The abstract enum codec asks the server at most once per enum or code *)
(* between two clears.                                                     *)
THEOREM CodecCallsBounded == Codec!Spec => []Codec!CallsBounded
  <1> USE ConstantsAssumption, ServerAnswers DEF CallsMatch, Codes, Codec!Codes
  <1>1. Codec!Init => CallsMatch
    BY DEF Codec!Init
  <1>2. CallsMatch /\ [Codec!Next]_Codec!codecVars => CallsMatch'
    <2> SUFFICES ASSUME CallsMatch, [Codec!Next]_Codec!codecVars PROVE CallsMatch'
      OBVIOUS
    <2>1. ASSUME NEW e \in Enums, Codec!ResolveValue(e) PROVE CallsMatch'
      BY <2>1 DEF Codec!ResolveValue
    <2>2. ASSUME NEW c \in Codes, Codec!ResolveEnum(c) PROVE CallsMatch'
      <3>1. Codec!EnumOf(c) \in Enums
        BY DEF Codec!EnumOf, EnumOf
      <3>2. QED
        BY <2>2, <3>1 DEF Codec!ResolveEnum
    <2>3. CASE Codec!Clear
      BY <2>3 DEF Codec!Clear
    <2>4. CASE UNCHANGED Codec!codecVars
      BY <2>4 DEF Codec!codecVars
    <2>5. QED
      BY <2>1, <2>2, <2>3, <2>4 DEF Codec!Next
  <1>3. CallsMatch => Codec!CallsBounded
    BY DEF Codec!CallsBounded
  <1>4. QED
    BY <1>1, <1>2, <1>3, PTL DEF Codec!Spec

(* The double-checked locking of getEnumValue and getEnum asks the server *)
(* about an enum or a code at most once between two clears, for every    *)
(* number of threads, enums and codes: the property the type_tables run   *)
(* checks, from the refinement and the abstract bound.                    *)
THEOREM NegotiatedOnce == Spec => []EnumNegotiatedOnce
  <1>1. Codec!CallsBounded <=> EnumNegotiatedOnce
    BY DEF Codec!CallsBounded, EnumNegotiatedOnce, Codes, Codec!Codes
  <1>2. QED
    BY <1>1, EnumCodecRefinement, CodecCallsBounded, PTL DEF EnumCodecRefined
====
