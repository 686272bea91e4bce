---------------------- MODULE DistributedSystemProofs ----------------------
(* Proofs about the connect/disconnect model, for every MaxOrphans.  The  *)
(* type invariant is proved in two halves: Zenon for the Boolean-valued   *)
(* flags, SMT for the pointer states and the orphan count.                *)
EXTENDS DistributedSystem, TLAPS

TypeFlags ==
    /\ connected \in BOOLEAN
    /\ statMngr \in BOOLEAN
    /\ impl \in BOOLEAN
    /\ tcr \in BOOLEAN
    /\ lib \in BOOLEAN
    /\ logOpen \in BOOLEAN

TypePointers ==
    /\ instance \in {"unalloc", "null", "set"}
    /\ sysProps \in {"null", "fresh", "stale"}
    /\ etm \in {"null", "running"}
    /\ orphans \in 0..MaxOrphans

LEMMA TypeSplit == TypeOK <=> TypeFlags /\ TypePointers
  BY Zenon DEF TypeOK, TypeFlags, TypePointers

(* Every reachable state of the lifecycle is well typed. *)
THEOREM TypeCorrect == Spec => []TypeOK
<1>1. Init => TypeOK
  <2> SUFFICES ASSUME Init PROVE TypeFlags /\ TypePointers
    BY TypeSplit
  <2>1. TypeFlags
    BY Zenon DEF Init, TypeFlags
  <2>2. TypePointers
    BY MaxOrphansAssumption DEF Init, TypePointers
  <2>3. QED
    BY <2>1, <2>2
<1>2. TypeOK /\ [Next]_vars => TypeOK'
  <2> SUFFICES ASSUME TypeFlags, TypePointers, [Next]_vars
               PROVE  TypeFlags' /\ TypePointers'
    BY TypeSplit, Zenon DEF TypeOK, TypeFlags, TypePointers
  <2>1. CASE ConnectNullName
    <3>1. TypeFlags'
      BY <2>1, Zenon DEF ConnectNullName, Begin, TypeFlags
    <3>2. TypePointers'
      BY <2>1, MaxOrphansAssumption DEF ConnectNullName, Begin, TypePointers
    <3>3. QED
      BY <3>1, <3>2
  <2>2. CASE ConnectTcrFail
    <3>1. TypeFlags'
      BY <2>2, Zenon DEF ConnectTcrFail, Begin, PropsAtBegin, TypeFlags
    <3>2. TypePointers'
      BY <2>2, MaxOrphansAssumption DEF ConnectTcrFail, Begin, PropsAtBegin, TypePointers
    <3>3. QED
      BY <3>1, <3>2
  <2>3. CASE ConnectLogFail
    <3>1. TypeFlags'
      BY <2>3, Zenon DEF ConnectLogFail, Begin, TypeFlags
    <3>2. TypePointers'
      BY <2>3, MaxOrphansAssumption DEF ConnectLogFail, Begin, TypePointers
    <3>3. QED
      BY <3>1, <3>2
  <2>4. CASE ConnectProductDirFail
    <3>1. TypeFlags'
      BY <2>4, Zenon DEF ConnectProductDirFail, Begin, PropsAtBegin, LogOk, TypeFlags
    <3>2. TypePointers'
      BY <2>4, MaxOrphansAssumption DEF ConnectProductDirFail, Begin, PropsAtBegin, LogOk, TypePointers
    <3>3. QED
      BY <3>1, <3>2
  <2>5. CASE ConnectStatsFail
    <3>1. TypeFlags'
      BY <2>5, Zenon DEF ConnectStatsFail, Begin, TypeFlags
    <3>2. TypePointers'
      BY <2>5, MaxOrphansAssumption DEF ConnectStatsFail, Begin, TypePointers
    <3>3. QED
      BY <3>1, <3>2
  <2>6. CASE ConnectImplFail
    <3>1. TypeFlags'
      BY <2>6, Zenon DEF ConnectImplFail, Begin, Started, PropsAtBegin, LogOk, TypeFlags
    <3>2. TypePointers'
      BY <2>6, MaxOrphansAssumption DEF ConnectImplFail, Begin, Started, PropsAtBegin, LogOk, TypePointers
    <3>3. QED
      BY <3>1, <3>2
  <2>7. CASE ConnectOk
    <3>1. TypeFlags'
      BY <2>7, Zenon DEF ConnectOk, Started, PropsAtBegin, LogOk, TypeFlags
    <3>2. TypePointers'
      BY <2>7, MaxOrphansAssumption DEF ConnectOk, Started, PropsAtBegin, LogOk, TypePointers
    <3>3. QED
      BY <3>1, <3>2
  <2>8. CASE Disconnect
    <3>1. TypeFlags'
      BY <2>8, Zenon DEF Disconnect, TypeFlags
    <3>2. TypePointers'
      BY <2>8, MaxOrphansAssumption DEF Disconnect, TypePointers
    <3>3. QED
      BY <3>1, <3>2
  <2>9. CASE InitLib
    <3>1. TypeFlags'
      BY <2>9, Zenon DEF InitLib, TypeFlags
    <3>2. TypePointers'
      BY <2>9, MaxOrphansAssumption DEF InitLib, TypePointers
    <3>3. QED
      BY <3>1, <3>2
  <2>10. CASE UNCHANGED vars
    BY <2>10, Zenon DEF vars, TypeFlags, TypePointers
  <2>11. QED
    BY <2>1, <2>2, <2>3, <2>4, <2>5, <2>6, <2>7, <2>8, <2>9, <2>10 DEF Next
<1>3. QED
  BY <1>1, <1>2, PTL DEF Spec

(* connect sets m_connected only after every object disconnect uses has   *)
(* been created, and every other exit of connect happens while            *)
(* disconnected: so disconnect never dereferences a missing object.       *)
THEOREM ResourcesWhileConnected == Spec => []ConnectedHasResources
<1>1. Init => ConnectedHasResources
  BY DEF Init, ConnectedHasResources
<1>2. ConnectedHasResources /\ [Next]_vars => ConnectedHasResources'
  <2> SUFFICES ASSUME ConnectedHasResources, [Next]_vars
               PROVE  ConnectedHasResources'
    OBVIOUS
  <2> USE DEF ConnectedHasResources
  <2>1. CASE ConnectNullName
    BY <2>1 DEF ConnectNullName, Begin
  <2>2. CASE ConnectTcrFail
    BY <2>2 DEF ConnectTcrFail, Begin
  <2>3. CASE ConnectLogFail
    BY <2>3 DEF ConnectLogFail, Begin
  <2>4. CASE ConnectProductDirFail
    BY <2>4 DEF ConnectProductDirFail, Begin
  <2>5. CASE ConnectStatsFail
    BY <2>5 DEF ConnectStatsFail, Begin
  <2>6. CASE ConnectImplFail
    BY <2>6 DEF ConnectImplFail, Begin
  <2>7. CASE ConnectOk
    BY <2>7 DEF ConnectOk, Started, PropsAtBegin
  <2>8. CASE Disconnect
    BY <2>8 DEF Disconnect
  <2>9. CASE InitLib
    BY <2>9 DEF InitLib
  <2>10. CASE UNCHANGED vars
    BY <2>10 DEF vars
  <2>11. QED
    BY <2>1, <2>2, <2>3, <2>4, <2>5, <2>6, <2>7, <2>8, <2>9, <2>10 DEF Next
<1>3. QED
  BY <1>1, <1>2, PTL DEF Spec
====
