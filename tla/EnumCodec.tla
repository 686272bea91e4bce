----------------------------- MODULE EnumCodec -----------------------------
(***************************************************************************)
(* What the enum codec cache of the PDX registry promises (spec section   *)
(* 4.3), as an abstract specification with no threads and no locks: the  *)
(* two maps of the bijection between EnumInfo values and their codes, and *)
(* the number of times the server has been asked about each enum or code *)
(* since the last clear.                                                   *)
(*                                                                         *)
(* An enum missing from enumToInt is resolved by the server in one atomic *)
(* step that asks the server and stores the answer; the same holds for a *)
(* code missing from intToEnum.  clear empties both maps.  Lookups that   *)
(* hit change nothing and are stuttering steps.                            *)
(*                                                                         *)
(* PdxTypeRegistry instantiates this module: its double-checked locking   *)
(* (unlocked find, write lock, re-check, server call, store) is shown to  *)
(* implement these atomic steps.                                           *)
(***************************************************************************)
EXTENDS Naturals

CONSTANTS
    Enums,       \* EnumInfo values
    EnumCodeOf,  \* the code the server assigns to each enum
    None         \* absent map entry

VARIABLES
    enumToInt,   \* enum -> code
    intToEnum,   \* code -> enum
    serverCalls  \* server negotiations per enum or code since the last clear

Codes == {EnumCodeOf[e] : e \in Enums}

\* The enum the server resolves a code to.
EnumOf(c) == CHOOSE e \in Enums : EnumCodeOf[e] = c

codecVars == <<enumToInt, intToEnum, serverCalls>>

Init ==
    /\ enumToInt = [e \in Enums |-> None]
    /\ intToEnum = [c \in Codes |-> None]
    /\ serverCalls = [x \in Enums \cup Codes |-> 0]

\* getEnumValue on an enum that is not cached: ask the server, store its code.
ResolveValue(e) ==
    /\ enumToInt[e] = None
    /\ enumToInt' = [enumToInt EXCEPT ![e] = EnumCodeOf[e]]
    /\ serverCalls' = [serverCalls EXCEPT ![e] = @ + 1]
    /\ UNCHANGED intToEnum

\* getEnum on a code that is not cached: ask the server, store its enum.
ResolveEnum(c) ==
    /\ intToEnum[c] = None
    /\ intToEnum' = [intToEnum EXCEPT ![c] = EnumOf(c)]
    /\ serverCalls' = [serverCalls EXCEPT ![c] = @ + 1]
    /\ UNCHANGED enumToInt

\* clear: both maps emptied, and the server may be asked again.
Clear ==
    /\ enumToInt' = [e \in Enums |-> None]
    /\ intToEnum' = [c \in Codes |-> None]
    /\ serverCalls' = [x \in Enums \cup Codes |-> 0]

Next ==
    \/ \E e \in Enums : ResolveValue(e)
    \/ \E c \in Codes : ResolveEnum(c)
    \/ Clear

Spec == Init /\ [][Next]_codecVars

(* The server is asked about an enum or a code at most once between two  *)
(* clears.                                                                  *)
CallsBounded == \A x \in Enums \cup Codes : serverCalls[x] <= 1
====
