------------------------- MODULE MCPdxTypeRegistry -------------------------
(* Model-checking instance of PdxTypeRegistry: the server numbers the      *)
(* schemas and enums of the instance 1, 2, ...                            *)
EXTENDS PdxTypeRegistry

CONSTANTS s1, s2, e1, e2

MCTypeIdOf == [s \in Schemas |-> IF s = s1 THEN 1 ELSE 2]
MCEnumCodeOf == [e \in Enums |-> IF e = e1 THEN 1 ELSE 2]
====
