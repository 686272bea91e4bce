---------------------------- MODULE MCStatArchive ----------------------------
(* Small instances of StatArchive: two statistics of one type with one   *)
(* descriptor, or of two types.                                           *)
EXTENDS StatArchive, TLC

CONSTANTS s1, s2, t1, t2

MCStats == {s1, s2}
MCTypes == {t1, t2}
OneType == [s \in MCStats |-> t1]
TwoTypes == (s1 :> t1) @@ (s2 :> t2)
====
