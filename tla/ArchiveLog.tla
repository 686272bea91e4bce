----------------------------- MODULE ArchiveLog -----------------------------
(***************************************************************************)
(* What a statistics archive promises its reader, whatever writes it: a    *)
(* log of records that only grows, in which an instance is announced by a  *)
(* create record with an id never used before and ended by one delete      *)
(* record, and every other record starts and ends nothing.  live is the    *)
(* set of instances announced and not yet ended, nextId the id the next    *)
(* create will carry.                                                      *)
(***************************************************************************)
EXTENDS Naturals, Sequences

VARIABLES log, live, nextId

vars == <<log, live, nextId>>

\* The log after the step begins with the log before it.
Grows == Len(log) <= Len(log') /\ SubSeq(log', 1, Len(log)) = log

\* The records a step appends.
Added == SubSeq(log', Len(log) + 1, Len(log'))

\* Records that neither announce nor end an instance.
Quiet(r) == \A j \in 1..Len(r) : r[j].k \notin {"create", "delete"}

Init == log = <<>> /\ live = {} /\ nextId = 0

\* Headers, types, sample markers, values and end markers.
Write ==
    /\ Grows /\ Quiet(Added)
    /\ UNCHANGED <<live, nextId>>

\* A new instance, after any records that announce nothing, with the next id.
Create ==
    /\ Grows /\ Len(Added) >= 1
    /\ Quiet(SubSeq(Added, 1, Len(Added) - 1))
    /\ Added[Len(Added)].k = "create" /\ Added[Len(Added)].id = nextId
    /\ live' = live \cup {nextId}
    /\ nextId' = nextId + 1

\* A live instance ends.
Delete ==
    /\ Grows
    /\ \E d \in live : Added = <<[k |-> "delete", id |-> d]>> /\ live' = live \ {d}
    /\ UNCHANGED nextId

Next == Write \/ Create \/ Delete

Spec == Init /\ [][Next]_vars
=============================================================================
