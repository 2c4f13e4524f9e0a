--------------------------- MODULE InstructionLog ---------------------------
(***************************************************************************)
(* What H promises about its instruction log, without queues, connections  *)
(* or restarts: instructions are numbered consecutively, a replica's       *)
(* watermark only advances and never past the last instruction, an         *)
(* acknowledgement never passes the watermark, and a record leaves the log *)
(* only when every current member acknowledged it.                         *)
(***************************************************************************)
EXTENDS Naturals

CONSTANT Peers

VARIABLES
    size,     \* number of instructions committed
    members,
    mark,     \* what each replica has applied
    ack,      \* what H knows each replica applied
    log       \* ids still held

vars == <<size, members, mark, ack, log>>

Unneeded(i) == \A p \in members : ack[p] >= i

\* Any number of records that every member acknowledged may leave the log.
Keeps(ids) ==
    /\ log' \subseteq ids
    /\ \A i \in ids \ log' : Unneeded(i)'

Init ==
    /\ size = 0
    /\ members = {}
    /\ mark = [p \in Peers |-> 0]
    /\ ack = [p \in Peers |-> 0]
    /\ log = {}

\* A commit; a kick also removes its target and forgets its acknowledgement.
Commit(gone) ==
    /\ size' = size + 1
    /\ members' = members \ gone
    /\ ack' = [p \in Peers |-> IF p \in gone THEN 0 ELSE ack[p]]
    /\ Keeps(log \cup {size + 1})
    /\ UNCHANGED mark

Join(p) ==
    /\ members' = members \cup {p}
    /\ Keeps(log)
    /\ UNCHANGED <<size, mark, ack>>

Apply(p, n) ==
    /\ n \in mark[p] .. size
    /\ mark' = [mark EXCEPT ![p] = n]
    /\ UNCHANGED <<size, members, ack, log>>

Acknowledge(p, n) ==
    /\ p \in members
    /\ n \in ack[p] .. mark[p]
    /\ ack' = [ack EXCEPT ![p] = n]
    /\ Keeps(log)
    /\ UNCHANGED <<size, members, mark>>

Next ==
    \/ \E gone \in SUBSET members : Commit(gone)
    \/ \E p \in Peers : \/ Join(p)
                        \/ \E n \in 0 .. size : Apply(p, n) \/ Acknowledge(p, n)

Spec == Init /\ [][Next]_vars
=============================================================================
