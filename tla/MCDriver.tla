------------------------------ MODULE MCDriver ------------------------------
EXTENDS Driver

CONSTANTS c1, c2, p1, p2

(* DriverEntry, the mailbox worker and one process share a processor, the  *)
(* other process has the other one.                                        *)
Pinned == [x \in {Entry, Worker, p1, p2} |-> IF x = p2 THEN {c2} ELSE {c1}]

(* One process id is used twice.                                           *)
Lives == [p \in {p1, p2} |-> IF p = p1 THEN 2 ELSE 1]
=============================================================================
