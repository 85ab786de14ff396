------------------------------- MODULE MCMmu -------------------------------
(* An instance of Mmu for TLC: two levels of four entries.  Pages 1 and 2  *)
(* are the top tables of the host and of a process, 3 and 4 the tables of  *)
(* the slots of the two processors, 5 the user table, 6 and 7 user pages.  *)
EXTENDS Mmu, TLC

Tables == (1 :> [i \in 0 .. 3 |-> <<5, 3, 4, 1>>[i + 1]])
          @@ (2 :> [i \in 0 .. 3 |-> <<5, 3, 4, 2>>[i + 1]])
          @@ (3 :> [i \in 0 .. 3 |-> 0])
          @@ (4 :> [i \in 0 .. 3 |-> 0])
          @@ (5 :> [i \in 0 .. 3 |-> <<6, 7, 0, 0>>[i + 1]])
Addresses == [c \in 1 .. 2 |-> [s \in 1 .. 4 |-> 16 * c + 4 * (s - 1)]]
Backing == [c \in 1 .. 2 |-> [s \in 1 .. 4 |-> 10 * c + s]]
Changes == {<<5, 0, 0>>, <<5, 0, 6>>, <<5, 1, 0>>, <<5, 1, 6>>, <<5, 1, 7>>, <<2, 0, -1>>, <<2, 0, 5>>}
Code == {1, 2, 3}
Pairs == {<<1, 3>>, <<2, 6>>}
=============================================================================
