------------------------------- MODULE MCHeap -------------------------------
(* An instance of Heap for TLC.                                            *)
EXTENDS Heap

(* An arena whose pages are neither adjacent nor in order.                 *)
Scattered == {[i \in 0 .. Pages - 1 |-> 2 * (Pages - i)]}
=============================================================================
