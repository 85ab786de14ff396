----------------------------- MODULE ByteQueue -----------------------------
(***************************************************************************)
(* What RtlRingBuffer (src/src/ringbuf.c) delivers to its callers, with no *)
(* pointer, lock or memory cell in sight: a FIFO queue of bytes that holds *)
(* fewer than Capacity of them.  A write that would fill it does not fail  *)
(* and does not make room either: the queue is empty afterwards, because a *)
(* full ring (Tail = Head) reads as an empty one.                          *)
(*                                                                         *)
(* RingBuffer.tla is shown to implement this specification.                *)
(***************************************************************************)
EXTENDS Integers, Sequences

CONSTANTS
    Capacity,   \* bytes of the ring's memory
    Threads,    \* callers of RtlRingBufferRead and RtlRingBufferWrite
    Byte,       \* byte values
    MaxLen      \* longest transfer of one call

VARIABLES
    queue,      \* bytes written and not yet read, oldest first
    out         \* out[t]: the bytes the last read of t has returned

vars == <<queue, out>>

Transfer == UNION {[1..n -> Byte] : n \in 1..MaxLen}

Lesser(a, b) == IF a <= b THEN a ELSE b

Init == queue = <<>> /\ out = [t \in Threads |-> <<>>]

(* A write appends its data, or empties a queue it would fill.             *)
Put(d) ==
    /\ queue' = IF Len(queue) + Len(d) < Capacity THEN queue \o d ELSE <<>>
    /\ UNCHANGED out

(* A read call starts: it has returned nothing yet.                        *)
Ask(t) ==
    /\ out' = [out EXCEPT ![t] = <<>>]
    /\ UNCHANGED queue

(* A read takes the oldest bytes: n of them, or all when there are fewer.  *)
Get(t, n) ==
    LET k == Lesser(n, Len(queue))
    IN  /\ out' = [out EXCEPT ![t] = SubSeq(queue, 1, k)]
        /\ queue' = SubSeq(queue, k + 1, Len(queue))

Next ==
    \/ \E d \in Transfer : Put(d)
    \/ \E t \in Threads : Ask(t)
    \/ \E t \in Threads, n \in 1..MaxLen : Get(t, n)

Spec == Init /\ [][Next]_vars
=============================================================================
