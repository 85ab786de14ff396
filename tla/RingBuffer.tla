----------------------------- MODULE RingBuffer -----------------------------
(***************************************************************************)
(* src/src/ringbuf.c: the byte ring under the secure mailbox.              *)
(*                                                                         *)
(* Pointers are offsets from RingBuffer->Base, so Base is 0 and End is     *)
(* Size.  A call is split wherever another processor can observe or        *)
(* disturb it:                                                             *)
(*   - the unlocked test of Tail (or Head) against End;                    *)
(*   - the acquisition of the spin lock;                                   *)
(*   - the copy and the advance of the pointer, under the lock;            *)
(*   - the reset of a pointer that has reached End exactly (a second store *)
(*     to the same field, so that the value End is visible in between);    *)
(*   - the release of the lock and the return.                             *)
(* A thread may be a writer, a reader or both; Mailbox.tla fixes who does  *)
(* what.  The arguments of a call are forgotten when it returns.           *)
(***************************************************************************)
EXTENDS Integers, Sequences

CONSTANTS
    Size,       \* RingBuffer->Size, bytes of the pool block
    Writers,    \* callers of RtlRingBufferWrite
    Readers,    \* callers of RtlRingBufferRead
    Byte,       \* byte values
    MaxLen,     \* longest DataSize a caller passes
    NoThread    \* the value of a free spin lock

ASSUME SizeAssumption == Size \in Nat \ {0}
ASSUME MaxLenAssumption == MaxLen \in Nat \ {0}
ASSUME NoThreadAssumption == NoThread \notin Writers \cup Readers

VARIABLES
    head,       \* RingBuffer->Head
    tail,       \* RingBuffer->Tail
    memory,     \* the bytes of RingBuffer->Base .. RingBuffer->End - 1
    lock,       \* owner of RingBuffer->Lock
    pc,         \* pc[t]: next step of the call t is in
    data,       \* data[t]: Data/DataSize argument of t's write
    want,       \* want[t]: DataSize argument of t's read
    out,        \* out[t]: bytes t's last read has copied to its Data
    status      \* status[t]: what t's last call has returned

vars == <<head, tail, memory, lock, pc, data, want, out, status>>

Threads == Writers \cup Readers
Cell == 0..(Size - 1)
Transfer == UNION {[1..n -> Byte] : n \in 1..MaxLen}

WriteLocked == {"w_copy", "w_wrap", "w_release"}
ReadLocked  == {"r_copy", "r_wrap", "r_release"}
Locked      == WriteLocked \cup ReadLocked
PcValues    == {"idle", "w_acquire", "r_acquire"} \cup Locked

-----------------------------------------------------------------------------
(* RB_AVAILABLE_BYTES and RtlRingBufferGetAvailBytes.  A caller that does  *)
(* not hold the lock may see either pointer at Size.                       *)

(* Mutant: an empty ring counts as full.                                   *)
AvailableBytesStrict(h, t) == IF t > h THEN Size - (t - h) ELSE h - t

AvailableBytes(h, t) == IF t >= h THEN Size - (t - h) ELSE h - t

AvailToWrite == AvailableBytes(head, tail)
AvailToRead  == Size - AvailToWrite

(* The cell an offset lands on once it runs past the end.                  *)
Wrap(p) == IF p >= Size THEN p - Size ELSE p

(* How many cells after a (around the end) cell b is.                      *)
Distance(a, b) == IF b >= a THEN b - a ELSE b + Size - a

-----------------------------------------------------------------------------
Init ==
    /\ head = 0
    /\ tail = 0
    /\ memory \in [Cell -> Byte]          \* pool memory is not cleared
    /\ lock = NoThread
    /\ pc = [t \in Threads |-> "idle"]
    /\ data = [t \in Threads |-> <<>>]
    /\ want = [t \in Threads |-> 0]
    /\ out = [t \in Threads |-> <<>>]
    /\ status = [t \in Threads |-> "none"]

Goto(t, step) == pc' = [pc EXCEPT ![t] = step]

Acquire(t, step) ==
    /\ lock = NoThread
    /\ lock' = t
    /\ Goto(t, step)
    /\ UNCHANGED <<head, tail, memory, data, want, out, status>>

Release(t) ==
    /\ lock' = NoThread
    /\ Goto(t, "idle")
    /\ status' = [status EXCEPT ![t] = "success"]
    /\ data' = [data EXCEPT ![t] = <<>>]
    /\ want' = [want EXCEPT ![t] = 0]
    /\ UNCHANGED <<head, tail, memory, out>>

-----------------------------------------------------------------------------
(* RtlRingBufferWrite                                                      *)

(* The unlocked test has found Tail at End: STATUS_INTERNAL_ERROR.         *)
WriteRefused(t, d) ==
    /\ pc[t] = "idle"
    /\ tail >= Size
    /\ status' = [status EXCEPT ![t] = "internal_error"]
    /\ UNCHANGED <<head, tail, memory, lock, pc, data, want, out>>

WriteBegin(t, d) ==
    /\ pc[t] = "idle"
    /\ ~ (tail >= Size)
    /\ data' = [data EXCEPT ![t] = d]
    /\ Goto(t, "w_acquire")
    /\ UNCHANGED <<head, tail, memory, lock, want, out, status>>

WriteAcquire(t) == pc[t] = "w_acquire" /\ Acquire(t, "w_copy")

(* Mutant: the data is not cut down, and overwrites the oldest bytes.      *)
BytesToCopyUncut(t) == Len(data[t])

(* BytesToCopy: the data, cut down to the available bytes.                 *)
BytesToCopy(t) ==
    IF AvailToWrite <= Len(data[t]) THEN AvailToWrite ELSE Len(data[t])

(* Mutant: a tail that reaches End exactly is left there.                  *)
WriteCopyNoReset(t) ==
    LET n == BytesToCopy(t)
    IN  /\ pc[t] = "w_copy"
        /\ memory' = [p \in Cell |-> IF Distance(tail, p) < n
                                      THEN data[t][Distance(tail, p) + 1]
                                      ELSE memory[p]]
        /\ tail' = IF tail + n > Size THEN n - (Size - tail) ELSE tail + n
        /\ Goto(t, "w_release")
        /\ UNCHANGED <<head, lock, data, want, out, status>>

(* Mutant: the pointer is advanced without wrapping round the end.         *)
WriteCopyNoWrap(t) ==
    LET n == BytesToCopy(t)
    IN  /\ pc[t] = "w_copy"
        /\ memory' = [p \in Cell |-> IF Distance(tail, p) < n
                                      THEN data[t][Distance(tail, p) + 1]
                                      ELSE memory[p]]
        /\ tail' = tail + n
        /\ Goto(t, IF tail + n = Size THEN "w_wrap" ELSE "w_release")
        /\ UNCHANGED <<head, lock, data, want, out, status>>

WriteCopy(t) ==
    LET n == BytesToCopy(t)
    IN  /\ pc[t] = "w_copy"
        /\ memory' = [p \in Cell |-> IF Distance(tail, p) < n
                                      THEN data[t][Distance(tail, p) + 1]
                                      ELSE memory[p]]
        /\ tail' = IF tail + n > Size THEN n - (Size - tail) ELSE tail + n
        /\ Goto(t, IF tail + n = Size THEN "w_wrap" ELSE "w_release")
        /\ UNCHANGED <<head, lock, data, want, out, status>>

WriteWrap(t) ==
    /\ pc[t] = "w_wrap"
    /\ tail' = 0
    /\ Goto(t, "w_release")
    /\ UNCHANGED <<head, memory, lock, data, want, out, status>>

WriteRelease(t) == pc[t] = "w_release" /\ Release(t)

-----------------------------------------------------------------------------
(* RtlRingBufferRead                                                       *)

ReadRefused(t) ==
    /\ pc[t] = "idle"
    /\ head >= Size
    /\ out' = [out EXCEPT ![t] = <<>>]
    /\ status' = [status EXCEPT ![t] = "internal_error"]
    /\ UNCHANGED <<head, tail, memory, lock, pc, data, want>>

ReadBegin(t, n) ==
    /\ pc[t] = "idle"
    /\ ~ (head >= Size)
    /\ out' = [out EXCEPT ![t] = <<>>]
    /\ want' = [want EXCEPT ![t] = n]
    /\ Goto(t, "r_acquire")
    /\ UNCHANGED <<head, tail, memory, lock, data, status>>

ReadAcquire(t) == pc[t] = "r_acquire" /\ Acquire(t, "r_copy")

(* Mutant: DataSize is not cut down to the bytes present.                  *)
BytesCopiedUncut(t) == want[t]

(* DataSize after it has been cut down to the bytes present.               *)
BytesCopied(t) == IF want[t] > AvailToRead THEN AvailToRead ELSE want[t]

(* Mutant: a head that reaches End exactly is left there.                  *)
ReadCopyNoReset(t) ==
    LET n == BytesCopied(t)
    IN  /\ pc[t] = "r_copy"
        /\ out' = [out EXCEPT ![t] = [k \in 1..n |-> memory[Wrap(head + k - 1)]]]
        /\ head' = IF head + n > Size THEN n - (Size - head) ELSE head + n
        /\ Goto(t, "r_release")
        /\ UNCHANGED <<tail, memory, lock, data, want, status>>

ReadCopy(t) ==
    LET n == BytesCopied(t)
    IN  /\ pc[t] = "r_copy"
        /\ out' = [out EXCEPT ![t] = [k \in 1..n |-> memory[Wrap(head + k - 1)]]]
        /\ head' = IF head + n > Size THEN n - (Size - head) ELSE head + n
        /\ Goto(t, IF head + n = Size THEN "r_wrap" ELSE "r_release")
        /\ UNCHANGED <<tail, memory, lock, data, want, status>>

ReadWrap(t) ==
    /\ pc[t] = "r_wrap"
    /\ head' = 0
    /\ Goto(t, "r_release")
    /\ UNCHANGED <<tail, memory, lock, data, want, out, status>>

ReadRelease(t) == pc[t] = "r_release" /\ Release(t)

-----------------------------------------------------------------------------
(* The steps of a call that has passed its unlocked test.                  *)
Advance(t) ==
    \/ WriteAcquire(t) \/ WriteCopy(t) \/ WriteWrap(t) \/ WriteRelease(t)
    \/ ReadAcquire(t)  \/ ReadCopy(t)  \/ ReadWrap(t)  \/ ReadRelease(t)

Write(t, d) == WriteRefused(t, d) \/ WriteBegin(t, d)
Read(t, n)  == ReadRefused(t) \/ ReadBegin(t, n)

Next ==
    \/ \E t \in Threads : Advance(t)
    \/ \E t \in Writers, d \in Transfer : Write(t, d)
    \/ \E t \in Readers, n \in 1..MaxLen : Read(t, n)

Spec == Init /\ [][Next]_vars

-----------------------------------------------------------------------------
TypeOK ==
    /\ head \in 0..Size
    /\ tail \in 0..Size
    /\ memory \in [Cell -> Byte]
    /\ lock \in Threads \cup {NoThread}
    /\ pc \in [Threads -> PcValues]
    /\ data \in [Threads -> Seq(Byte)]
    /\ want \in [Threads -> 0..MaxLen]
    /\ out \in [Threads -> Seq(Byte)]
    /\ status \in [Threads -> {"none", "success", "internal_error"}]

(* The lock protects what it is there for: whoever is between acquire and  *)
(* release owns it, and a pointer stands at End only while its owner is    *)
(* about to reset it.  So no thread that takes the lock ever computes the  *)
(* available bytes from a pointer outside the ring, which is what the two  *)
(* NT_ASSERTs before the release (ringbuf.c:140 and :222) rely on.         *)
LockDiscipline ==
    /\ \A t \in Threads : pc[t] \in Locked <=> lock = t
    /\ tail = Size <=> \E t \in Threads : pc[t] = "w_wrap"
    /\ head = Size <=> \E t \in Threads : pc[t] = "r_wrap"

(* The ring's contents, whatever the pointers' representation: a pointer   *)
(* at End is one at Base.                                                  *)
LogicalHead == Wrap(head)
LogicalTail == Wrap(tail)
Used == Distance(LogicalHead, LogicalTail)
Contents == [k \in 1..Used |-> memory[Wrap(LogicalHead + k - 1)]]

(* Ring buffer implements byte queue: every interleaving of readers and    *)
(* writers is one of a FIFO queue whose operations are atomic at the copy. *)
Queue == INSTANCE ByteQueue WITH Capacity <- Size, queue <- Contents
ImplementsByteQueue == Queue!Spec

(* No call keeps the spin lock: whoever holds it lets it go.               *)
LockIsReleased == \A t \in Threads : lock = t ~> lock # t
=============================================================================
