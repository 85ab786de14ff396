--------------------------- MODULE MailboxProofs ---------------------------
(***************************************************************************)
(* Proofs about RingBuffer, for every ring size, every set of callers and  *)
(* every byte alphabet, and about Mailbox, for every number of processors, *)
(* every ring and record size and every number of posts.                   *)
(*                                                                         *)
(* The ring's inductive invariant is RingInv: the types, LockDiscipline,   *)
(* and that a call in progress still has the arguments it was given.  The  *)
(* mailbox moves the ring only by the ring's own steps, so whatever is     *)
(* shown of the ring holds inside the mailbox.  The mailbox's own          *)
(* inductive invariant adds who may be where in the ring.                  *)
(***************************************************************************)
EXTENDS Mailbox, SequenceTheorems, TLAPS

(* What a call in progress works on is what its caller passed.             *)
Arguments ==
    \A t \in Threads :
        /\ pc[t] \in {"w_acquire", "w_copy"} => data[t] \in Transfer
        /\ pc[t] \in {"r_acquire", "r_copy"} => want[t] \in 1..MaxLen

RingInv == TypeOK /\ LockDiscipline /\ Arguments

-----------------------------------------------------------------------------
(* A transfer is a non-empty sequence of at most MaxLen bytes.             *)
LEMMA TransferIsSeq ==
    ASSUME NEW d \in Transfer
    PROVE  d \in Seq(Byte) /\ Len(d) \in 1..MaxLen
<1>1. PICK n \in 1..MaxLen : d \in [1..n -> Byte]
  BY DEF Transfer
<1>2. n \in Nat
  BY MaxLenAssumption
<1>3. d \in Seq(Byte)
  BY <1>1, <1>2, SeqDef
<1>4. DOMAIN d = 1..n /\ DOMAIN d = 1..Len(d) /\ Len(d) \in Nat
  BY <1>1, <1>3, LenProperties
<1>5. Len(d) = n
  BY <1>2, <1>4
<1> QED BY <1>1, <1>3, <1>5

(* With both pointers inside the ring there is always at least one byte to *)
(* write to: the macro cannot tell a full ring from an empty one, and      *)
(* takes it for empty.                                                     *)
LEMMA SomeByteIsAvailable ==
    ASSUME NEW h \in Cell, NEW t \in Cell
    PROVE  AvailableBytes(h, t) \in 1..Size
BY SizeAssumption DEF Cell, AvailableBytes

(* The holder of the lock finds both pointers inside the ring, unless it   *)
(* is the one that has just moved one of them to End.                      *)
LEMMA PointersUnderLock ==
    ASSUME RingInv, NEW t \in Threads, pc[t] \in {"w_copy", "r_copy"}
    PROVE  head \in Cell /\ tail \in Cell
<1>1. \A u \in Threads : pc[u] \in Locked => u = t
  BY DEF RingInv, LockDiscipline, Locked, WriteLocked, ReadLocked
<1>2. head # Size /\ tail # Size
  BY <1>1 DEF RingInv, LockDiscipline, Locked, WriteLocked, ReadLocked
<1> QED
  BY <1>2, SizeAssumption DEF RingInv, TypeOK, Cell

(* The ring starts empty, with both pointers at Base and the lock free.    *)
LEMMA InitRingInv == Init => RingInv
<1> SUFFICES ASSUME Init PROVE RingInv
  OBVIOUS
<1>1. TypeOK
  BY SizeAssumption, MaxLenAssumption, EmptySeq DEF Init, TypeOK, PcValues
<1>2. LockDiscipline
  BY SizeAssumption, NoThreadAssumption
  DEF Init, LockDiscipline, Threads, Locked, WriteLocked, ReadLocked
<1>3. Arguments
  BY DEF Init, Arguments
<1> QED BY <1>1, <1>2, <1>3 DEF RingInv

-----------------------------------------------------------------------------
(* Every step of RtlRingBufferWrite keeps the invariant.                   *)
LEMMA WriteKeepsRingInv ==
    ASSUME RingInv, NEW t \in Threads,
           \/ WriteAcquire(t) \/ WriteCopy(t) \/ WriteWrap(t) \/ WriteRelease(t)
           \/ \E d \in Transfer : Write(t, d)
    PROVE  RingInv'
<1> USE SizeAssumption, MaxLenAssumption
<1>1. CASE WriteAcquire(t)
  <2>1. TypeOK'
    BY <1>1 DEF RingInv, TypeOK, WriteAcquire, Acquire, Goto, PcValues, Locked, WriteLocked
  <2>2. LockDiscipline'
    BY <1>1, NoThreadAssumption
    DEF RingInv, TypeOK, LockDiscipline, WriteAcquire, Acquire, Goto, Threads,
        Locked, WriteLocked, ReadLocked
  <2>3. Arguments'
    BY <1>1 DEF RingInv, TypeOK, Arguments, WriteAcquire, Acquire, Goto
  <2> QED BY <2>1, <2>2, <2>3 DEF RingInv
<1>2. CASE WriteCopy(t)
  <2> DEFINE n == BytesToCopy(t)
  <2>1. head \in Cell /\ tail \in Cell
    BY <1>2, PointersUnderLock DEF WriteCopy
  <2>2. AvailToWrite \in 1..Size
    BY <2>1, SomeByteIsAvailable DEF AvailToWrite
  <2>3. data[t] \in Seq(Byte) /\ Len(data[t]) \in 1..MaxLen
    BY <1>2, TransferIsSeq DEF RingInv, Arguments, WriteCopy
  <2>4. n \in 1..Size /\ n <= Len(data[t])
    BY <2>2, <2>3 DEF BytesToCopy
  <2>5. tail' \in 0..Size /\ (tail' = Size <=> tail + n = Size)
    BY <1>2, <2>1, <2>4 DEF WriteCopy, Cell
  <2>6. memory' \in [Cell -> Byte]
    <3>1. \A p \in Cell : Distance(tail, p) \in Cell
      BY <2>1 DEF Distance, Cell
    <3>2. ASSUME NEW p \in Cell, Distance(tail, p) < n PROVE data[t][Distance(tail, p) + 1] \in Byte
      <4>1. Distance(tail, p) \in 0..(Size - 1)
        BY <3>1 DEF Cell
      <4>2. Distance(tail, p) + 1 \in 1..Len(data[t])
        BY <2>3, <2>4, <3>2, <4>1
      <4> QED BY <2>3, <4>2, ElementOfSeq
    <3> QED BY <1>2, <3>1, <3>2 DEF WriteCopy, RingInv, TypeOK
  <2>7. TypeOK'
    BY <1>2, <2>5, <2>6
    DEF RingInv, TypeOK, WriteCopy, Goto, PcValues, Locked, WriteLocked
  <2>8. LockDiscipline'
    BY <1>2, <2>1, <2>5, PointersUnderLock
    DEF RingInv, TypeOK, LockDiscipline, WriteCopy, Goto, Cell,
        Locked, WriteLocked, ReadLocked
  <2>9. Arguments'
    BY <1>2 DEF RingInv, TypeOK, Arguments, WriteCopy, Goto
  <2> QED BY <2>7, <2>8, <2>9 DEF RingInv
<1>3. CASE WriteWrap(t)
  <2>1. TypeOK'
    BY <1>3 DEF RingInv, TypeOK, WriteWrap, Goto, PcValues, Locked, WriteLocked
  <2>2. LockDiscipline'
    BY <1>3
    DEF RingInv, TypeOK, LockDiscipline, WriteWrap, Goto, Locked, WriteLocked, ReadLocked
  <2>3. Arguments'
    BY <1>3 DEF RingInv, TypeOK, Arguments, WriteWrap, Goto
  <2> QED BY <2>1, <2>2, <2>3 DEF RingInv
<1>4. CASE WriteRelease(t)
  <2>1. TypeOK'
    BY <1>4, EmptySeq DEF RingInv, TypeOK, WriteRelease, Release, Goto, PcValues
  <2>2. LockDiscipline'
    BY <1>4, NoThreadAssumption
    DEF RingInv, TypeOK, LockDiscipline, WriteRelease, Release, Goto, Threads,
        Locked, WriteLocked, ReadLocked
  <2>3. Arguments'
    BY <1>4 DEF RingInv, TypeOK, Arguments, WriteRelease, Release, Goto
  <2> QED BY <2>1, <2>2, <2>3 DEF RingInv
<1>5. ASSUME NEW d \in Transfer, WriteRefused(t, d) PROVE RingInv'
  <2>1. TypeOK'
    BY <1>5 DEF RingInv, TypeOK, WriteRefused
  <2>2. LockDiscipline' /\ Arguments'
    BY <1>5 DEF RingInv, LockDiscipline, Arguments, WriteRefused
  <2> QED BY <2>1, <2>2 DEF RingInv
<1>6. ASSUME NEW d \in Transfer, WriteBegin(t, d) PROVE RingInv'
  <2>1. TypeOK'
    BY <1>6, TransferIsSeq DEF RingInv, TypeOK, WriteBegin, Goto, PcValues
  <2>2. LockDiscipline'
    BY <1>6
    DEF RingInv, TypeOK, LockDiscipline, WriteBegin, Goto, Locked, WriteLocked, ReadLocked
  <2>3. Arguments'
    BY <1>6 DEF RingInv, TypeOK, Arguments, WriteBegin, Goto
  <2> QED BY <2>1, <2>2, <2>3 DEF RingInv
<1> QED BY <1>1, <1>2, <1>3, <1>4, <1>5, <1>6 DEF Write

(* Every step of RtlRingBufferRead keeps the invariant.                    *)
LEMMA ReadKeepsRingInv ==
    ASSUME RingInv, NEW t \in Threads,
           \/ ReadAcquire(t) \/ ReadCopy(t) \/ ReadWrap(t) \/ ReadRelease(t)
           \/ \E n \in 1..MaxLen : Read(t, n)
    PROVE  RingInv'
<1> USE SizeAssumption, MaxLenAssumption
<1>1. CASE ReadAcquire(t)
  <2>1. TypeOK'
    BY <1>1 DEF RingInv, TypeOK, ReadAcquire, Acquire, Goto, PcValues, Locked, ReadLocked
  <2>2. LockDiscipline'
    BY <1>1, NoThreadAssumption
    DEF RingInv, TypeOK, LockDiscipline, ReadAcquire, Acquire, Goto, Threads,
        Locked, WriteLocked, ReadLocked
  <2>3. Arguments'
    BY <1>1 DEF RingInv, TypeOK, Arguments, ReadAcquire, Acquire, Goto
  <2> QED BY <2>1, <2>2, <2>3 DEF RingInv
<1>2. CASE ReadCopy(t)
  <2> DEFINE n == BytesCopied(t)
  <2>1. head \in Cell /\ tail \in Cell
    BY <1>2, PointersUnderLock DEF ReadCopy
  <2>2. AvailToRead \in Cell
    BY <2>1, SomeByteIsAvailable DEF AvailToRead, AvailToWrite, Cell
  <2>3. want[t] \in 1..MaxLen
    BY <1>2 DEF RingInv, Arguments, ReadCopy
  <2>4. n \in Cell
    BY <2>2, <2>3 DEF BytesCopied, Cell
  <2>5. head' \in 0..Size /\ (head' = Size <=> head + n = Size)
    BY <1>2, <2>1, <2>4 DEF ReadCopy, Cell
  <2>6. out' \in [Threads -> Seq(Byte)]
    <3>1. \A k \in 1..n : Wrap(head + k - 1) \in Cell
      BY <2>1, <2>4 DEF Wrap, Cell
    <3>2. [k \in 1..n |-> memory[Wrap(head + k - 1)]] \in [1..n -> Byte]
      BY <3>1 DEF RingInv, TypeOK
    <3>3. [k \in 1..n |-> memory[Wrap(head + k - 1)]] \in Seq(Byte)
      BY <2>4, <3>2, SeqDef DEF Cell
    <3> QED BY <1>2, <3>3 DEF ReadCopy, RingInv, TypeOK
  <2>7. TypeOK'
    BY <1>2, <2>5, <2>6
    DEF RingInv, TypeOK, ReadCopy, Goto, PcValues, Locked, ReadLocked
  <2>8. LockDiscipline'
    BY <1>2, <2>1, <2>5, PointersUnderLock
    DEF RingInv, TypeOK, LockDiscipline, ReadCopy, Goto, Cell,
        Locked, WriteLocked, ReadLocked
  <2>9. Arguments'
    BY <1>2 DEF RingInv, TypeOK, Arguments, ReadCopy, Goto
  <2> QED BY <2>7, <2>8, <2>9 DEF RingInv
<1>3. CASE ReadWrap(t)
  <2>1. TypeOK'
    BY <1>3 DEF RingInv, TypeOK, ReadWrap, Goto, PcValues, Locked, ReadLocked
  <2>2. LockDiscipline'
    BY <1>3
    DEF RingInv, TypeOK, LockDiscipline, ReadWrap, Goto, Locked, WriteLocked, ReadLocked
  <2>3. Arguments'
    BY <1>3 DEF RingInv, TypeOK, Arguments, ReadWrap, Goto
  <2> QED BY <2>1, <2>2, <2>3 DEF RingInv
<1>4. CASE ReadRelease(t)
  <2>1. TypeOK'
    BY <1>4, EmptySeq DEF RingInv, TypeOK, ReadRelease, Release, Goto, PcValues
  <2>2. LockDiscipline'
    BY <1>4, NoThreadAssumption
    DEF RingInv, TypeOK, LockDiscipline, ReadRelease, Release, Goto, Threads,
        Locked, WriteLocked, ReadLocked
  <2>3. Arguments'
    BY <1>4 DEF RingInv, TypeOK, Arguments, ReadRelease, Release, Goto
  <2> QED BY <2>1, <2>2, <2>3 DEF RingInv
<1>5. CASE ReadRefused(t)
  <2>1. TypeOK'
    BY <1>5, EmptySeq DEF RingInv, TypeOK, ReadRefused
  <2>2. LockDiscipline' /\ Arguments'
    BY <1>5 DEF RingInv, LockDiscipline, Arguments, ReadRefused
  <2> QED BY <2>1, <2>2 DEF RingInv
<1>6. ASSUME NEW n \in 1..MaxLen, ReadBegin(t, n) PROVE RingInv'
  <2>1. TypeOK'
    BY <1>6, EmptySeq DEF RingInv, TypeOK, ReadBegin, Goto, PcValues
  <2>2. LockDiscipline'
    BY <1>6
    DEF RingInv, TypeOK, LockDiscipline, ReadBegin, Goto, Locked, WriteLocked, ReadLocked
  <2>3. Arguments'
    BY <1>6 DEF RingInv, TypeOK, Arguments, ReadBegin, Goto
  <2> QED BY <2>1, <2>2, <2>3 DEF RingInv
<1> QED BY <1>1, <1>2, <1>3, <1>4, <1>5, <1>6 DEF Read

(* RingInv is inductive.                                                   *)
LEMMA NextKeepsRingInv == RingInv /\ [Next]_vars => RingInv'
<1> SUFFICES ASSUME RingInv, [Next]_vars PROVE RingInv'
  OBVIOUS
<1>1. CASE UNCHANGED vars
  BY <1>1 DEF vars, RingInv, TypeOK, LockDiscipline, Arguments
<1>2. ASSUME NEW t \in Threads, Advance(t) PROVE RingInv'
  BY <1>2, WriteKeepsRingInv, ReadKeepsRingInv DEF Advance
<1>3. ASSUME NEW t \in Writers, NEW d \in Transfer, Write(t, d) PROVE RingInv'
  BY <1>3, WriteKeepsRingInv DEF Threads
<1>4. ASSUME NEW t \in Readers, NEW n \in 1..MaxLen, Read(t, n) PROVE RingInv'
  BY <1>4, ReadKeepsRingInv DEF Threads
<1> QED BY <1>1, <1>2, <1>3, <1>4 DEF Next

(* Pointers, lock, buffers and program counters keep their types in every  *)
(* interleaving of RtlRingBufferRead and RtlRingBufferWrite calls.         *)
THEOREM TypeCorrect == Spec => []TypeOK
<1>1. RingInv => TypeOK
  BY DEF RingInv
<1> QED BY <1>1, InitRingInv, NextKeepsRingInv, PTL DEF Spec

(* The spin lock does its job: its owner is the only caller between        *)
(* acquire and release, and no other caller that acquires it ever sees a   *)
(* pointer at End, as the NT_ASSERTs of ringbuf.c:140 and :222 demand.     *)
THEOREM LockDisciplineHolds == Spec => []LockDiscipline
<1>1. RingInv => LockDiscipline
  BY DEF RingInv
<1> QED BY <1>1, InitRingInv, NextKeepsRingInv, PTL DEF Spec

-----------------------------------------------------------------------------
(* Refinement.  Contents is the abstract queue; the copy under the lock is *)
(* the step at which a call takes effect.                                  *)

(* Advancing the second of two pointers by n lengthens the way to it by n, *)
(* as long as it does not catch up with the first.                         *)
LEMMA DistanceGrows ==
    ASSUME NEW h \in Cell, NEW l \in Cell, NEW n \in Nat, Distance(h, l) + n < Size
    PROVE  Distance(h, Wrap(l + n)) = Distance(h, l) + n
BY SizeAssumption DEF Distance, Wrap, Cell

(* The cells in use, from h up to l, are at least n cells after l when n   *)
(* cells are free.                                                         *)
LEMMA UsedCells ==
    ASSUME NEW h \in Cell, NEW l \in Cell, NEW n \in Nat, Distance(h, l) + n < Size,
           NEW k \in 1..Distance(h, l)
    PROVE  Wrap(h + k - 1) \in Cell /\ ~ (Distance(l, Wrap(h + k - 1)) < n)
BY SizeAssumption DEF Distance, Wrap, Cell

(* The cells that follow them are the first free ones, in order.           *)
LEMMA FreeCells ==
    ASSUME NEW h \in Cell, NEW l \in Cell, NEW n \in Nat, Distance(h, l) + n < Size,
           NEW k \in (Distance(h, l) + 1)..(Distance(h, l) + n)
    PROVE  /\ Wrap(h + k - 1) \in Cell
           /\ Distance(l, Wrap(h + k - 1)) = k - Distance(h, l) - 1
BY SizeAssumption DEF Distance, Wrap, Cell

(* Contents is a byte sequence as long as Used, and shorter than the ring. *)
LEMMA ContentsIsSeq ==
    RingInv => /\ Used \in Cell
               /\ Contents \in Seq(Byte)
               /\ Len(Contents) = Used
               /\ LogicalHead \in Cell /\ LogicalTail \in Cell
<1> SUFFICES ASSUME RingInv
             PROVE  /\ Used \in Cell
                    /\ Contents \in Seq(Byte)
                    /\ Len(Contents) = Used
                    /\ LogicalHead \in Cell /\ LogicalTail \in Cell
  OBVIOUS
<1> USE SizeAssumption
<1>1. LogicalHead \in Cell /\ LogicalTail \in Cell
  BY DEF RingInv, TypeOK, LogicalHead, LogicalTail, Wrap, Cell
<1>2. Used \in Cell
  BY <1>1 DEF Used, Distance, Cell
<1>3. \A k \in 1..Used : Wrap(LogicalHead + k - 1) \in Cell
  BY <1>1, <1>2 DEF Wrap, Cell
<1>4. Contents \in [1..Used -> Byte]
  BY <1>3 DEF Contents, RingInv, TypeOK
<1>5. Contents \in Seq(Byte)
  BY <1>2, <1>4, SeqDef DEF Cell
<1>6. Len(Contents) = Used
  <2>1. Len(Contents) \in Nat /\ 1..Len(Contents) = 1..Used
    BY <1>4, <1>5, LenProperties
  <2> QED BY <1>2, <2>1 DEF Cell
<1> QED BY <1>1, <1>2, <1>5, <1>6

(* The copy of a write appends its data to the queue or, when the data     *)
(* would fill the ring, leaves the queue empty.                            *)
LEMMA WriteCopyPuts ==
    ASSUME RingInv, NEW t \in Threads, WriteCopy(t)
    PROVE  data[t] \in Transfer /\ Queue!Put(data[t])
<1> USE SizeAssumption
<1> DEFINE n == BytesToCopy(t)
           d == data[t]
<1>1. head \in Cell /\ tail \in Cell /\ d \in Transfer
  BY PointersUnderLock DEF WriteCopy, RingInv, Arguments
<1>2. d \in Seq(Byte) /\ Len(d) \in Nat \ {0}
  BY <1>1, TransferIsSeq, MaxLenAssumption
<1>3. /\ Used \in Cell /\ Contents \in Seq(Byte) /\ Len(Contents) = Used
      /\ LogicalHead = head /\ LogicalTail = tail
  BY <1>1, ContentsIsSeq DEF LogicalHead, LogicalTail, Wrap, Cell
<1>4. AvailToWrite = Size - Used /\ Used = Distance(head, tail)
  BY <1>1, <1>3 DEF AvailToWrite, AvailableBytes, Used, Distance, Cell
<1>5. RingInv'
  BY WriteKeepsRingInv
<1>6. head' = head /\ LogicalHead' = head
  BY <1>1 DEF WriteCopy, LogicalHead, Wrap, Cell
<1>7. CASE Used + Len(d) < Size
  <2>1. n = Len(d)
    BY <1>2, <1>3, <1>4, <1>7 DEF BytesToCopy, Cell
  <2>2. LogicalTail' = Wrap(tail + n)
    BY <1>1, <1>2, <1>3, <1>7, <2>1 DEF WriteCopy, LogicalTail, Wrap, Cell
  <2>3. Used' = Used + n
    <3>1. Used' = Distance(head, Wrap(tail + n))
      BY <1>6, <2>2 DEF Used, Distance
    <3> QED BY <1>1, <1>2, <1>4, <1>7, <2>1, <3>1, DistanceGrows
  <2>4. ASSUME NEW k \in 1..Used PROVE Contents'[k] = Contents[k]
    <3>1. Wrap(head + k - 1) \in Cell /\ ~ (Distance(tail, Wrap(head + k - 1)) < n)
      BY <1>1, <1>2, <1>4, <1>7, <2>1, <2>4, UsedCells
    <3>2. memory'[Wrap(head + k - 1)] = memory[Wrap(head + k - 1)]
      BY <3>1 DEF WriteCopy
    <3>3. k \in 1..Used'
      BY <1>2, <1>3, <2>1, <2>3, <2>4 DEF Cell
    <3>4. Contents'[k] = memory'[Wrap(head + k - 1)]
      BY <1>6, <3>3 DEF Contents, Wrap
    <3> QED BY <1>3, <2>4, <3>2, <3>4 DEF Contents
  <2>5. ASSUME NEW k \in (Used + 1)..(Used + n) PROVE Contents'[k] = d[k - Used]
    <3>1. Wrap(head + k - 1) \in Cell /\ Distance(tail, Wrap(head + k - 1)) = k - Used - 1
      <4>1. k \in (Used + 1)..(Used + Len(d))
        BY <2>1, <2>5
      <4> QED BY <1>1, <1>2, <1>4, <1>7, <4>1, FreeCells
    <3>2. k - Used - 1 < n /\ (k - Used - 1) + 1 = k - Used
      BY <1>2, <1>3, <2>1, <2>5 DEF Cell
    <3>3. memory'[Wrap(head + k - 1)] = d[k - Used]
      BY <3>1, <3>2 DEF WriteCopy
    <3>4. k \in 1..Used'
      BY <1>2, <1>3, <2>1, <2>3, <2>5 DEF Cell
    <3>5. Contents'[k] = memory'[Wrap(head + k - 1)]
      BY <1>6, <3>4 DEF Contents, Wrap
    <3> QED BY <3>3, <3>5
  <2>6. Contents' = Contents \o d
    <3>1. Contents' \in Seq(Byte) /\ Len(Contents') = Used + n
      <4>1. (Contents \in Seq(Byte) /\ Len(Contents) = Used)'
        BY <1>5, ContentsIsSeq, PTL
      <4> QED BY <2>3, <4>1
    <3>2. /\ Contents \o d \in Seq(Byte)
          /\ Len(Contents \o d) = Used + n
          /\ \A k \in 1..(Used + n) : (Contents \o d)[k] =
                IF k <= Used THEN Contents[k] ELSE d[k - Used]
      <4>1. /\ Contents \o d \in Seq(Byte)
            /\ Len(Contents \o d) = Len(Contents) + Len(d)
            /\ \A k \in 1..(Len(Contents) + Len(d)) : (Contents \o d)[k] =
                  IF k <= Len(Contents) THEN Contents[k] ELSE d[k - Len(Contents)]
        BY <1>2, <1>3, ConcatProperties
      <4> QED BY <1>3, <2>1, <4>1
    <3>3. \A k \in 1..(Used + n) : Contents'[k] = (Contents \o d)[k]
      BY <1>2, <1>3, <2>1, <2>4, <2>5, <3>2 DEF Cell
    <3> QED BY <3>1, <3>2, <3>3, SeqEqual
  <2> QED BY <1>1, <1>3, <1>7, <2>6 DEF Queue!Put, WriteCopy
<1>8. CASE ~ (Used + Len(d) < Size)
  <2>1. n = Size - Used
    BY <1>2, <1>3, <1>4, <1>8 DEF BytesToCopy, Cell
  <2>2. LogicalTail' = head
    BY <1>1, <1>4, <2>1 DEF WriteCopy, LogicalTail, Distance, Wrap, Cell
  <2>3. Used' = 0
    BY <1>1, <1>6, <2>2 DEF Used, Distance, Cell
  <2>4. Contents' = <<>>
    BY <2>3 DEF Contents
  <2> QED BY <1>1, <1>3, <1>8, <2>4 DEF Queue!Put, WriteCopy
<1> QED BY <1>7, <1>8

(* Advancing the first of two pointers by n shortens the way between them  *)
(* by n, as long as it does not overtake the second.                       *)
LEMMA DistanceShrinks ==
    ASSUME NEW h \in Cell, NEW l \in Cell, NEW n \in Nat, n <= Distance(h, l)
    PROVE  /\ Distance(Wrap(h + n), l) = Distance(h, l) - n
           /\ \A k \in 1..(Distance(h, l) - n) :
                 Wrap(Wrap(h + n) + k - 1) = Wrap(h + (n + k) - 1)
BY SizeAssumption DEF Distance, Wrap, Cell

(* The copy of a read takes the oldest bytes off the queue and hands       *)
(* exactly them to the caller.                                             *)
LEMMA ReadCopyGets ==
    ASSUME RingInv, NEW t \in Threads, ReadCopy(t)
    PROVE  want[t] \in 1..MaxLen /\ Queue!Get(t, want[t])
<1> USE SizeAssumption
<1> DEFINE n == BytesCopied(t)
<1>1. head \in Cell /\ tail \in Cell /\ want[t] \in 1..MaxLen
  BY PointersUnderLock DEF ReadCopy, RingInv, Arguments
<1>2. /\ Used \in Cell /\ Contents \in Seq(Byte) /\ Len(Contents) = Used
      /\ LogicalHead = head /\ LogicalTail = tail
  BY <1>1, ContentsIsSeq DEF LogicalHead, LogicalTail, Wrap, Cell
<1>3. AvailToRead = Used /\ Used = Distance(head, tail)
  BY <1>1, <1>2 DEF AvailToRead, AvailToWrite, AvailableBytes, Used, Distance, Cell
<1>4. n \in Nat /\ n <= Used /\ n = Queue!Lesser(want[t], Used)
  BY <1>1, <1>2, <1>3, MaxLenAssumption DEF BytesCopied, Queue!Lesser, Cell
<1>5. RingInv'
  BY ReadKeepsRingInv
<1>6. memory' = memory /\ LogicalTail' = tail
  BY <1>1 DEF ReadCopy, LogicalTail, Wrap, Cell
<1>7. LogicalHead' = Wrap(head + n)
  BY <1>1, <1>2, <1>4 DEF ReadCopy, LogicalHead, Wrap, Cell
<1>8. Used' = Used - n
  <2>1. Used' = Distance(Wrap(head + n), tail)
    BY <1>6, <1>7 DEF Used, Distance
  <2> QED BY <1>1, <1>3, <1>4, <2>1, DistanceShrinks
<1>9. out' = [out EXCEPT ![t] = SubSeq(Contents, 1, n)]
  <2> DEFINE copied == [k \in 1..n |-> memory[Wrap(head + k - 1)]]
  <2>1. /\ SubSeq(Contents, 1, n) \in Seq(Byte)
        /\ Len(SubSeq(Contents, 1, n)) = n
        /\ \A k \in 1..n : SubSeq(Contents, 1, n)[k] = Contents[k]
    <3>1. \A k \in 1..n : Contents[k] \in Byte
      BY <1>2, <1>4, ElementOfSeq DEF Cell
    <3>2. /\ SubSeq(Contents, 1, n) \in Seq(Byte)
          /\ Len(SubSeq(Contents, 1, n)) = IF 1 <= n THEN n - 1 + 1 ELSE 0
          /\ \A k \in 1..(n - 1 + 1) : SubSeq(Contents, 1, n)[k] = Contents[1 + k - 1]
      BY <1>4, <3>1, SubSeqProperties
    <3> QED BY <1>4, <3>2
  <2>2. \A k \in 1..n : Contents[k] = memory[Wrap(head + k - 1)]
    BY <1>2, <1>4 DEF Contents, Cell
  <2>3. SubSeq(Contents, 1, n) = copied
    <3>1. DOMAIN SubSeq(Contents, 1, n) = 1..n
      BY <2>1, LenProperties
    <3>2. SubSeq(Contents, 1, n) = [k \in 1..n |-> SubSeq(Contents, 1, n)[k]]
      BY <2>1, <3>1, LenProperties
    <3> QED BY <2>1, <2>2, <3>2
  <2> QED BY <2>3 DEF ReadCopy
<1>10. Contents' = SubSeq(Contents, n + 1, Used)
  <2>1. (Contents \in Seq(Byte) /\ Len(Contents) = Used)'
    BY <1>5, ContentsIsSeq, PTL
  <2>2. Contents' \in Seq(Byte) /\ Len(Contents') = Used - n
    BY <1>8, <2>1
  <2>3. /\ SubSeq(Contents, n + 1, Used) \in Seq(Byte)
        /\ Len(SubSeq(Contents, n + 1, Used)) = Used - n
        /\ \A k \in 1..(Used - n) : SubSeq(Contents, n + 1, Used)[k] = Contents[n + k]
    <3>1. \A k \in (n + 1)..Used : Contents[k] \in Byte
      BY <1>2, <1>4, ElementOfSeq DEF Cell
    <3>2. n + 1 \in Int /\ Used \in Int
      BY <1>2, <1>4 DEF Cell
    <3>3. /\ SubSeq(Contents, n + 1, Used) \in Seq(Byte)
          /\ Len(SubSeq(Contents, n + 1, Used))
               = IF n + 1 <= Used THEN Used - (n + 1) + 1 ELSE 0
          /\ \A k \in 1..(Used - (n + 1) + 1) :
                SubSeq(Contents, n + 1, Used)[k] = Contents[(n + 1) + k - 1]
      BY <3>1, <3>2, SubSeqProperties
    <3>4. \A k \in 1..(Used - n) : (n + 1) + k - 1 = n + k
      BY <1>2, <1>4 DEF Cell
    <3>5. Used - (n + 1) + 1 = Used - n /\ (~ (n + 1 <= Used) => Used - n = 0)
      BY <1>2, <1>4 DEF Cell
    <3> QED BY <3>3, <3>4, <3>5
  <2>4. ASSUME NEW k \in 1..(Used - n)
        PROVE  Contents'[k] = Contents[n + k]
    <3>1. Contents'[k] = memory[Wrap(Wrap(head + n) + k - 1)]
      BY <1>6, <1>7, <1>8 DEF Contents, Wrap
    <3>2. Wrap(Wrap(head + n) + k - 1) = Wrap(head + (n + k) - 1)
      BY <1>1, <1>3, <1>4, DistanceShrinks
    <3>3. n + k \in 1..Used
      BY <1>2, <1>4 DEF Cell
    <3>4. Contents[n + k] = memory[Wrap(head + (n + k) - 1)]
      BY <1>2, <3>3 DEF Contents
    <3> QED BY <3>1, <3>2, <3>4
  <2>5. \A k \in 1..Len(Contents') : Contents'[k] = SubSeq(Contents, n + 1, Used)[k]
    BY <2>2, <2>3, <2>4
  <2> QED BY <2>2, <2>3, <2>5, SeqEqual
<1> QED BY <1>1, <1>2, <1>4, <1>9, <1>10 DEF Queue!Get

(* A step that moves no byte and no pointer, except from End to Base,      *)
(* leaves the abstract queue alone.                                        *)
LEMMA SamePointersSameContents ==
    ASSUME LogicalHead' = LogicalHead, LogicalTail' = LogicalTail, memory' = memory
    PROVE  Contents' = Contents
<1>1. Used' = Used
  BY DEF Used, Distance
<1> QED BY <1>1 DEF Contents, Wrap

(* Every step of the ring is a step of the queue, or none.                 *)
LEMMA StepImplements ==
    ASSUME RingInv, [Next]_vars
    PROVE  [Queue!Next]_(Queue!vars)
<1> USE SizeAssumption DEF Queue!vars
<1>1. CASE UNCHANGED vars
  BY <1>1 DEF vars, Contents, Used, Distance, Wrap, LogicalHead, LogicalTail
<1>2. ASSUME NEW t \in Threads, Advance(t) PROVE [Queue!Next]_(Queue!vars)
  <2>1. CASE WriteCopy(t)
    <3>1. \E d \in Queue!Transfer : Queue!Put(d)
      BY <2>1, WriteCopyPuts DEF Transfer, Queue!Transfer
    <3> QED BY <3>1 DEF Queue!Next
  <2>2. CASE ReadCopy(t)
    <3>1. \E n \in 1..MaxLen : Queue!Get(t, n)
      BY <2>2, ReadCopyGets
    <3> QED BY <3>1 DEF Queue!Next
  <2>3. CASE WriteAcquire(t) \/ ReadAcquire(t) \/ WriteRelease(t) \/ ReadRelease(t)
    <3>1. head' = head /\ tail' = tail /\ memory' = memory /\ out' = out
      BY <2>3 DEF WriteAcquire, ReadAcquire, WriteRelease, ReadRelease, Acquire, Release
    <3>2. LogicalHead' = LogicalHead /\ LogicalTail' = LogicalTail
      BY <3>1 DEF LogicalHead, LogicalTail, Wrap
    <3> QED BY <3>1, <3>2, SamePointersSameContents
  <2>4. CASE WriteWrap(t)
    <3>1. tail = Size /\ tail' = 0 /\ head' = head /\ memory' = memory /\ out' = out
      BY <2>4 DEF WriteWrap, RingInv, LockDiscipline
    <3>2. LogicalHead' = LogicalHead /\ LogicalTail' = LogicalTail
      BY <3>1 DEF LogicalHead, LogicalTail, Wrap
    <3> QED BY <3>1, <3>2, SamePointersSameContents
  <2>5. CASE ReadWrap(t)
    <3>1. head = Size /\ head' = 0 /\ tail' = tail /\ memory' = memory /\ out' = out
      BY <2>5 DEF ReadWrap, RingInv, LockDiscipline
    <3>2. LogicalHead' = LogicalHead /\ LogicalTail' = LogicalTail
      BY <3>1 DEF LogicalHead, LogicalTail, Wrap
    <3> QED BY <3>1, <3>2, SamePointersSameContents
  <2> QED BY <1>2, <2>1, <2>2, <2>3, <2>4, <2>5 DEF Advance
<1>3. ASSUME NEW t \in Writers, NEW d \in Transfer, Write(t, d)
      PROVE  [Queue!Next]_(Queue!vars)
  <2>1. head' = head /\ tail' = tail /\ memory' = memory /\ out' = out
    BY <1>3 DEF Write, WriteRefused, WriteBegin
  <2>2. LogicalHead' = LogicalHead /\ LogicalTail' = LogicalTail
    BY <2>1 DEF LogicalHead, LogicalTail, Wrap
  <2> QED BY <2>1, <2>2, SamePointersSameContents
<1>4. ASSUME NEW t \in Readers, NEW n \in 1..MaxLen, Read(t, n)
      PROVE  [Queue!Next]_(Queue!vars)
  <2>1. /\ head' = head /\ tail' = tail /\ memory' = memory
        /\ out' = [out EXCEPT ![t] = <<>>]
    BY <1>4 DEF Read, ReadRefused, ReadBegin
  <2>2. LogicalHead' = LogicalHead /\ LogicalTail' = LogicalTail
    BY <2>1 DEF LogicalHead, LogicalTail, Wrap
  <2>3. Contents' = Contents
    BY <2>1, <2>2, SamePointersSameContents
  <2>4. Queue!Ask(t) /\ t \in Threads
    BY <2>1, <2>3 DEF Queue!Ask, Threads
  <2> QED BY <2>4 DEF Queue!Next
<1> QED BY <1>1, <1>2, <1>3, <1>4 DEF Next

(* The ring of ringbuf.c, with its unlocked tests, its spin lock and its   *)
(* transient End pointers, implements the byte queue: concurrent calls     *)
(* take effect one at a time, in lock order, bytes come out in the order   *)
(* they went in and once each, and the only way to lose one is a write     *)
(* that fills the ring.                                                    *)
THEOREM RingImplementsByteQueue == Spec => ImplementsByteQueue
<1>1. Init => Queue!Init
  <2> SUFFICES ASSUME Init PROVE Queue!Init
    OBVIOUS
  <2>1. Used = 0
    BY SizeAssumption DEF Init, Used, Distance, LogicalHead, LogicalTail, Wrap
  <2>2. Contents = <<>>
    BY <2>1 DEF Contents
  <2> QED BY <2>2 DEF Init, Queue!Init
<1>2. RingInv /\ [Next]_vars => [Queue!Next]_(Queue!vars)
  BY StepImplements
<1> QED
  BY <1>1, <1>2, InitRingInv, NextKeepsRingInv, PTL DEF Spec, ImplementsByteQueue, Queue!Spec

-----------------------------------------------------------------------------
(***************************************************************************)
(* The mailbox around the ring.                                            *)
(***************************************************************************)

(* Exit handlers write and only the worker reads; it is in the ring only   *)
(* while it retrieves, and they only while the VCPUs run.                  *)
Roles ==
    /\ \A c \in Writers : pc[c] \in {"idle", "w_acquire"} \cup WriteLocked
    /\ pc[Worker] \in {"idle", "r_acquire"} \cup ReadLocked
    /\ wpc # "reading" => pc[Worker] = "idle"
    /\ ~ hvm => \A c \in Writers : pc[c] = "idle"
    /\ hvm => phase = "up"
    /\ phase = "absent" => wpc = "none"
    /\ phase = "destroyed" => wpc \in {"none", "done"}

-----------------------------------------------------------------------------
(* What is posted is a transfer the ring accepts.                          *)
LEMMA BytesIsTransfer ==
    ASSUME NEW i \in Record
    PROVE  Bytes(i) \in Transfer
<1>1. \A k \in 1..Rec : Bytes(i)[k] \in Byte
  BY BytesAssumption DEF RecordBytes
<1>2. Bytes(i) = [k \in 1..Rec |-> Bytes(i)[k]]
  BY DEF Bytes
<1>3. Bytes(i) \in [1..Rec -> Byte]
  BY <1>1, <1>2
<1>4. Rec \in 1..MaxLen
  BY RecAssumption, MaxLenAssumption
<1> QED BY <1>3, <1>4 DEF Transfer

(* Every step of the mailbox is a step of the ring, or leaves it alone.    *)
LEMMA MailboxStepIsRingStep ==
    ASSUME posts \in Nat, MaxPosts \in Nat, [MNext]_mvars
    PROVE  [Next]_vars /\ posts' \in Nat
<1>1. CASE UNCHANGED mvars
  BY <1>1 DEF mvars
<1>2. CASE Initialize \/ InitializeFails \/ StartHvm \/ StopHvm \/ StopWorker \/ Destroy
  BY <1>2 DEF Initialize, InitializeFails, StartHvm, StopHvm, StopWorker, Destroy
<1>3. ASSUME NEW c \in Writers, Post(c)
      PROVE  [Next]_vars /\ posts' \in Nat
  <2>1. posts' \in Record
    BY <1>3 DEF Post, Record
  <2>2. Bytes(posts') \in Transfer
    BY <2>1, BytesIsTransfer
  <2>3. \E d \in Transfer : Write(c, d)
    BY <1>3, <2>2 DEF Post
  <2> QED BY <2>1, <2>3 DEF Next, Record
<1>4. ASSUME NEW c \in Writers, PostStep(c) PROVE [Next]_vars /\ posts' \in Nat
  <2>1. c \in Threads /\ Advance(c)
    BY <1>4 DEF PostStep, Advance, Threads
  <2> QED BY <1>4, <2>1 DEF Next, PostStep
<1>5. CASE WorkerStep
  <2>1. Worker \in Readers /\ Worker \in Threads
    BY WorkerAssumption DEF Threads
  <2>2. CASE WaitShutdown \/ WaitTimeout \/ Poll \/ DispatchHere \/ DispatchAbuse \/ DispatchEmpty
    BY <2>2 DEF WaitShutdown, WaitTimeout, Poll, DispatchHere, DispatchAbuse, DispatchEmpty
  <2>3. CASE Retrieve
    <3>1. Rec \in 1..MaxLen
      BY RecAssumption, MaxLenAssumption
    <3>2. \E n \in 1..MaxLen : Read(Worker, n)
      BY <2>3, <3>1 DEF Retrieve, Read
    <3> QED BY <2>1, <2>3, <3>2 DEF Next, Retrieve
  <2>4. CASE RetrieveStep \/ RetrieveReturns
    <3>1. Advance(Worker)
      BY <2>4 DEF RetrieveStep, RetrieveReturns, Advance
    <3> QED BY <2>1, <2>4, <3>1 DEF Next, RetrieveStep, RetrieveReturns
  <2> QED BY <1>5, <2>2, <2>3, <2>4 DEF WorkerStep
<1>6. CASE SendReturns \/ Terminated
  BY <1>6 DEF SendReturns, Terminated, mvars
<1> QED BY <1>1, <1>2, <1>3, <1>4, <1>5, <1>6 DEF MNext

(* Posting, polling and draining the mailbox uses the ring as ringbuf.c    *)
(* means it to be used: a behaviour of the mailbox is one of the ring.     *)
THEOREM MailboxUsesRing == MSpec => Spec
<1>1. MInit => Init /\ posts \in Nat
  BY DEF MInit
<1>2. posts \in Nat /\ [MNext]_mvars => [Next]_vars /\ (posts \in Nat)'
  BY MailboxStepIsRingStep, MaxPostsAssumption
<1> QED BY <1>1, <1>2, PTL DEF MSpec, Spec

-----------------------------------------------------------------------------
(* Roles is inductive, given the ring's invariant.                         *)
LEMMA InitRoles == MInit => Roles
BY WorkerAssumption DEF MInit, Init, Roles, Threads

LEMMA StepRoles ==
    ASSUME RingInv, Roles, [MNext]_mvars
    PROVE  Roles'
<1> USE WorkerAssumption DEF Roles, WriteLocked, ReadLocked
<1>0. pc \in [Threads -> PcValues] /\ Writers \subseteq Threads /\ Worker \in Threads
  BY DEF RingInv, TypeOK, Threads
<1>1. CASE UNCHANGED mvars
  BY <1>1 DEF mvars, vars, life
<1>2. CASE Initialize \/ InitializeFails \/ StartHvm \/ StopHvm \/ StopWorker \/ Destroy
  BY <1>2 DEF vars, Initialize, InitializeFails, StartHvm, StopHvm, StopWorker, Destroy
<1>3. ASSUME NEW c \in Writers, Post(c) PROVE Roles'
  <2>1. hvm /\ UNCHANGED <<phase, hvm, wpc>>
    BY <1>3 DEF Post, life
  <2>2. pc' = pc \/ pc' = [pc EXCEPT ![c] = "w_acquire"]
    BY <1>3 DEF Post, Write, WriteRefused, WriteBegin, Goto
  <2> QED BY <1>0, <2>1, <2>2
<1>4. ASSUME NEW c \in Writers, PostStep(c) PROVE Roles'
  <2>1. UNCHANGED <<phase, hvm, wpc>>
    BY <1>4 DEF PostStep, life
  <2>2. /\ pc[c] # "idle"
        /\ \E step \in {"idle"} \cup WriteLocked : pc' = [pc EXCEPT ![c] = step]
    BY <1>4 DEF PostStep, WriteAcquire, WriteCopy, WriteWrap, WriteRelease, Acquire, Release, Goto
  <2> QED BY <1>0, <2>1, <2>2
<1>5. CASE WorkerStep
  <2>1. UNCHANGED <<phase, hvm>>
    BY <1>5
    DEF WorkerStep, WaitShutdown, WaitTimeout, Poll, Retrieve, RetrieveStep,
        RetrieveReturns, DispatchHere, DispatchAbuse, DispatchEmpty, life
  <2>2. CASE WaitShutdown \/ WaitTimeout \/ Poll \/ DispatchHere \/ DispatchAbuse \/ DispatchEmpty
    <3>1. pc' = pc /\ wpc \in {"wait", "poll", "dispatch"}
      BY <2>2
      DEF WaitShutdown, WaitTimeout, Poll, DispatchHere, DispatchAbuse, DispatchEmpty, vars
    <3>2. wpc' \in {"done", "poll", "wait", "retrieve", "sending"}
      BY <2>2
      DEF WaitShutdown, WaitTimeout, Poll, DispatchHere, DispatchAbuse, DispatchEmpty, WorkerGoto
    <3> QED BY <2>1, <3>1, <3>2
  <2>3. CASE Retrieve
    <3>1. pc' = [pc EXCEPT ![Worker] = "r_acquire"] /\ wpc = "retrieve" /\ wpc' = "reading"
      BY <2>3 DEF Retrieve, ReadBegin, Goto, WorkerGoto
    <3> QED BY <1>0, <2>1, <3>1
  <2>4. CASE RetrieveStep
    <3>1. /\ wpc = "reading" /\ wpc' = "reading"
          /\ \E step \in ReadLocked : pc' = [pc EXCEPT ![Worker] = step]
      BY <2>4 DEF RetrieveStep, WorkerGoto, ReadAcquire, ReadCopy, ReadWrap, Acquire, Goto
    <3> QED BY <1>0, <2>1, <3>1
  <2>5. CASE RetrieveReturns
    <3>1. /\ wpc = "reading" /\ wpc' = "dispatch"
          /\ pc' = [pc EXCEPT ![Worker] = "idle"]
      BY <2>5 DEF RetrieveReturns, WorkerGoto, ReadRelease, Release, Goto
    <3> QED BY <1>0, <2>1, <3>1
  <2> QED BY <1>5, <2>2, <2>3, <2>4, <2>5 DEF WorkerStep
<1>6. CASE SendReturns \/ Terminated
  BY <1>6 DEF SendReturns, Terminated, mvars, vars, life, WorkerGoto
<1> QED BY <1>1, <1>2, <1>3, <1>4, <1>5, <1>6 DEF MNext

(* Who is where, as an invariant of the mailbox.                           *)
LEMMA MailboxInv == MSpec => [](RingInv /\ Roles)
<1>1. MInit => Init
  BY DEF MInit
<1>2. RingInv /\ Roles /\ [MNext]_mvars => Roles'
  BY StepRoles
<1>3. Spec => []RingInv
  BY InitRingInv, NextKeepsRingInv, PTL DEF Spec
<1> QED BY <1>1, <1>2, <1>3, InitRoles, MailboxUsesRing, PTL DEF MSpec

(* RtlMailboxDestroy frees the pool block only when neither the worker nor *)
(* an exit handler is in the ring: no record is read from or written to    *)
(* freed memory.                                                           *)
THEOREM NoUseAfterFree == MSpec => []FreedWhenUnused
<1>1. Roles => FreedWhenUnused
  BY WorkerAssumption DEF Roles, FreedWhenUnused, Threads
<1> QED BY <1>1, MailboxInv, PTL

(* The NT_VERIFYMSG of RtlDispatchMailboxData holds: the unlocked test of  *)
(* RtlRingBufferRead never turns the worker away.                          *)
THEOREM RetrieveNeverFails == MSpec => []RetrieveSucceeds
<1>1. RingInv /\ Roles => RetrieveSucceeds
  <2> SUFFICES ASSUME RingInv, Roles, wpc = "retrieve" PROVE head < Size
    BY DEF RetrieveSucceeds
  <2>1. \A t \in Threads : pc[t] # "r_wrap"
    BY WorkerAssumption DEF Roles, Threads, WriteLocked
  <2> QED BY <2>1, SizeAssumption DEF RingInv, TypeOK, LockDiscipline
<1> QED BY <1>1, MailboxInv, PTL

-----------------------------------------------------------------------------
(* Arithmetic of records of Rec bytes: multiplication is monotone, and     *)
(* division by Rec finds the record a byte belongs to.                     *)
LEMMA ProductGrows ==
    ASSUME NEW a \in Nat, NEW b \in Nat, NEW c \in Nat, a <= b
    PROVE  a * c \in Nat /\ b * c \in Nat /\ a * c <= b * c
OBVIOUS

LEMMA ProductSteps ==
    ASSUME NEW a \in Int, NEW c \in Int
    PROVE  (a + 1) * c = a * c + c /\ (a - 1) * c = a * c - c
OBVIOUS

LEMMA QuotientAndRest ==
    ASSUME NEW i \in Nat, NEW c \in Nat \ {0}
    PROVE  /\ i \div c \in Nat /\ i % c \in 0..(c - 1)
           /\ i = (i \div c) * c + (i % c)
OBVIOUS

LEMMA QuotientIsUnique ==
    ASSUME NEW m \in Nat, NEW c \in Nat \ {0}, NEW i \in Int, m * c <= i, i < m * c + c
    PROVE  i \div c = m
<1>1. i \in Nat /\ m * c \in Nat
  BY ProductGrows
<1> DEFINE d == i \div c
<1>2. d \in Nat /\ i % c \in 0..(c - 1) /\ i = d * c + (i % c)
  BY <1>1, QuotientAndRest
<1> HIDE DEF d
<1>3. d * c <= i /\ i < d * c + c /\ d * c \in Nat
  BY <1>2, ProductGrows
<1>4. ~ (d + 1 <= m)
  <2> SUFFICES ASSUME d + 1 <= m PROVE FALSE
    OBVIOUS
  <2>1. (d + 1) * c <= m * c
    BY ProductGrows, <1>2
  <2> QED BY <2>1, <1>1, <1>2, <1>3, ProductSteps
<1>5. ~ (m + 1 <= d)
  <2> SUFFICES ASSUME m + 1 <= d PROVE FALSE
    OBVIOUS
  <2>1. (m + 1) * c <= d * c
    BY ProductGrows, <1>2
  <2> QED BY <2>1, <1>1, <1>2, <1>3, ProductSteps
<1>6. d = m
  BY <1>2, <1>4, <1>5
<1> QED BY <1>6 DEF d

(* Byte k of record j of n lies within them ...                            *)
LEMMA ByteOfRecord ==
    ASSUME NEW n \in Nat, NEW j \in 1..n, NEW k \in 1..Rec
    PROVE  (j - 1) * Rec + k \in 1..(n * Rec) /\ (j - 1) * Rec \in Nat
<1>1. (j - 1) * Rec \in Nat /\ j * Rec <= n * Rec /\ n * Rec \in Nat
  BY ProductGrows, RecAssumption
<1>2. (j - 1) * Rec = j * Rec - Rec
  BY ProductSteps, RecAssumption
<1> QED BY <1>1, <1>2, RecAssumption

(* ... and every byte of n records is one of those.                        *)
LEMMA RecordOfByte ==
    ASSUME NEW n \in Nat, NEW i \in 1..(n * Rec)
    PROVE  LET j == ((i - 1) \div Rec) + 1
               k == ((i - 1) % Rec) + 1
           IN  j \in 1..n /\ k \in 1..Rec /\ i = (j - 1) * Rec + k
<1> DEFINE d == (i - 1) \div Rec
           m == (i - 1) % Rec
<1>1. n * Rec \in Nat /\ i - 1 \in Nat
  BY ProductGrows, RecAssumption
<1>2. d \in Nat /\ m \in 0..(Rec - 1) /\ i - 1 = d * Rec + m
  BY <1>1, QuotientAndRest, RecAssumption
<1> HIDE DEF d, m
<1>3. ~ (n <= d)
  <2> SUFFICES ASSUME n <= d PROVE FALSE
    OBVIOUS
  <2>1. n * Rec <= d * Rec /\ d * Rec \in Nat
    BY ProductGrows, <1>2, RecAssumption
  <2> QED BY <1>1, <1>2, <2>1
<1>4. d + 1 \in 1..n /\ m + 1 \in 1..Rec /\ (d + 1) - 1 = d
  BY <1>2, <1>3, RecAssumption
<1>5. i = d * Rec + (m + 1)
  <2>1. d * Rec \in Nat
    BY ProductGrows, <1>2, RecAssumption
  <2> QED BY <1>1, <1>2, <2>1
<1> QED BY <1>4, <1>5 DEF d, m

-----------------------------------------------------------------------------
(* q is the bytes of the records rs, one after the other.                  *)
Packed(q, rs) ==
    /\ Len(q) = Len(rs) * Rec
    /\ \A j \in 1..Len(rs), k \in 1..Rec : q[(j - 1) * Rec + k] = <<rs[j], k>>

(* A write that fits adds a record at the end ...                          *)
LEMMA PutPacks ==
    ASSUME NEW q \in Seq(Byte), NEW rs \in Seq(Record), NEW r \in Record, Packed(q, rs)
    PROVE  Packed(q \o Bytes(r), Append(rs, r))
<1> USE RecAssumption
<1> DEFINE n == Len(rs)
           new == Append(rs, r)
           all == q \o Bytes(r)
<1>1. Bytes(r) \in Seq(Byte) /\ Len(Bytes(r)) = Rec
  <2>1. Bytes(r) \in Seq(Byte)
    BY BytesIsTransfer, TransferIsSeq
  <2> QED BY <2>1 DEF Bytes
<1>2. /\ n \in Nat /\ new \in Seq(Record) /\ Len(new) = n + 1
      /\ \A j \in 1..n : new[j] = rs[j]
      /\ new[n + 1] = r
  OBVIOUS
<1>3. Len(q) = n * Rec /\ n * Rec \in Nat /\ (n + 1) * Rec = n * Rec + Rec
  BY <1>2, ProductGrows, ProductSteps DEF Packed
<1>4. /\ Len(all) = n * Rec + Rec
      /\ \A i \in 1..(n * Rec) : all[i] = q[i]
      /\ \A k \in 1..Rec : all[n * Rec + k] = Bytes(r)[k]
  BY <1>1, <1>3
<1> HIDE DEF new, all
<1>5. ASSUME NEW j \in 1..(n + 1), NEW k \in 1..Rec
      PROVE  all[(j - 1) * Rec + k] = <<new[j], k>>
  <2>1. CASE j \in 1..n
    <3>1. (j - 1) * Rec + k \in 1..(n * Rec)
      BY <1>2, <2>1, ByteOfRecord
    <3> QED BY <1>2, <1>4, <2>1, <3>1 DEF Packed
  <2>2. CASE j = n + 1
    <3>1. j - 1 = n
      BY <1>2, <2>2
    <3> QED BY <1>2, <1>4, <2>2, <3>1 DEF Bytes
  <2> QED BY <1>2, <2>1, <2>2
<1>6. Packed(all, new)
  BY <1>2, <1>3, <1>4, <1>5 DEF Packed
<1> QED BY <1>6 DEF all, new

(* ... and a read takes the first one off.                                 *)
LEMMA GetUnpacks ==
    ASSUME NEW q \in Seq(Byte), NEW rs \in Seq(Record), rs # <<>>, Packed(q, rs)
    PROVE  /\ Rec <= Len(q)
           /\ SubSeq(q, 1, Rec) = Bytes(Head(rs)) /\ Head(rs) \in Record
           /\ Packed(SubSeq(q, Rec + 1, Len(q)), Tail(rs)) /\ Tail(rs) \in Seq(Record)
<1> USE RecAssumption
<1> DEFINE n == Len(rs)
           rest == Tail(rs)
           left == SubSeq(q, Rec + 1, Len(q))
<1>1. /\ n \in Nat \ {0} /\ rest \in Seq(Record) /\ Len(rest) = n - 1
      /\ \A j \in 1..(n - 1) : rest[j] = rs[j + 1]
      /\ Head(rs) = rs[1] /\ rs[1] \in Record
  OBVIOUS
<1>2. Len(q) = n * Rec /\ n * Rec \in Nat /\ (n - 1) * Rec = n * Rec - Rec /\ (n - 1) * Rec \in Nat
  BY <1>1, ProductGrows, ProductSteps DEF Packed
<1>3. Rec <= Len(q)
  BY <1>2
<1>4. SubSeq(q, 1, Rec) = Bytes(rs[1])
  <2>1. \A k \in 1..Rec : q[k] = <<rs[1], k>>
    <3> SUFFICES ASSUME NEW k \in 1..Rec PROVE q[k] = <<rs[1], k>>
      OBVIOUS
    <3>1. 1 \in 1..n /\ (1 - 1) * Rec + k = k
      BY <1>1
    <3> QED BY <3>1 DEF Packed
  <2>2. SubSeq(q, 1, Rec) = [k \in 1..Rec |-> q[k]]
    BY <1>3
  <2> QED BY <2>1, <2>2 DEF Bytes
<1>5. /\ Len(left) = (n - 1) * Rec
      /\ \A i \in 1..((n - 1) * Rec) : left[i] = q[i + Rec]
  BY <1>2, <1>3
<1> HIDE DEF rest, left
<1>6. ASSUME NEW j \in 1..(n - 1), NEW k \in 1..Rec
      PROVE  left[(j - 1) * Rec + k] = <<rest[j], k>>
  <2>1. (j - 1) * Rec + k \in 1..((n - 1) * Rec) /\ (j - 1) * Rec \in Nat
    <3>1. n - 1 \in Nat
      BY <1>1
    <3> QED BY <3>1, ByteOfRecord
  <2>2. (j - 1) * Rec + k + Rec = ((j + 1) - 1) * Rec + k
    <3>1. (j - 1) * Rec = j * Rec - Rec
      BY ProductSteps
    <3>2. (j + 1) - 1 = j /\ j * Rec \in Nat
      BY ProductGrows
    <3> QED BY <3>1, <3>2
  <2>3. q[((j + 1) - 1) * Rec + k] = <<rs[j + 1], k>>
    <3>1. j + 1 \in 1..n
      BY <1>1
    <3> QED BY <3>1 DEF Packed
  <2> QED BY <1>1, <1>5, <2>1, <2>2, <2>3
<1>7. Packed(left, rest)
  BY <1>1, <1>5, <1>6 DEF Packed
<1> QED BY <1>1, <1>3, <1>4, <1>7 DEF left, rest

(* The mailbox has room for one more record exactly when fewer than        *)
(* (Size - 1) \div Rec of them wait.                                       *)
LEMMA FitsIffRoom ==
    ASSUME NEW n \in Nat
    PROVE  n * Rec + Rec < Size <=> n < (Size - 1) \div Rec
<1> USE RecAssumption, SizeAssumption
<1> DEFINE d == (Size - 1) \div Rec
           m == (Size - 1) % Rec
<1>1. d \in Nat /\ m \in 0..(Rec - 1) /\ Size - 1 = d * Rec + m
  <2>1. Size - 1 \in Nat
    OBVIOUS
  <2> QED BY <2>1, QuotientAndRest
<1> HIDE DEF d, m
<1>2. /\ n * Rec \in Nat /\ d * Rec \in Nat
      /\ (n + 1) * Rec = n * Rec + Rec /\ (d + 1) * Rec = d * Rec + Rec
  BY <1>1, ProductGrows, ProductSteps
<1>3. ASSUME n < d PROVE n * Rec + Rec < Size
  <2>1. (n + 1) * Rec <= d * Rec
    BY <1>1, <1>3, ProductGrows
  <2> QED BY <1>1, <1>2, <2>1
<1>4. ASSUME ~ (n < d) PROVE ~ (n * Rec + Rec < Size)
  <2>1. (d + 1) * Rec <= (n + 1) * Rec
    BY <1>1, <1>4, ProductGrows
  <2> QED BY <1>1, <1>2, <2>1
<1> QED BY <1>3, <1>4 DEF d

(* What PendingRecords reads off the ring is the records that are in it.   *)
LEMMA PendingIsPacked ==
    ASSUME NEW q \in Seq(Byte), NEW rs \in Seq(Record), Packed(q, rs)
    PROVE  /\ Len(q) \div Rec = Len(rs)
           /\ [k \in 1..(Len(q) \div Rec) |-> q[(k - 1) * Rec + 1][1]] = rs
<1> USE RecAssumption
<1> DEFINE n == Len(rs)
<1>1. n \in Nat /\ Len(q) = n * Rec /\ n * Rec \in Nat
  BY ProductGrows DEF Packed
<1>2. Len(q) \div Rec = n
  BY <1>1, QuotientIsUnique
<1>3. ASSUME NEW k \in 1..n PROVE q[(k - 1) * Rec + 1][1] = rs[k]
  <2>1. q[(k - 1) * Rec + 1] = <<rs[k], 1>>
    BY DEF Packed
  <2> QED BY <2>1
<1>4. rs = [k \in 1..n |-> rs[k]]
  OBVIOUS
<1> QED BY <1>2, <1>3, <1>4

(* Packed is the first half of WholeRecords.                               *)
LEMMA PackedIsWhole ==
    ASSUME NEW q \in Seq(Byte), NEW rs \in Seq(Record), Packed(q, rs)
    PROVE  \E w \in [1..(Len(q) \div Rec) -> Record] :
              /\ Len(q) = Len(w) * Rec
              /\ \A k \in 1..Len(q) :
                    q[k] = Bytes(w[((k - 1) \div Rec) + 1])[((k - 1) % Rec) + 1]
<1>1. Len(rs) \in Nat /\ Len(q) \div Rec = Len(rs) /\ Len(q) = Len(rs) * Rec
  BY PendingIsPacked DEF Packed
<1>2. rs \in [1..Len(rs) -> Record]
  OBVIOUS
<1>3. ASSUME NEW i \in 1..Len(q)
      PROVE  q[i] = Bytes(rs[((i - 1) \div Rec) + 1])[((i - 1) % Rec) + 1]
  <2> DEFINE j == ((i - 1) \div Rec) + 1
             k == ((i - 1) % Rec) + 1
  <2>1. j \in 1..Len(rs) /\ k \in 1..Rec /\ i = (j - 1) * Rec + k
    BY <1>1, RecordOfByte
  <2> HIDE DEF j, k
  <2>2. q[i] = <<rs[j], k>>
    BY <2>1 DEF Packed
  <2>3. q[i] = Bytes(rs[j])[k]
    BY <2>1, <2>2 DEF Bytes
  <2> QED BY <2>3 DEF j, k
<1> QED BY <1>1, <1>2, <1>3

(* ContentsIsSeq after a step.                                             *)
LEMMA NextContentsIsSeq ==
    RingInv' => Contents' \in Seq(Byte) /\ Len(Contents') = Used'
<1>1. RingInv => Contents \in Seq(Byte) /\ Len(Contents) = Used
  BY ContentsIsSeq
<1>2. (RingInv => Contents \in Seq(Byte) /\ Len(Contents) = Used)'
  BY <1>1, PTL
<1> QED BY <1>2

-----------------------------------------------------------------------------
(* What the callers hold: exit handlers are writing whole records, the     *)
(* worker asks for one record and has one or nothing in hand, and it sends *)
(* only what it has.                                                       *)
IsRecord(bytes) == \E r \in Record : bytes = Bytes(r)

Holding ==
    /\ \A c \in Writers : pc[c] \in {"w_acquire", "w_copy"} => IsRecord(data[c])
    /\ pc[Worker] \in {"r_acquire", "r_copy"} => want[Worker] = Rec
    /\ (wpc \in {"dispatch", "sending"} \/ pc[Worker] \in {"r_wrap", "r_release"})
          => (Entry = <<>> \/ IsRecord(Entry))
    /\ wpc = "sending" => Entry # <<>>

(* The ring holds whole records.                                           *)
Queued == \E rs \in Seq(Record) : Packed(Contents, rs)

MailInv == RingInv /\ Roles /\ MTypeOK /\ Holding /\ Queued

(* A record in hand is told from nothing, and names itself.                *)
LEMMA RecordNamesItself ==
    ASSUME NEW r \in Record
    PROVE  Bytes(r) # <<>> /\ Bytes(r)[1][1] = r
<1>1. 1 \in 1..Rec
  BY RecAssumption
<1>2. Bytes(r)[1] = <<r, 1>> /\ DOMAIN Bytes(r) # {}
  BY <1>1 DEF Bytes
<1>3. DOMAIN <<>> = {}
  OBVIOUS
<1> QED BY <1>2, <1>3

LEMMA InitMailInv == MInit => MailInv
<1> SUFFICES ASSUME MInit PROVE MailInv
  OBVIOUS
<1>1. RingInv /\ Roles
  BY InitRingInv, InitRoles DEF MInit
<1>2. MTypeOK
  <2>1. posts \in 0..MaxPosts /\ delivered \in Seq(Record)
    BY MaxPostsAssumption, EmptySeq DEF MInit
  <2> QED BY <1>1, <2>1 DEF MInit, MTypeOK, RingInv
<1>3. Holding
  BY WorkerAssumption DEF MInit, Init, Holding, Threads
<1>4. Queued
  <2>1. Used = 0
    BY SizeAssumption DEF MInit, Init, Used, Distance, LogicalHead, LogicalTail, Wrap
  <2>2. Len(Contents) = 0
    BY <1>1, <2>1, ContentsIsSeq
  <2>3. Packed(Contents, <<>>) /\ <<>> \in Seq(Record)
    BY <2>2, RecAssumption, EmptySeq DEF Packed
  <2> QED BY <2>3 DEF Queued
<1> QED BY <1>1, <1>2, <1>3, <1>4 DEF MailInv

(* What Contents, the types and the refinement need to know of a step that *)
(* copies nothing.                                                         *)
LEMMA QuietStep ==
    ASSUME RingInv, NEW t \in Threads,
           \/ WriteAcquire(t) \/ WriteWrap(t) \/ WriteRelease(t)
           \/ ReadAcquire(t) \/ ReadWrap(t) \/ ReadRelease(t)
           \/ ReadBegin(t, Rec)
           \/ \E d \in Transfer : Write(t, d)
    PROVE  Contents' = Contents /\ Used' = Used
<1> USE SizeAssumption
<1>1. memory' = memory /\ LogicalHead' = LogicalHead /\ LogicalTail' = LogicalTail
  <2>1. CASE WriteAcquire(t) \/ WriteRelease(t) \/ ReadAcquire(t) \/ ReadRelease(t)
             \/ ReadBegin(t, Rec) \/ \E d \in Transfer : Write(t, d)
    <3>1. head' = head /\ tail' = tail /\ memory' = memory
      BY <2>1 DEF WriteAcquire, ReadAcquire, WriteRelease, ReadRelease, Acquire, Release,
                  ReadBegin, Write, WriteRefused, WriteBegin
    <3> QED BY <3>1 DEF LogicalHead, LogicalTail, Wrap
  <2>2. CASE WriteWrap(t)
    <3>1. tail = Size /\ tail' = 0 /\ head' = head /\ memory' = memory
      BY <2>2 DEF WriteWrap, RingInv, LockDiscipline
    <3> QED BY <3>1 DEF LogicalHead, LogicalTail, Wrap
  <2>3. CASE ReadWrap(t)
    <3>1. head = Size /\ head' = 0 /\ tail' = tail /\ memory' = memory
      BY <2>3 DEF ReadWrap, RingInv, LockDiscipline
    <3> QED BY <3>1 DEF LogicalHead, LogicalTail, Wrap
  <2> QED BY <2>1, <2>2, <2>3
<1> QED BY <1>1, SamePointersSameContents DEF Used, Distance

(* The copy of a post accepts its record, or empties a mailbox that has no *)
(* room for it.                                                            *)
LEMMA PostCopies ==
    ASSUME MailInv, NEW c \in Writers, WriteCopy(c), RingInv'
    PROVE  /\ Queued'
           /\ \E r \in Record :
                 PendingRecords' = IF Len(PendingRecords) < (Size - 1) \div Rec
                                   THEN Append(PendingRecords, r) ELSE <<>>
<1> USE RecAssumption
<1>1. RingInv /\ c \in Threads /\ pc[c] = "w_copy"
  BY DEF MailInv, WriteCopy, Threads
<1>2. PICK r \in Record : data[c] = Bytes(r)
  BY <1>1 DEF MailInv, Holding, IsRecord
<1>3. PICK rs \in Seq(Record) : Packed(Contents, rs)
  BY DEF MailInv, Queued
<1>4. Contents' = IF Len(Contents) + Len(Bytes(r)) < Size THEN Contents \o Bytes(r) ELSE <<>>
  BY <1>1, <1>2, WriteCopyPuts DEF Queue!Put
<1>5. Contents \in Seq(Byte) /\ Contents' \in Seq(Byte) /\ Len(Contents) = Used /\ Len(Contents') = Used'
  BY <1>1, ContentsIsSeq, NextContentsIsSeq
<1>6. PendingRecords = rs
  BY <1>3, <1>5, PendingIsPacked DEF PendingRecords
<1>7. Len(rs) \in Nat /\ Len(Contents) = Len(rs) * Rec /\ Len(Bytes(r)) = Rec
  BY <1>3 DEF Packed, Bytes
<1>8. Len(Contents) + Len(Bytes(r)) < Size <=> Len(rs) < (Size - 1) \div Rec
  BY <1>7, FitsIffRoom
<1>9. CASE Len(rs) < (Size - 1) \div Rec
  <2>1. Packed(Contents', Append(rs, r)) /\ Append(rs, r) \in Seq(Record)
    BY <1>3, <1>4, <1>5, <1>8, <1>9, PutPacks
  <2>2. PendingRecords' = Append(rs, r)
    BY <1>5, <2>1, PendingIsPacked DEF PendingRecords
  <2> QED BY <1>6, <1>9, <2>1, <2>2 DEF Queued
<1>10. CASE ~ (Len(rs) < (Size - 1) \div Rec)
  <2>1. Contents' = <<>>
    BY <1>4, <1>8, <1>10
  <2>2. Packed(Contents', <<>>) /\ <<>> \in Seq(Record)
    BY <2>1 DEF Packed
  <2>3. PendingRecords' = <<>>
    BY <1>5, <2>2, PendingIsPacked DEF PendingRecords
  <2> QED BY <1>6, <1>10, <2>2, <2>3 DEF Queued
<1> QED BY <1>9, <1>10

(* The copy of a retrieval takes the oldest record whole, or finds none.   *)
LEMMA RetrieveCopies ==
    ASSUME MailInv, ReadCopy(Worker), RingInv'
    PROVE  /\ Queued'
           /\ \/ PendingRecords' = PendingRecords /\ Entry' = <<>>
              \/ /\ PendingRecords # <<>>
                 /\ Head(PendingRecords) \in Record
                 /\ Entry' = Bytes(Head(PendingRecords))
                 /\ PendingRecords' = Tail(PendingRecords)
<1> USE RecAssumption
<1>1. RingInv /\ Worker \in Threads /\ pc[Worker] = "r_copy" /\ want[Worker] = Rec
  BY WorkerAssumption DEF MailInv, ReadCopy, Threads, Holding
<1>2. PICK rs \in Seq(Record) : Packed(Contents, rs)
  BY DEF MailInv, Queued
<1> DEFINE n == Queue!Lesser(Rec, Len(Contents))
<1>3. /\ out' = [out EXCEPT ![Worker] = SubSeq(Contents, 1, n)]
      /\ Contents' = SubSeq(Contents, n + 1, Len(Contents))
  BY <1>1, ReadCopyGets DEF Queue!Get
<1>4. Contents \in Seq(Byte) /\ Contents' \in Seq(Byte) /\ Len(Contents) = Used /\ Len(Contents') = Used'
  BY <1>1, ContentsIsSeq, NextContentsIsSeq
<1>5. Entry' = SubSeq(Contents, 1, n)
  BY <1>1, <1>3 DEF Entry, RingInv, TypeOK
<1>6. PendingRecords = rs
  BY <1>2, <1>4, PendingIsPacked DEF PendingRecords
<1>7. CASE rs = <<>>
  <2>1. Len(Contents) = 0
    BY <1>2, <1>7 DEF Packed
  <2>2. n = 0
    BY <2>1 DEF Queue!Lesser
  <2> HIDE DEF n
  <2>3. Entry' = <<>> /\ Len(Contents') = 0
    BY <1>3, <1>4, <1>5, <2>1, <2>2
  <2>4. Packed(Contents', <<>>) /\ <<>> \in Seq(Record)
    BY <2>3 DEF Packed
  <2>5. PendingRecords' = <<>>
    BY <1>4, <2>4, PendingIsPacked DEF PendingRecords
  <2> QED BY <1>6, <1>7, <2>3, <2>4, <2>5 DEF Queued
<1>8. CASE rs # <<>>
  <2>1. /\ Rec <= Len(Contents)
        /\ SubSeq(Contents, 1, Rec) = Bytes(Head(rs)) /\ Head(rs) \in Record
        /\ Packed(SubSeq(Contents, Rec + 1, Len(Contents)), Tail(rs)) /\ Tail(rs) \in Seq(Record)
    BY <1>2, <1>4, <1>8, GetUnpacks
  <2>2. n = Rec
    BY <2>1 DEF Queue!Lesser
  <2> HIDE DEF n
  <2>3. Entry' = Bytes(Head(rs)) /\ Packed(Contents', Tail(rs))
    BY <1>3, <1>5, <2>1, <2>2
  <2>4. PendingRecords' = Tail(rs)
    BY <1>4, <2>1, <2>3, PendingIsPacked DEF PendingRecords
  <2> QED BY <1>6, <1>8, <2>1, <2>3, <2>4 DEF Queued
<1> QED BY <1>7, <1>8

(* A step that leaves the ring's contents alone leaves the records alone.  *)
LEMMA SameRecords ==
    ASSUME Queued, Contents' = Contents, Used' = Used
    PROVE  Queued' /\ PendingRecords' = PendingRecords
BY DEF Queued, PendingRecords

(* Every step of an exit handler in the ring keeps the mailbox's invariant *)
(* and is a step of the record queue or none.                              *)
LEMMA PosterStep ==
    ASSUME MailInv, RingInv', NEW c \in Writers, Post(c) \/ PostStep(c)
    PROVE  MTypeOK' /\ Holding' /\ Queued' /\ [Records!Next]_(Records!vars)
<1> USE WorkerAssumption
<1>0. /\ RingInv /\ Roles /\ MTypeOK /\ Holding /\ Queued
      /\ pc \in [Threads -> PcValues] /\ data \in [Threads -> Seq(Byte)]
      /\ Writers \subseteq Threads /\ Worker \in Threads /\ c # Worker /\ TypeOK'
  BY DEF MailInv, RingInv, TypeOK, Threads
<1>1. /\ UNCHANGED <<phase, hvm, shutdown, wpc, delivered>>
      /\ posts' \in 0..MaxPosts
  BY <1>0, MaxPostsAssumption DEF Post, PostStep, life, MTypeOK
<1>2. MTypeOK'
  BY <1>0, <1>1 DEF MTypeOK
<1>3. out' = out /\ want'[Worker] = want[Worker] /\ pc'[Worker] = pc[Worker]
  BY <1>0
  DEF Post, Write, WriteRefused, WriteBegin, PostStep, WriteAcquire, WriteCopy, WriteWrap,
      WriteRelease, Acquire, Release, Goto, RingInv, TypeOK
<1>4. InHand' = InHand /\ Entry' = Entry
  BY <1>1, <1>3 DEF InHand, Entry, EntryRecord
<1>5. Holding'
  <2>1. /\ \A o \in Writers : o # c => pc'[o] = pc[o] /\ data'[o] = data[o]
        /\ pc'[c] \in {"w_acquire", "w_copy"} => IsRecord(data'[c])
    <3>1. CASE Post(c)
      <4>1. posts' \in Record
        BY <3>1, <1>0, MaxPostsAssumption DEF Post, MTypeOK, Record
      <4>2. Write(c, Bytes(posts'))
        BY <3>1 DEF Post
      <4>3. CASE WriteRefused(c, Bytes(posts'))
        BY <4>3, <1>0 DEF WriteRefused
      <4>4. CASE WriteBegin(c, Bytes(posts'))
        BY <4>1, <4>4, <1>0 DEF WriteBegin, Goto, IsRecord
      <4> QED BY <4>2, <4>3, <4>4 DEF Write
    <3>2. CASE PostStep(c)
      <4>1. CASE WriteAcquire(c)
        BY <4>1, <1>0 DEF WriteAcquire, Acquire, Goto, Holding
      <4>2. CASE WriteCopy(c)
        BY <4>2, <1>0 DEF WriteCopy, Goto
      <4>3. CASE WriteWrap(c)
        BY <4>3, <1>0 DEF WriteWrap, Goto
      <4>4. CASE WriteRelease(c)
        BY <4>4, <1>0 DEF WriteRelease, Release, Goto
      <4> QED BY <3>2, <4>1, <4>2, <4>3, <4>4 DEF PostStep
    <3> QED BY <3>1, <3>2
  <2>2. \A o \in Writers : pc'[o] \in {"w_acquire", "w_copy"} => IsRecord(data'[o])
    BY <1>0, <2>1 DEF Holding
  <2> QED BY <1>0, <1>1, <1>3, <1>4, <2>2 DEF Holding
<1>6. CASE Post(c)
  <2>1. \E d \in Transfer : Write(c, d)
    <3>1. posts' \in Record
      BY <1>6, <1>0, MaxPostsAssumption DEF Post, MTypeOK, Record
    <3> QED BY <1>6, <3>1, BytesIsTransfer DEF Post
  <2>2. Queued' /\ PendingRecords' = PendingRecords
    BY <1>0, <2>1, QuietStep, SameRecords
  <2> QED BY <1>1, <1>2, <1>4, <1>5, <2>2 DEF Records!vars
<1>7. CASE WriteAcquire(c) \/ WriteWrap(c) \/ WriteRelease(c)
  <2>1. Queued' /\ PendingRecords' = PendingRecords
    BY <1>0, <1>7, QuietStep, SameRecords
  <2> QED BY <1>1, <1>2, <1>4, <1>5, <2>1 DEF Records!vars
<1>8. CASE WriteCopy(c)
  <2>1. PICK r \in Record :
           PendingRecords' = IF Len(PendingRecords) < (Size - 1) \div Rec
                             THEN Append(PendingRecords, r) ELSE <<>>
    BY <1>8, PostCopies
  <2>2. Records!Post(r)
    BY <1>1, <1>4, <2>1 DEF Records!Post
  <2>3. Queued'
    BY <1>8, PostCopies
  <2> QED BY <1>2, <1>5, <2>2, <2>3 DEF Records!Next
<1> QED BY <1>6, <1>7, <1>8 DEF PostStep

(* So does every step of the worker.                                       *)
LEMMA WorkersStep ==
    ASSUME MailInv, RingInv', Roles', WorkerStep \/ SendReturns
    PROVE  MTypeOK' /\ Holding' /\ Queued' /\ [Records!Next]_(Records!vars)
<1> USE WorkerAssumption
<1>0. /\ RingInv /\ Roles /\ MTypeOK /\ Holding /\ Queued
      /\ pc \in [Threads -> PcValues] /\ out \in [Threads -> Seq(Byte)]
      /\ want \in [Threads -> 0..MaxLen] /\ data \in [Threads -> Seq(Byte)]
      /\ Writers \subseteq Threads /\ Worker \in Threads /\ TypeOK'
      /\ \A c \in Writers : c # Worker
  BY DEF MailInv, RingInv, TypeOK, Threads
<1>1. UNCHANGED <<phase, hvm, shutdown, posts>>
  BY DEF WorkerStep, SendReturns, WaitShutdown, WaitTimeout, Poll, Retrieve, RetrieveStep,
         RetrieveReturns, DispatchHere, DispatchAbuse, DispatchEmpty, life
<1>2. ASSUME UNCHANGED vars PROVE Queued' /\ PendingRecords' = PendingRecords /\ Entry' = Entry
  <2>1. Contents' = Contents /\ Used' = Used
    BY <1>2 DEF vars, Contents, Used, Distance, Wrap, LogicalHead, LogicalTail
  <2> QED BY <1>0, <1>2, <2>1, SameRecords DEF vars, Entry
<1>3. CASE WaitShutdown \/ WaitTimeout \/ Poll \/ DispatchAbuse \/ DispatchEmpty
  <2>1. UNCHANGED vars /\ delivered' = delivered
    BY <1>3 DEF WaitShutdown, WaitTimeout, Poll, DispatchAbuse, DispatchEmpty
  <2>2. /\ pc[Worker] = "idle" /\ pc' = pc /\ want' = want /\ data' = data
        /\ wpc' \in {"done", "poll", "wait", "retrieve", "sending"}
        /\ wpc' = "sending" => wpc = "dispatch" /\ Entry # <<>>
        /\ wpc = "dispatch" /\ wpc' # "sending" => Entry = <<>>
        /\ wpc # "sending"
    BY <1>0, <1>3, <2>1
    DEF WaitShutdown, WaitTimeout, Poll, DispatchAbuse, DispatchEmpty, WorkerGoto, vars, Roles
  <2>3. Queued' /\ PendingRecords' = PendingRecords /\ Entry' = Entry
    BY <1>2, <2>1
  <2>4. InHand' = InHand
    BY <2>2, <2>3 DEF InHand, EntryRecord
  <2>5. Holding'
    BY <1>0, <2>2, <2>3 DEF Holding
  <2>6. MTypeOK'
    BY <1>0, <1>1, <2>1, <2>2 DEF MTypeOK
  <2> QED BY <2>1, <2>3, <2>4, <2>5, <2>6 DEF Records!vars
<1>4. CASE DispatchHere \/ SendReturns
  <2>1. /\ UNCHANGED vars /\ delivered' = Append(delivered, EntryRecord)
        /\ wpc \in {"dispatch", "sending"} /\ wpc' = "poll" /\ Entry # <<>>
    BY <1>0, <1>4 DEF DispatchHere, SendReturns, Finish, WorkerGoto, Holding
  <2>2. PICK r \in Record : Entry = Bytes(r)
    BY <1>0, <2>1 DEF Holding, IsRecord
  <2>3. EntryRecord = r
    BY <2>2, RecordNamesItself DEF EntryRecord
  <2>4. Queued' /\ PendingRecords' = PendingRecords /\ Entry' = Entry
    BY <1>2, <2>1
  <2>5. pc' = pc /\ want' = want /\ data' = data /\ pc[Worker] = "idle"
    BY <1>0, <2>1 DEF vars, Roles
  <2>6. InHand = <<r>> /\ InHand' = <<>>
    BY <2>1, <2>3, <2>5 DEF InHand
  <2>7. delivered' = delivered \o <<r>> /\ delivered' \in Seq(Record)
    <3>1. delivered \in Seq(Record)
      BY <1>0 DEF MTypeOK
    <3> QED BY <2>1, <2>3, <3>1
  <2>8. Records!Deliver
    BY <2>4, <2>6, <2>7 DEF Records!Deliver
  <2>9. Holding'
    BY <1>0, <2>1, <2>5 DEF Holding
  <2>10. MTypeOK'
    BY <1>0, <1>1, <2>1, <2>7 DEF MTypeOK
  <2> QED BY <2>4, <2>8, <2>9, <2>10 DEF Records!Next
<1>5. CASE Retrieve \/ RetrieveStep \/ RetrieveReturns
  <2>0. /\ delivered' = delivered
        /\ wpc \in {"retrieve", "reading"} /\ wpc' \in {"reading", "dispatch"}
    BY <1>5 DEF Retrieve, RetrieveStep, RetrieveReturns, WorkerGoto
  <2>1. MTypeOK'
    BY <1>0, <1>1, <2>0 DEF MTypeOK
  <2>2. \A c \in Writers : pc'[c] = pc[c] /\ data'[c] = data[c]
    BY <1>0, <1>5
    DEF Retrieve, RetrieveStep, RetrieveReturns, ReadBegin, ReadAcquire, ReadCopy, ReadWrap,
        ReadRelease, Acquire, Release, Goto
  <2>3. CASE Retrieve
    <3>1. /\ pc[Worker] = "idle" /\ pc'[Worker] = "r_acquire" /\ want'[Worker] = Rec
          /\ wpc = "retrieve" /\ wpc' = "reading"
      BY <1>0, <2>3 DEF Retrieve, ReadBegin, Goto, WorkerGoto
    <3>2. InHand = <<>> /\ InHand' = <<>>
      BY <3>1 DEF InHand
    <3>3. Queued' /\ PendingRecords' = PendingRecords
      BY <1>0, <2>3, QuietStep, SameRecords DEF Retrieve
    <3>4. Holding'
      BY <1>0, <2>2, <3>1 DEF Holding
    <3> QED BY <2>0, <2>1, <3>2, <3>3, <3>4 DEF Records!vars
  <2>4. CASE RetrieveStep /\ ReadAcquire(Worker)
    <3>1. /\ pc[Worker] = "r_acquire" /\ pc'[Worker] = "r_copy" /\ want' = want
          /\ wpc = "reading" /\ wpc' = "reading"
      BY <1>0, <2>4 DEF RetrieveStep, ReadAcquire, Acquire, Goto, WorkerGoto
    <3>2. InHand = <<>> /\ InHand' = <<>>
      BY <3>1 DEF InHand
    <3>3. Queued' /\ PendingRecords' = PendingRecords
      BY <1>0, <2>4, QuietStep, SameRecords
    <3>4. Holding'
      BY <1>0, <2>2, <3>1 DEF Holding
    <3> QED BY <2>0, <2>1, <3>2, <3>3, <3>4 DEF Records!vars
  <2>5. CASE RetrieveStep /\ ReadCopy(Worker)
    <3>1. /\ pc[Worker] = "r_copy" /\ pc'[Worker] \in {"r_wrap", "r_release"}
          /\ wpc = "reading" /\ wpc' = "reading"
      BY <1>0, <2>5 DEF RetrieveStep, ReadCopy, Goto, WorkerGoto
    <3>2. InHand = <<>>
      BY <3>1 DEF InHand
    <3>3. CASE PendingRecords' = PendingRecords /\ Entry' = <<>>
      <4>1. InHand' = <<>>
        BY <3>3 DEF InHand
      <4>2. Holding'
        BY <1>0, <2>2, <3>1, <3>3 DEF Holding
      <4> QED BY <2>0, <2>1, <2>5, <3>2, <3>3, <4>1, <4>2, RetrieveCopies DEF Records!vars
    <3>4. CASE /\ PendingRecords # <<>>
               /\ Head(PendingRecords) \in Record
               /\ Entry' = Bytes(Head(PendingRecords))
               /\ PendingRecords' = Tail(PendingRecords)
      <4>1. Entry' # <<>> /\ EntryRecord' = Head(PendingRecords)
        BY <3>4, RecordNamesItself DEF EntryRecord
      <4>2. InHand' = <<Head(PendingRecords)>>
        BY <3>1, <4>1 DEF InHand
      <4>3. Records!Retrieve
        BY <2>0, <3>2, <3>4, <4>2 DEF Records!Retrieve
      <4>4. Holding'
        BY <1>0, <2>2, <3>1, <3>4 DEF Holding, IsRecord
      <4> QED BY <2>1, <2>5, <4>3, <4>4, RetrieveCopies DEF Records!Next
    <3> QED BY <2>5, <3>3, <3>4, RetrieveCopies
  <2>6. CASE (RetrieveStep /\ ReadWrap(Worker)) \/ RetrieveReturns
    <3>1. /\ pc[Worker] \in {"r_wrap", "r_release"}
          /\ pc'[Worker] = "r_release" \/ (pc'[Worker] = "idle" /\ wpc' = "dispatch")
          /\ wpc = "reading" /\ wpc' # "sending" /\ out' = out
      BY <1>0, <2>6
      DEF RetrieveStep, RetrieveReturns, ReadWrap, ReadRelease, Release, Goto, WorkerGoto
    <3>2. Entry' = Entry /\ EntryRecord' = EntryRecord
      BY <3>1 DEF Entry, EntryRecord
    <3>3. InHand' = InHand
      BY <3>1, <3>2 DEF InHand
    <3>4. Queued' /\ PendingRecords' = PendingRecords
      BY <1>0, <2>6, QuietStep, SameRecords DEF RetrieveReturns
    <3>5. Holding'
      BY <1>0, <2>2, <3>1, <3>2 DEF Holding
    <3> QED BY <2>0, <2>1, <3>3, <3>4, <3>5 DEF Records!vars
  <2> QED BY <1>5, <2>3, <2>4, <2>5, <2>6 DEF RetrieveStep
<1> QED BY <1>3, <1>4, <1>5 DEF WorkerStep

(* The invariant is inductive, and every step of the mailbox is a step of  *)
(* the record queue or none.                                               *)
LEMMA StepMail ==
    ASSUME MailInv, [MNext]_mvars
    PROVE  MailInv' /\ [Records!Next]_(Records!vars)
<1>0. RingInv' /\ Roles'
  <2>1. posts \in Nat
    BY MaxPostsAssumption DEF MailInv, MTypeOK
  <2>2. RingInv'
    BY <2>1, MaxPostsAssumption, MailboxStepIsRingStep, NextKeepsRingInv DEF MailInv
  <2> QED BY <2>2, StepRoles DEF MailInv
<1>1. CASE \/ UNCHANGED mvars \/ Terminated
           \/ Initialize \/ InitializeFails \/ StartHvm \/ StopHvm \/ StopWorker \/ Destroy
  <2>1. /\ UNCHANGED <<vars, posts, delivered>>
        /\ phase' \in {"absent", "up", "stopping", "destroyed"}
        /\ hvm' \in BOOLEAN /\ shutdown' \in BOOLEAN
        /\ wpc' = wpc \/ (wpc = "none" /\ wpc' = "wait")
    BY <1>1
    DEF mvars, life, Terminated, Initialize, InitializeFails, StartHvm, StopHvm, StopWorker,
        Destroy, MailInv, Roles, MTypeOK
  <2>2. Contents' = Contents /\ Used' = Used
    BY <2>1 DEF vars, Contents, Used, Distance, Wrap, LogicalHead, LogicalTail
  <2>3. Queued' /\ PendingRecords' = PendingRecords
    BY <2>2, SameRecords DEF MailInv
  <2>4. Holding'
    BY <2>1 DEF MailInv, Holding, vars, Entry
  <2>5. MTypeOK'
    BY <1>0, <2>1 DEF MailInv, MTypeOK, RingInv
  <2>6. InHand' = InHand
    BY <2>1 DEF InHand, vars, Entry, EntryRecord
  <2> QED BY <1>0, <2>1, <2>3, <2>4, <2>5, <2>6 DEF MailInv, Records!vars
<1>2. ASSUME NEW c \in Writers, Post(c) \/ PostStep(c)
      PROVE  MailInv' /\ [Records!Next]_(Records!vars)
  BY <1>0, <1>2, PosterStep DEF MailInv
<1>3. CASE WorkerStep \/ SendReturns
  BY <1>0, <1>3, WorkersStep DEF MailInv
<1> QED BY <1>1, <1>2, <1>3 DEF MNext

(* For every ring and record size and any number of processors posting at  *)
(* a time, the ring holds whole records and the dispatcher is handed one   *)
(* of them or nothing: a record that is refused, cut short or lost to an   *)
(* overflow never shifts the others.                                       *)
THEOREM RecordsStayWhole == MSpec => []RecordsSound
<1>1. MailInv => RecordsSound
  <2> SUFFICES ASSUME MailInv PROVE WholeRecords
    BY DEF RecordsSound, MailInv
  <2>1. Contents \in Seq(Byte) /\ Len(Contents) = Used
    BY ContentsIsSeq DEF MailInv
  <2>2. \E rs \in [1..(Used \div Rec) -> Record] :
           /\ Used = Len(rs) * Rec
           /\ \A k \in 1..Used :
                 Contents[k] = Bytes(rs[((k - 1) \div Rec) + 1])[((k - 1) % Rec) + 1]
    BY <2>1, PackedIsWhole DEF MailInv, Queued
  <2>3. wpc \in {"dispatch", "sending"} => Entry = <<>> \/ Entry = Bytes(EntryRecord)
    BY RecordNamesItself DEF MailInv, Holding, IsRecord, EntryRecord
  <2> QED BY <2>2, <2>3 DEF WholeRecords
<1>2. MailInv /\ [MNext]_mvars => MailInv'
  BY StepMail
<1> QED BY <1>1, <1>2, InitMailInv, PTL DEF MSpec

(* The mailbox implements the record queue: what RtlPostMailboxTrace and   *)
(* RtlPostMailboxNotification have accepted is dispatched in order and at  *)
(* most once, and lost only when a full mailbox is emptied.                *)
THEOREM MailboxImplementsRecordQueue == MSpec => ImplementsRecordQueue
<1>1. MInit => Records!Init
  <2> SUFFICES ASSUME MInit PROVE Records!Init
    OBVIOUS
  <2>1. Used = 0
    BY SizeAssumption DEF MInit, Init, Used, Distance, LogicalHead, LogicalTail, Wrap
  <2>2. Len(Contents) = 0 /\ Contents \in Seq(Byte)
    BY <2>1, ContentsIsSeq, InitRingInv DEF MInit
  <2>3. Packed(Contents, <<>>) /\ <<>> \in Seq(Record)
    BY <2>2, RecAssumption, EmptySeq DEF Packed
  <2>4. PendingRecords = <<>>
    BY <2>1, <2>2, <2>3, PendingIsPacked DEF PendingRecords
  <2>5. InHand = <<>> /\ delivered = <<>>
    BY WorkerAssumption DEF MInit, Init, InHand, Threads
  <2> QED BY <2>4, <2>5 DEF Records!Init
<1>2. MailInv /\ [MNext]_mvars => MailInv' /\ [Records!Next]_(Records!vars)
  BY StepMail
<1> QED
  BY <1>1, <1>2, InitMailInv, PTL DEF MSpec, ImplementsRecordQueue, Records!Spec
=============================================================================
