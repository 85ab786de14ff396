------------------------------ MODULE Mailbox ------------------------------
(***************************************************************************)
(* src/src/mailbox.c: the secure mailbox, through which the VM-exit        *)
(* handlers (VMX root mode, no OS service allowed) hand traces and         *)
(* notifications to a worker thread of the driver (guest mode).            *)
(*                                                                         *)
(* The processors of Writers post records with RtlRingBufferWrite; the one *)
(* thread of Readers polls the ring every 360 ms, drains it and dispatches *)
(* each record.  The ring is the one of RingBuffer.tla, step by step: the  *)
(* worker's emptiness test reads its pointers without the lock.            *)
(*                                                                         *)
(* A record is Rec bytes; byte k of record i is <<i, k>>.  Its type   *)
(* (MAILBOX_TYPE) is data that only the dispatcher looks at, and so is     *)
(* left open until then.                                                   *)
(* LET_SWAP_CONTEXT is not defined in any build file, so the semaphore is  *)
(* never released and the worker only ever wakes up by timeout.            *)
(***************************************************************************)
EXTENDS RingBuffer

CONSTANTS
    Rec,        \* sizeof( MAILBOX_RECORD )
    Worker,     \* the worker thread
    WorkerCpu,  \* the processor the worker is scheduled on
    MaxPosts    \* bound on the number of records posted

Record == 1..MaxPosts
Bytes(r) == [k \in 1..Rec |-> <<r, k>>]
Garbage == <<0, 0>>
RecordBytes == {Garbage} \cup UNION {{Bytes(r)[k] : k \in 1..Rec} : r \in Record}

ASSUME MaxPostsAssumption == MaxPosts \in Nat
ASSUME RecAssumption == Rec \in Nat \ {0} /\ Rec < Size /\ Rec <= MaxLen
ASSUME BytesAssumption == RecordBytes \subseteq Byte
ASSUME WorkerAssumption ==
    Readers = {Worker} /\ Worker \notin Writers /\ WorkerCpu \in Writers

VARIABLES
    phase,      \* "absent", "up", "stopping", "destroyed"
    hvm,        \* VCPUs are in guest mode, so VM exits happen
    shutdown,   \* Mailbox->ShutdownEvent
    wpc,        \* next step of RtlMailboxWorkerThread
    posts,      \* records posted so far (their identities)
    delivered   \* records dispatched, oldest first

life == <<phase, hvm, shutdown>>
mvars == <<vars, life, wpc, posts, delivered>>

-----------------------------------------------------------------------------
(* Life cycle: RtlMailboxInitialize, RtlMailboxStartWorker, and the        *)
(* RtlMailboxDestroy / RtlMailboxStopWorker of DriverUnload.               *)

MInit ==
    /\ memory = [p \in Cell |-> Garbage]
    /\ Init
    /\ phase = "absent"
    /\ hvm = FALSE
    /\ shutdown = FALSE
    /\ wpc = "none"
    /\ posts = 0
    /\ delivered = <<>>

(* The pool block is allocated and the worker thread is created.           *)
Initialize ==
    /\ phase = "absent"
    /\ phase' = "up"
    /\ wpc' = "wait"
    /\ UNCHANGED <<vars, hvm, shutdown, posts, delivered>>

(* No pool, or no thread: in the second case RtlMailboxDestroy sets the    *)
(* event and has no thread to wait for.  A failure after the thread has    *)
(* been created is left out: mailbox.c:76 asserts that                     *)
(* ObReferenceObjectByHandle can't fail with a valid kernel handle.        *)
InitializeFails ==
    /\ phase = "absent"
    /\ phase' = "destroyed"
    /\ shutdown' \in BOOLEAN
    /\ UNCHANGED <<vars, hvm, wpc, posts, delivered>>

(* The shield starts and stops, seen from here as one step each (Shield    *)
(* has the steps).  Stopping it takes every VCPU out of VMX operation, so  *)
(* that no exit handler is left running.                                   *)
StartHvm ==
    /\ phase = "up" /\ ~ hvm
    /\ hvm' = TRUE
    /\ UNCHANGED <<vars, phase, shutdown, wpc, posts, delivered>>

StopHvm ==
    /\ hvm
    /\ \A c \in Writers : pc[c] = "idle"
    /\ hvm' = FALSE
    /\ UNCHANGED <<vars, phase, shutdown, wpc, posts, delivered>>

(* Mutant: the wait starts without the event being set.                    *)
StopWorkerNoSignal ==
    /\ phase = "up" /\ ~ hvm
    /\ phase' = "stopping"
    /\ UNCHANGED <<vars, hvm, shutdown, wpc, posts, delivered>>

(* RtlMailboxStopWorker up to its wait.  DriverUnload has stopped the      *)
(* shield before.                                                          *)
StopWorker ==
    /\ phase = "up" /\ ~ hvm
    /\ shutdown' = TRUE
    /\ phase' = "stopping"
    /\ UNCHANGED <<vars, hvm, wpc, posts, delivered>>

(* Mutant: the pool block is freed without waiting for the thread.         *)
DestroyNoWait ==
    /\ phase = "stopping"
    /\ phase' = "destroyed"
    /\ UNCHANGED <<vars, hvm, shutdown, wpc, posts, delivered>>

(* The wait on the thread object is over; the pool block is freed.         *)
Destroy ==
    /\ phase = "stopping"
    /\ wpc = "done"
    /\ phase' = "destroyed"
    /\ UNCHANGED <<vars, hvm, shutdown, wpc, posts, delivered>>

-----------------------------------------------------------------------------
(* RtlPostMailboxTrace and RtlPostMailboxNotification, in an exit handler. *)

(* The processor's guest is not inside the ring's critical section: the    *)
(* exits that post come from user-mode RDTSC(P) and from the FS base write *)
(* of a context switch, and the critical section runs at DISPATCH_LEVEL.   *)
(* A post at any other time would spin on a lock its own guest holds.      *)
MayPost(c) == c = WorkerCpu => pc[Worker] \notin Locked

(* Mutant: the handler posts from any exit.                                *)
PostFromAnyExit(c) ==
    /\ hvm
    /\ posts < MaxPosts
    /\ posts' = posts + 1
    /\ Write(c, Bytes(posts'))
    /\ UNCHANGED <<life, wpc, delivered>>

Post(c) ==
    /\ hvm
    /\ MayPost(c)
    /\ posts < MaxPosts
    /\ posts' = posts + 1
    /\ Write(c, Bytes(posts'))
    /\ UNCHANGED <<life, wpc, delivered>>

PostStep(c) ==
    /\ WriteAcquire(c) \/ WriteCopy(c) \/ WriteWrap(c) \/ WriteRelease(c)
    /\ UNCHANGED <<life, wpc, posts, delivered>>

-----------------------------------------------------------------------------
(* RtlMailboxWorkerThread.  A VM exit on its processor suspends it.        *)

Runs == pc[WorkerCpu] = "idle"

WorkerGoto(step) == Runs /\ wpc' = step

(* KeWaitForMultipleObjects returns STATUS_WAIT_0 ...                      *)
WaitShutdown ==
    /\ wpc = "wait" /\ shutdown
    /\ WorkerGoto("done")
    /\ UNCHANGED <<vars, life, posts, delivered>>

(* ... or STATUS_TIMEOUT.                                                  *)
WaitTimeout ==
    /\ wpc = "wait" /\ ~ shutdown
    /\ WorkerGoto("poll")
    /\ UNCHANGED <<vars, life, posts, delivered>>

(* Mutant: a mailbox that holds exactly one record counts as empty.        *)
IsEmptyOffByOne == AvailToRead <= Rec

(* RtlIsMailboxEmpty: the pointers are read without the lock.  The worker  *)
(* is the only one that moves Head, so reading Head and then Tail is the   *)
(* same as reading both at the moment Tail is read.                        *)
IsEmpty == AvailToRead < Rec

Poll ==
    /\ wpc = "poll"
    /\ WorkerGoto(IF IsEmpty THEN "wait" ELSE "retrieve")
    /\ UNCHANGED <<vars, life, posts, delivered>>

(* RtlRetrieveMailboxData: the entry is typed MailboxEmpty (no bytes) and  *)
(* then read from the ring.                                                *)
Retrieve ==
    /\ wpc = "retrieve"
    /\ WorkerGoto("reading")
    /\ ReadBegin(Worker, Rec)
    /\ UNCHANGED <<life, posts, delivered>>

RetrieveStep ==
    /\ wpc = "reading" /\ WorkerGoto("reading")
    /\ ReadAcquire(Worker) \/ ReadCopy(Worker) \/ ReadWrap(Worker)
    /\ UNCHANGED <<life, posts, delivered>>

RetrieveReturns ==
    /\ wpc = "reading" /\ WorkerGoto("dispatch")
    /\ ReadRelease(Worker)
    /\ UNCHANGED <<life, posts, delivered>>

(* RtlDispatchMailboxData.  The entry is a record when all its bytes are.  *)
Entry == out[Worker]
EntryRecord == Entry[1][1]

Finish == delivered' = Append(delivered, EntryRecord)

(* A trace (MailboxTrace) is logged; TimerFalsePositive excludes a thread. *)
DispatchHere ==
    /\ wpc = "dispatch" /\ Entry # <<>>
    /\ WorkerGoto("poll")
    /\ Finish
    /\ UNCHANGED <<vars, life, posts>>

(* TimerAbuse goes to the service: DsSendNotificationMessage blocks until  *)
(* it answers (Channel.tla), and the mailbox is not drained meanwhile.     *)
DispatchAbuse ==
    /\ wpc = "dispatch" /\ Entry # <<>>
    /\ WorkerGoto("sending")
    /\ UNCHANGED <<vars, life, posts, delivered>>

SendReturns ==
    /\ wpc = "sending"
    /\ WorkerGoto("poll")
    /\ Finish
    /\ UNCHANGED <<vars, life, posts>>

(* The read has found nothing: NT_ASSERT( FALSE ), then a trace.           *)
DispatchEmpty ==
    /\ wpc = "dispatch" /\ Entry = <<>>
    /\ WorkerGoto("poll")
    /\ UNCHANGED <<vars, life, posts, delivered>>

WorkerStep ==
    \/ WaitShutdown \/ WaitTimeout \/ Poll
    \/ Retrieve \/ RetrieveStep \/ RetrieveReturns
    \/ DispatchHere \/ DispatchAbuse \/ DispatchEmpty

-----------------------------------------------------------------------------
(* Nothing is left to do once the mailbox is destroyed.                    *)
Terminated == phase = "destroyed" /\ UNCHANGED mvars

MNext ==
    \/ Initialize \/ InitializeFails \/ StartHvm \/ StopHvm \/ StopWorker \/ Destroy
    \/ \E c \in Writers : Post(c)
    \/ \E c \in Writers : PostStep(c)
    \/ WorkerStep
    \/ SendReturns
    \/ Terminated

MSpec == MInit /\ [][MNext]_mvars

(* An exit handler runs with interrupts off; the worker is a real-time     *)
(* priority thread; DriverUnload runs to its end.  SendReturns is not fair *)
(* (it depends on the service), nor is the decision to unload.             *)
MFairness ==
    /\ \A c \in Writers : WF_mvars(PostStep(c))
    /\ WF_mvars(WorkerStep)
    /\ WF_mvars(Destroy)

MFairSpec == MSpec /\ MFairness

-----------------------------------------------------------------------------
MTypeOK ==
    /\ TypeOK
    /\ phase \in {"absent", "up", "stopping", "destroyed"}
    /\ hvm \in BOOLEAN /\ shutdown \in BOOLEAN
    /\ wpc \in {"none", "wait", "poll", "retrieve", "reading", "dispatch",
                "sending", "done"}
    /\ posts \in 0..MaxPosts
    /\ delivered \in Seq(Record)

(* Records in the ring keep their boundaries although Rec does not divide  *)
(* Size and an overflowing write stores only a part of its record: the     *)
(* ring holds whole records, and whatever RtlRetrieveMailboxData hands to  *)
(* the dispatcher is one of them or nothing, never the middle of two.      *)
WholeRecords ==
    /\ \E rs \in [1..(Used \div Rec) -> Record] :
          /\ Used = Len(rs) * Rec
          /\ \A k \in 1..Used : Contents[k] = Bytes(rs[((k - 1) \div Rec) + 1])[((k - 1) % Rec) + 1]
    /\ wpc \in {"dispatch", "sending"} => Entry = <<>> \/ Entry = Bytes(EntryRecord)

(* What RtlPostMailboxTrace, RtlPostMailboxNotification and the worker     *)
(* keep of the mailbox at every step, two processors posting at a time:    *)
(* its type, and whole records.                                            *)
RecordsSound == MTypeOK /\ WholeRecords

(* RtlDispatchMailboxData: "RtlRetrieveMailboxData failed with a fixed     *)
(* data size".  The worker is never turned away by the unlocked test.      *)
RetrieveSucceeds == wpc = "retrieve" => head < Size

(* When the pool block is freed nobody is in the ring: neither the worker  *)
(* nor an exit handler touches it afterwards.                              *)
FreedWhenUnused ==
    phase = "destroyed" => /\ wpc \in {"none", "done"}
                           /\ \A t \in Threads : pc[t] = "idle"

(* The mailbox implements the record queue: delivery in order, at most     *)
(* once, loss only when a full mailbox is emptied.                         *)
PendingRecords ==
    [k \in 1..(Used \div Rec) |-> Contents[(k - 1) * Rec + 1][1]]
InHand ==
    IF Entry # <<>> /\ (wpc \in {"dispatch", "sending"} \/ pc[Worker] \in {"r_wrap", "r_release"})
    THEN <<EntryRecord>> ELSE <<>>
Records == INSTANCE RecordQueue
    WITH Capacity <- (Size - 1) \div Rec, pending <- PendingRecords, inHand <- InHand
ImplementsRecordQueue == Records!Spec

(* As long as the service answers, an accepted record does not stay in the *)
(* mailbox: it is retrieved (or lost to an overflow), unless the worker    *)
(* has been told to stop.                                                  *)
ServiceAnswers == []<>(wpc # "sending")
Waits(i) == \E k \in DOMAIN PendingRecords : PendingRecords[k] = i
RecordsLeave ==
    ServiceAnswers => \A i \in 1..MaxPosts : Waits(i) ~> (~ Waits(i) \/ shutdown)

(* As long as the service answers, RtlMailboxStopWorker returns and the    *)
(* driver can unload.                                                      *)
StopReturns == ServiceAnswers => (phase = "stopping" ~> phase = "destroyed")
=============================================================================
