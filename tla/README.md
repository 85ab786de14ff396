# TLA+ models of DeepShield

DeepShield is a Windows kernel driver that puts the running system under a thin
hypervisor in order to notice programs that use RDTSC to measure cache timing. This
directory holds TLA+ modules for the parts of the driver that keep state, TLC configurations that check them on small instances, and TLAPS
proofs of the statements that matter most. File names below are relative to
`src/src/` unless they say otherwise.

## 1. The system

    user mode     service threads           helper thread
                   | ioctl, close             ^ | events, shared buckets
    -------------- | ------------------------ | v -----------------------------
    guest kernel  shield control   channel (setup, send, teardown)
                   |    ^ power            ^
                   |    | callback         | abuse
                   |    |             mailbox worker -- false positive --> process tree
                   v                       ^                          (thread exclusion)
                  SmpRunPerProcessor       | ring buffer
    -------------- | --------------------- | ----------------------------------
    VMX root      launch / stop    exit handlers: RDTSC(P), CR access
                                   timing detector -- post -->

### Inventory

| part | state | operations | meets | what makes it correct |
|---|---|---|---|---|
| ring buffer (`ringbuf.c`) | Head, Tail, memory, lock | write, read, available bytes | every processor and the worker | FIFO, nothing read or written outside, lock let go |
| secure mailbox (`mailbox.c`) | ring, worker thread, shutdown event | post trace/notification, poll, retrieve, dispatch, start, stop, destroy | exit handlers, channel, process tree, unload | whole records, in order, at most once; drained; freed when unused |
| notification channel (`channel.c`, `ioctl.c`, `driver.c`) | gChannel, setup flag, rundown protection, bucket bitmap, events | setup, teardown, last close, send, acquire/release bucket | service threads, helper, mailbox worker | not freed in use, destroyed once, buckets and answers not mixed up |
| shield control (`shield.c`, `dshvm.c`, `ioctl.c`, `power.c`) | gHvm, contexts, started and suspended flags | start, stop, sleep, resume, unload | service threads, power manager, every processor | hypervisor everywhere or nowhere, memory outlives it, nothing leaks |
| launch (`hvm_create.c`, `hvm_launch.c`, `context.c`) | HVM, VCPUs, VMCS, stacks, Launched | create, start, stop, free | per-processor calls | a failed launch is undone |
| per-processor calls (`smp.c`) | counter, first error, DPCs | SmpRunPerProcessor, DpcRoutine | all of the above | returns last, reports errors |
| process monitor (`process.c`, `idxlist.c`) | process tree and its lock, exclusion lists, client entries | creation and deletion callbacks, enumeration, lookup, exclude thread | OS callbacks, mailbox worker, exit handlers | entries live while used, every process known |
| timing detector (`tsc.c`) | sibling slots per VCPU, hit counters | process event, find/update sibling, select candidate | exit handlers, mailbox, process monitor | no abuse missed or reported of an excluded thread |
| exit dispatch (`exits.c`, `hvm_exits.c`, `hvm_root.c`, `instr.c`) | CR4.TSD, quantum, emulated instructions | one handler per exit reason | hardware, detector | guest sees what the processor would do |
| root-mode heap (`mem.c`), which is also DriverEntry's nonpaged pool list (`dsdef.h:81`) | arena, blocks, free and used list | alloc, aligned alloc, split, align, free, coalesce, address translation | launch, detector | blocks tile the heap, regions are physically contiguous, nothing lost |
| root-mode mapping (`mmu.c`) | four page slots per processor, the system's page tables | set up, map, unmap, walk another address space, remove | exit handlers, detector | reads the guest's memory, changes nothing but its slots, gives slots back |
| locks (`spinlock.c`, `sync.c`) | owner words, counters | acquire, try, release; semaphore; barrier | root and guest mode | exclusion, barrier lets all through |
| VMCS set-up (`vmx.c`, `vmcs*.c`) | control fields, CR3, CR4 with mask and shadow | verify, adjust, initialise | launch | fields within what the MSRs allow |
| driver (`driver.c`) | device, link, keys, global flag word | entry, dispatch, unload | all | a refused load and an unload leave nothing behind |
| others | - | policy value, mitigation options, OS offsets, disassembler, self tests | - | - |

### What is hard about it

* Exit handlers run with interrupts off and may suspend, on their processor, a
  thread that is inside a critical section.
* The ring is tested without its lock, by writers, by the reader and by the worker.
* Nothing serialises the entry points of the driver: two threads of the service, or
  the service and the power manager, run through start, stop, setup and teardown at
  the same time.
* Rundown protection is taken after the pointer it protects has been read.
* A launch can fail on some processors and succeed on others.
* Calls that wait for all processors spin at DISPATCH_LEVEL.
* The worker, the teardown and the unload wait for a user-mode thread that may die.
* Exit handlers take the locks of the process monitor in root mode, and exempt threads
  by identifiers the system uses again.
* One bit, CR4.TSD, is wanted by the guest, by the detector and by the thread switch.
* The heap and the slots hand out memory whose physical address the processor is given.

`PROJECT.json` lists these as hazards, each with its line and its properties.

## 2. The modules

| module | models | built on |
|---|---|---|
| `ByteQueue` | what the ring promises (abstract) | - |
| `RingBuffer` | `ringbuf.c` | implements `ByteQueue` |
| `RecordQueue` | what the mailbox promises (abstract) | - |
| `Mailbox` | `mailbox.c` | extends `RingBuffer`, implements `RecordQueue` |
| `Channel` | `channel.c` with its callers in `ioctl.c`, `driver.c`, `mailbox.c` | - |
| `Shield` | `shield.c`, `dshvm.c`, `hvm_create.c`, `hvm_launch.c`, `smp.c`, `power.c`, and the entry points that start and stop the shield | - |
| `Allocator` | what the heap promises (abstract) | - |
| `Heap` | `mem.c` | implements `Allocator` |
| `Sync` | `sync.c` | - |
| `IdxList` | `idxlist.c`, as operators | - |
| `ProcessMonitor` | `process.c`, `spinlock.c`, the worker's and the exit handler's lookups | extends `IdxList` |
| `Driver` | `driver.c`: entry, detection, unload; `power.c` around them | extends `ProcessMonitor` |
| `Mmu` | `mmu.c`, and the two functions of `exits.c` and `tsc.c` that read the guest | - |
| `TimingDetector` | `tsc.c`: the table of siblings, as operators | - |
| `Vcpu` | `vmcs.c`, `vmcsinit.c`, `vmx.c`, `exits.c`, `hvm_exits.c`, `hvm_root.c`, `instr.c`, the registers in `hvm_launch.c` | extends `TimingDetector` |
| `MailboxProofs` (with the ring's), `ChannelProofs`, `ShieldProofs`, `SyncProofs`, `HeapProofs`, `DriverProofs`, `MmuProofs`, `VcpuProofs` | theorems | the module named |
| `MCMailbox`, `MCChannel`, `MCShield`, `MCHeap`, `MCDriver`, `MCMmu`, `MCVcpu` | instances for TLC | the module named |

Definitions whose comment starts with "Mutant" are plausible mistakes in one
operation. No specification uses them; put in the place of the operation they
imitate, each one makes the property it is paired with in `PROJECT.json` fail.

### RingBuffer

Pointers are offsets, so Base is 0 and End is `Size`. A call is one action per piece
that other processors can see: the unlocked test of Tail or Head against End
(`WriteRefused`/`WriteBegin`, `ReadRefused`/`ReadBegin`), the lock, the copy with the
advance of the pointer, the reset of a pointer that has landed on End exactly
(`WriteWrap`, `ReadWrap`: in between, the value End is visible without the lock), and
the release. `RtlRingBufferWrite` copies in one or two pieces; as the lock is held,
`WriteCopy` states their joint effect.

A ring that becomes full has Tail equal to Head, which reads as empty. `ByteQueue`
says so in the open: a write that does not leave a byte free empties the queue.

### Mailbox

Processors (`Writers`) post records of `Rec` bytes; one worker polls, reads and
dispatches. Byte k of record i is `<<i, k>>`, so a torn or shifted record would be
seen. A record's type is looked at by the dispatcher only and is chosen there: traces
and false positives are dealt with in the driver (`DispatchHere`), abuses are sent to
the service, and the worker blocks until it answers (`DispatchAbuse`). The record queue
it implements loses all waiting records when one more does not fit.

Two conditions come from how the code is entered. A VM exit on the worker's processor
suspends the worker (`Runs`). An exit handler posts only from exits of user-mode RDTSC
and of the FS base write in a context switch, neither of which can happen while the
guest on that processor holds the ring's lock at DISPATCH_LEVEL (`MayPost`); without it
the handler would spin for ever, which the mutant of `LockIsReleased` shows.

Initialization fails for want of the pool or of the thread. That
`ObReferenceObjectByHandle` fails with the handle of the thread just created is left
out: mailbox.c:76 asserts that it "can't fail with a valid kernel handle".

`LET_SWAP_CONTEXT` is defined in no build file; the semaphore it uses is left out, and
the worker wakes up by timeout or shutdown only. `StartHvm` and `StopHvm` are `Shield`
seen from here.

### Channel

Clients are threads of the service, with one action for each step of setup, teardown
and close; senders are threads inside `DsSendNotificationMessage`, from the evaluation
of the argument `gChannel` in the mailbox to the return. Rundown protection, the I/O
manager's rule that a handle is closed when it has no request in progress, and the
helper are external and modelled from their use. Dereferencing NULL or a freed channel
sets `fault`, and nothing runs after that. The identifier in a teardown request is
compared with the published channel's and may or may not match. Buckets are numbers
because the most significant free one is taken.

### Shield

A caller is a thread inside one of the five entry points; its `pc` follows
`DsCtlShieldControl`, `DsPowerChangeCallback` or `DriverUnload` into `DsLoadHvm` and
`DsUnloadHvm`. `SmpRunPerProcessor` raises the caller on one processor, queues the DPCs
and spins; `DpcCallback`, `DpcError` and `DpcCount` are the three steps of `DpcRoutine`, and
a processor at DISPATCH_LEVEL runs no foreign DPC. An HVM stands for the structure, its
VCPUs, stacks and VMCSs; contexts are separate because they are made and freed
separately. Which allocations and which processors fail is chosen freely, launches
within `LaunchFailures`. Registers and VMCS contents are not modelled: a processor is
in VMX operation under an HVM or it is not. `NT_ASSERT` is empty in a release build,
so the model goes on where one would fail.

### Heap

Every `Mem` function runs under the heap's lock and is one action. Blocks are named, as
in the code, by the offset of their first byte in the heap; `blk` holds the headers in
use, with both chains (`pnext`/`pprev` by place, `vnext`/`vprev` by list). Splitting,
the two ways of `HeappAlign` (`AlignByBlock`, `AlignByGift`), the four cases of
`HeappFree`, the rounding in `HeapAllocAligned` and both address translations are the
code's arithmetic. A search along a list (`FirstOn`) looks at the head and, after a block
that does not pass, at the next one; the blocks it looks at are the least set with both
(`LooksAt`). `HeapFree` takes the block from the pointer, `HeapFreeSecure` searches the
used list for the one around it; its zeroing is left out, like all contents. `given` is
what callers have been handed, each with the size and the alignment asked for: the state
of the abstract `Allocator`, which takes only addresses that are multiples of what the
request asks.

### Sync

One action per interlocked operation. A turnstile is a semaphore with a spin lock of
its own; a thread that waits inside one takes, looks and releases until there is a
token. The two halves of a round are mirror images and share their actions. Nothing in
the repository calls the barrier; the heap uses the spin lock.

### IdxList, ProcessMonitor and Driver

`ProcessMonitor` has contexts: threads (of the processes, of DriverEntry/DriverUnload,
the mailbox worker), which need a processor and an IRQL that lets them be switched in
and out, and processors in root mode. A context switch while the shield runs writes
FS_BASE and exits: `PmGetClientTrustLevel` takes `gProcessTreeLock` and the lock of the
entry's list at HIGH_LEVEL (`RootLookup` ...). A lock keeps the IRQL it found in itself,
and the release gives it to whoever releases. What a lock protects happens in the step
that takes it; every release is a step of its own, and so is every block that
`PmCleanupThreadExclusionList` removes (`DeleteBlock`). The tree is a set of entries, each
with its indexed list of exclusion blocks; a block has its owner counted in `blocks`.
A process id stands for one process with one thread, and may be used again with a new
`life`. Using an entry or a tree that is gone sets `fault` to whoever did it and ends
the behaviour. The creation callback runs in the new process's creator, the deletion
callback in the last thread that leaves. The list of `PmEnumerareProcesses` is taken
once, in any order, and processes come and go while it is worked off.

`IdxList` is the table of nodes with its links in both directions and its free list; a
table grows by a page. A walk (`Chain`, `PmIsThreadExcluded`) is the least set that has
its first node and, with a node, the next one.

`Driver` adds DriverEntry, each resource of which may be refused, the detection of the
processor and of other hypervisors, the requests that start and stop the shield (in full
in `Shield`) and DriverUnload. `res` is what the driver holds, `noted` what its flags and
local variables say of it. The failure path and DriverUnload give back one resource after
the other in the code's order (`Releases`), the first by the flags, the second mostly
without asking (`GivenBack`). `DsPowerChangeCallback` comes between any two steps as long
as it is registered (`SuspendShield`, `ResumeShield`); `late` is a history variable: what
runs was started by a resume after the stop of DriverUnload.

### Mmu

Memory is a set of pages of `Entries` units, a unit being a page table entry, so that
the self-map arithmetic (`MmuAddressToPte`) is the code's for any number of levels.
Slots are set up and taken away one at a time, each of which may fail. In root mode each
map, level of the walk, copy and unmap is an action; meanwhile the guest on the other
processors changes its tables (`Remaps`). Every processor has a TLB for the slots,
which it fills when it reads and which `invlpg` clears. `Span` is what an entry of a level
stands for, the shift of `MmuAddressToPti`. The named assumptions say what the system's page
tables look like when the driver is loaded (`PagesAssumption`) and where the exits read
(`ReadsAssumption`); they are stated with `EntryAt`, the entry a level of the system's
tables has for an address, and `Reach`, the pages a level of the guest's tables can lead to.

### TimingDetector and Vcpu

A sibling table in, a table and a verdict out: `TdProcessTscEvent` finds or creates the
sibling, places the address, counts, averages and assesses, in the code's order and
with its truncation to int. `Vcpu` calls it for every RDTSC that traps.

`Vcpu` is one processor from launch to stop. Control registers and fields are sets of
bits; a field is what the driver asks for, put through `VmxpNormalizeControls` with the
capability MSRs of the processor it is on, while the masks of CR4 come from the
processor DriverEntry ran on. An exit and its handler are one action, as root mode is
not interrupted. The actions are the guest's instructions that exit (CR3, CR4, CPUID,
XSETBV, INVD, MSRs, VMX instructions, VMCALL, RDTSC and RDTSCP), the thread switch, the worker's exemptions, launch and stop. The
posting of reports is `Mailbox`, the reading of guest code `Mmu`, the exemption list
`ProcessMonitor`: here they are choices. `asked` is what the guest has written to CR3 and
CR4 last, and whether it has written CR4 at all.

## 3. The runs

| run | instance | shows |
|---|---|---|
| `mailbox` | ring of 5 bytes, records of 2, 2 processors, 6 posts | ring: `TypeOK`, `LockDiscipline`, `ImplementsByteQueue`; mailbox: `RecordsSound`, `RetrieveSucceeds`, `FreedWhenUnused`, `ImplementsRecordQueue`; `RecordsLeave`, `StopReturns`, `LockIsReleased` |
| `channel` | 1 service thread, 2 senders, 2 buckets, 2 channels, 2 messages each, helper may die | `NotFreedUnderSender`, `BucketsAccounted`, `AnswersMatch`, `TeardownCompletes` |
| `channel_races` | 2 service threads, one of which sets up; 1 sender, 1 bucket, 2 channels | `OneDestroyer`, `NoChannelLeft` |
| `shield` | 3 processors, 1 caller, 3 HVMs, launches fail on all processors or on none, contexts on any | `ShieldSound`, `MemoryOutlivesVmx`, `AllOrNothing`, `NothingLeaks`, `RequestReturns` |
| `heap` | 4 pages of 8 bytes in scattered frames, headers of 2, minimal block 2, sizes 0, 1, 3, 8, alignments 4, 6, 8, 3 allocations at a time | `HeapSound`, `RegionsContiguous`, `ImplementsAllocator` |
| `sync` | 3 threads, any number of rounds | `Exclusion`, `AllMeet`, `NoStandstill` |
| `driver` | 2 processors, 2 process ids, one of them used twice, 2 reports, 2 list nodes to a page, sleep and resume at any time | `HoldersRunAtHigh`, `ListsSound`, `LockedUsersAreSafe`, `NothingStays`, `ExemptAreListed` |
| `mmu` | 2 levels of 4 entries, 2 processors with 4 slots each, 7 changes of the guest's tables | `SlotsSound`, `ReadsTheGuest`, `TablesKept` |
| `vcpu` | 2 threads, 3 RDTSC addresses, table of 2, 2 kinds of processor, 4 trapped RDTSC, 3 other operations, 5 steps in all | `EntryAllowed`, `GuestReadsBack`, `TimeStampsTrap`, `ExitsEnd`, `TableSound` |
| `channel_timeout` | 1 service thread, 1 sender, 1 message | the 3 second limit computed at channel.c:437 is not used |
| `shield_partial_launch` | 2 processors, any of them fails | memory is freed under processors that have launched |
| `tsc_distance` | two RDTSC addresses 2^IntBits apart | the assertion at tsc.c:548 can fail |

Invariants named ...`Sound` and `TablesKept`, `ExitsEnd`, `Exclusion`, `OneDestroyer` are conjunctions of
named parts, each with its own comment in the module: the type invariant and what the
component keeps at every step.

### Bounds

* Mailbox: 2 does not divide 5, so records cross the end at changing places; two
  records fit and the third overflows. Head lands on End with the fifth record, and
  six posts leave one more after that, or three after an overflow. The proofs about
  the ring cover all sizes and any number of threads.
* Channel: two channels give "the old one and its successor"; two messages reuse a
  bucket; two senders can find the same free bucket.
* Shield: with three processors one runs in line and two are waited for; three HVMs
  allow a failed start, a start and a restart. When they are used up no start succeeds
  any more.
* Heap: one page is the heap's own, three are left; three allocations put a block
  between two others, so that all four cases of a free, both ways of aligning and a
  split with and without a remainder happen. 6 is no power of two, 0 no size.
* Sync: with three threads one is last, one is slow and one is ahead. The state space
  is finite without a bound: calls are counted modulo 4.
* Driver: threads are pinned, DriverEntry, the worker and one process to one processor,
  the other process to the other; a list
  of two nodes to a page grows with the second exclusion. Identifiers used twice give
  reports that are older than the thread they name.
* Mmu: two levels make the walk and the self map; an instruction of three units and a
  sibling lie on one page or on two. The largest nest of mappings is two.
* Vcpu: CountLimit 1 lets a pair reach a verdict with the fourth event; a table of two
  is full with the third address or thread; MaxSteps bounds events and other operations
  together. Threads and page directories are interchangeable and the properties are
  invariants, so the symmetry is sound. Seven bits of int are enough for every
  difference of clock and address there; `tsc_distance` has five, and addresses 32 apart.

### Fairness

* `Mailbox`: exit handlers run to their end with interrupts off; the worker is a
  real-time priority thread; `RtlMailboxDestroy` continues once the thread is gone.
  Nothing makes the service answer: `RecordsLeave` and `StopReturns` assume it does
  (`ServiceAnswers`).
* `Channel`: threads inside the driver go on, the helper answers while it lives. Nobody
  has to issue a request. `TeardownCompletes` is about behaviours in which the helper
  stays alive; `channel_timeout` is the other case.
* `Shield`: callers go on and processors run their DPCs when they are free. With one
  caller that is enough for `RequestReturns`.
* `Sync` states no fairness. The spin lock of sync.c is a test and set without queue
  (sync.c:18-25), and a semaphore is polled under it: threads that poll a closed
  turnstile may keep the one that opens it out for ever, so that no round is sure to
  end. What holds without fairness is `NoStandstill`: at no moment is every thread
  waiting for something that only another one could change.

### Where a run does not check deadlock

* `channel`, `channel_timeout`: a dead helper leaves its sender, and the teardown behind it, waiting.
* `driver`, `mmu`: the behaviour ends with the unload, or with a fault.
* `vcpu`, `tsc_distance`: the bounds on events and operations end it.

## 4. The proofs

All theorems are checked by TLAPS for every value of the constants that meets the
named assumptions of the modules.

`MailboxProofs`, the ring (assumptions: `Size` and `MaxLen` positive, `NoThread` is not a thread)

* `TypeCorrect`: pointers stay in 0..Size and nothing outside the ring is touched.
* `LockDisciplineHolds`: the lock has one holder, and a pointer is at End exactly while
  its holder is about to reset it.
* `RingImplementsByteQueue`: every behaviour is one of the FIFO byte queue.

The inductive invariant is `RingInv`: the type invariant, `LockDiscipline` and
`Arguments` (a call under way has the arguments it was given). The type invariant
alone is not inductive: after `w_copy` the new Tail is in range only because both
pointers were below End when the lock was taken, which is what `LockDiscipline` says.
For the refinement, `WriteCopyPuts` and `ReadCopyGets` show that the copy is the
queue's step (lemmas on the distance around the ring: `DistanceGrows`, `UsedCells`,
`FreeCells`, `DistanceShrinks`), and every other step leaves `Contents` alone
(`SamePointersSameContents`), because a pointer at End is one at Base.

`MailboxProofs`, the mailbox (in addition: a record is shorter than the ring, there is one worker and it is no processor)

* `MailboxUsesRing`: every behaviour of the mailbox is one of the ring, so the ring's
  theorems hold of it.
* `NoUseAfterFree`: nobody is in the ring when its memory is freed.
* `RetrieveNeverFails`: the worker's read is never refused by the unlocked test.
* `RecordsStayWhole`: the bytes in the ring are whole records, and the dispatcher gets
  one of them or nothing.
* `MailboxImplementsRecordQueue`: every behaviour is one of the record queue.

The inductive invariant is `MailInv`: the ring's, `Roles` (which steps processors and
worker can be at in each phase of the mailbox's life), `Holding` (what a call under way
has in its hands) and `Queued` (the bytes are the records, in order). The records in
the ring are `Contents` cut into pieces of one length; `PutPacks` and `GetUnpacks` show
that a copy adds or takes one piece. They rest on lemmas about products and quotients,
because the prover does no arithmetic with two unknown factors: `QuotientIsUnique`,
`ByteOfRecord`, `RecordOfByte`.

`ChannelProofs` (assumptions: finitely many senders and buckets, bounds positive)

* `RaceHasOneWinner`, `BucketsHaveOneOwner`, `LastCloseTakesTheChannel`: `OneDestroyer`,
  `BucketsAccounted` and `NoChannelLeft` for any number of clients that tear down and
  close at the same time and any number of senders, if setup requests come from one
  thread. With two of them the code leaks a channel (section 5). Inductive invariant
  `RacesInv`; the third adds `Kept`: a channel that is there is published or somebody's
  to destroy, and the last close goes for the published one.

`ShieldProofs` (assumption: a finite set of processors, some HVMs)

* `SmpCallsAreSound`: `SmpRunPerProcessor` returns after the last callback and with
  every error, for any number of callers at once (`SmpInv`: the counter is the number
  of DPCs that have ended).

What requests do with the HVM is left to the run: it holds of one caller at a time and of
launches that fail on all processors or on none, neither of which the code sees to
(`shield_partial_launch`, section 5).

`SyncProofs` (assumption: a finite, non-empty set of threads)

* `SyncExcludes`, `BarrierMeets`, `BarrierGoesOn` (`NoStandstill`), from `SInv`: who holds
  which lock, where the token is and how far apart the threads are. `AllMeet` alone says nothing about the thread that
  counts last; the invariant names the call that is being released.

`HeapProofs` (assumptions: `HeapCreate` asks for at least two pages, the code for 16; a
header and the smallest free block fit into a page; an alignment that is a power of two
divides the page size; the system gives each page of the arena a frame of its own)

* `HeapIsSound`: `HeapSound`. The blocks tile the heap, each is on the list of its
  state, no two free ones are neighbours, and the used ones are the allocations. How long
  and how aligned an allocation is, is said by `HeapIsAllocator`.
* `RegionsAreContiguous`: `RegionsContiguous`, the promise VMXON and VMCS regions rely on:
  what was asked for with the alignment of a page, and is no longer than one, is one run.
* `HeapIsAllocator`: every behaviour is one of `Allocator`: an allocation lies in the arena,
  is as long and as aligned as its request asks, and overlaps no other.
* `RefusalsAreReal`: an allocation is refused only when no free block fits it.
* `SecureFreesTheOwner`: `MemFreeSecure` of any byte of an allocation frees that one.

The inductive invariant is `IInv`, and in it `HeapOK`, for any number and any sequence
of allocations. `HeapSound` alone says too little about the lists and about blocks that
are no neighbours. `Lists` says which blocks are on which list, that the links agree both
ways, and that a walk from the head meets them all (`Reaches`); `Placed` says that
neighbours know of each other and that any two blocks lie apart (`Apart`). The two are
kept separately, because linking moves nothing and cutting or merging concerns the
neighbours only: `ListWithout` and `ListWith` on one side, `CutPlaced`, `MergePlaced`
and `MovePlaced` on the other, joined for each function in `SplitSound`, `AlignSound` and
`FreeSound`. `HeappFree` has two free neighbours for a moment (`NoPairsBut`). That a
search ends, and on a block that passes if there is one, is shown without induction: the
next-pointers of a finite list without a passing block would be one to one and miss the
head (`SearchEnds`, `SearchFinds`). Quotients and remainders are dealt with by lemmas
about multiples, as in the mailbox.

`DriverProofs` (assumptions: finitely many processes; threads, processors and the name of
the tree's lock are different things; NULL is no exclusion block; a page has room for two
nodes)

* `LocksKeepIrql`: `HoldersRunAtHigh`. From `LockInv`: every context is in one of six
  modes (outside the locks, waiting for the first, holding the tree's, waiting for a
  list's under it, holding both, holding a list's alone), a lock's owner and saved IRQL
  are what the owner's mode says, and so is the IRQL of the processor it is on. A step
  of one context leaves the modes of the others alone (`Apart`), so that one lemma for
  each kind of step (`RaiseStep`, `TakeTreeStep`, `TakeListStep`, `ReleaseListStep`,
  `ReleaseTreeStep`, `LeaveStep`, `SwitchStep`) is all there is to show.
* `LockedUsersFindTheTree`: `LockedUsersAreSafe`. From `StageInv`: what there is of the
  tree in each stage of DriverEntry and DriverUnload, and who may be using it. It needs
  `LockInv`, because an entry is deleted under an exit handler unless the lock excludes.
  A resume during DriverUnload is an exception of the statement (`late`), not of the
  model: the code has it (section 5), and `late` is true of nothing else.
* `NothingIsLeft`: `NothingStays`, from `LeftInv`: what the driver holds in each stage, what
  its flags say of it, and how far giving back has come.
* `ListsAreSound`: `ListsSound`, from `ListInv`. A table is arranged (`Arranged`) when its
  nodes but the head are divided into those in use and the free ones, a walk from the
  head or from `NodeFreeList` meets exactly those (`Listed`), no two nodes lead to the
  same one, and only a node in use has a block, with the node's index in it. That
  `InsertHeadIdxList`, the extension included, and `RemoveHeadIdxList` keep a table
  arranged, and that the walk by UniqueId finds the blocks in use and no other, are
  lemmas about the operators (`InsertArranged`, `RemoveHeadArranged`, `ExcludedAreFound`,
  `FoundAreExcluded`). Around them `ListInv` counts: the blocks are the nodes in use of
  all tables, the one the worker has, and the lost (`Counts`); a block answers a report
  of its process (`Reported`); a process without an entry has an empty table.
* `ExemptAreExcluded`: `ExemptAreListed`, from `ListInv` and `ExemptInv`: a processor
  trusts the thread it runs (`Trusted`) from the moment the exit handler has found it
  in the list until its process cleans that list up. It needs that a process that does
  not exist runs nowhere (`Alive`), so that an id used again inherits nothing, and that
  nobody is exempt while the shield is down (`Unshielded`), when DriverUnload clears
  lists of processes that run on.

`VcpuProofs` (assumptions: capabilities a processor can report; allowed-0 within allowed-1,
VMXE fixed, TSD free; no thread hashes to 0, addresses are not 0)

* `ExitsAreFinished`: `ExitsEnd`, from `ExitInv`.
* `EntriesAreAllowed`, `RegistersAreTheGuests`, `NoThreadEscapes`: `EntryAllowed`,
  `GuestReadsBack` and `TimeStampsTrap`, from `RegInv`, under the hypothesis
  `Homogeneous`: processors that `HvmInitialize` finds alike agree on the fixed bits of
  CR4. The code compares their control capabilities and not those bits (section 5).
  `GuestReadsBack` says nothing of a TSD that was set before the launch until the guest
  has written CR4: the code hides it (section 5).
* `TableIsSound`: `TableSound`, from `TypeInv` and `TableInv`, for any number of slots,
  threads and addresses under the hypothesis `NearAddresses`: the addresses lie within
  the range of an int of each other. `tsc_distance` is the counterexample without it.
  A pair with a time difference is judged by the time its first instruction has reached
  the limit (`PairsAreJudged`); that every assessment ends is not claimed (section 5).
  `CandidatesAreClose`: under it the assertion at tsc.c:548 holds. An entry is sound
  (`EntryOK`) when an After that is missing has counted nothing and an entry with a
  thread's hash has a Before; without these a swap could lose or double a count. The
  counts are compared with the number of events through the set of all that has been
  counted (`CountedIn`), to which an event adds one element at most; that the search for
  a slot always finds one rests on the least element of a set of naturals (`Least`).

`MmuProofs` (assumptions: what the system gives the driver. Each slot has an address and
an entry of its own, with nothing mapped there at first; no slot is for a page table of the
path to another slot or for the self map, and no process changes those tables; a processor
has at least two slots; a page is not shorter than an instruction; what an exit reads does
not lie behind an entry of a slot, as nobody else gets those addresses)

* `SlotsAreSound`: `SlotsSound`, for any number of processors, slots, levels and entries.
* `TablesAreKept`: `TablesKept`.
* `BytesAreTheGuests`: `ReadsTheGuest`, for any page tables of the guest and any changes it
  makes to them.

The first two rest on `Inv`: `Types`, `Exits` (an exit has at most two pages to read and
to give back, and one table besides) and `Phases` (what is mapped in each phase of the
set-up, and that the slots of a processor are in use exactly for what its exit holds,
`Accounted`). `Types` has `Built` in it: every entry but those of slots and of the guest is
the system's. That is what makes `MmuAddressToPte` right: the self map shifts the walk by a
level (`SelfMapPath`), so that the pointer for a page is the entry the walk of that page
ends with (`PointerIs`), and the walk to a table of a slot cannot be changed by the entries
that are written (`BuiltPath`). `SlotsSound` alone says nothing of where a pointer leads.

`GuestInv` adds what the walk has found: at each step the page is the one the guest's tables
have at that level for the address that is wanted (`Track`), the rest of what is to be read
is as the two functions left it (`Shape`), each byte read so far is the guest's (`Bytes`),
and no TLB has a page for a slot that the tables do not have (`TlbOk`). A write to a slot
changes none of that for another processor (`WalkStable`, `GuestKept`). The offsets at
which an instruction is read on one page or on two are the ones of its bytes in every
case (`OnePageRight`, `FirstPageRight`, `SecondPageRight`). A walk is a recursion over
the levels; what holds at the top and passes down is shown to hold at all of them by the
least level at which it fails (`FromTop`).

### Model-checked only

All liveness properties: they are out of the prover's reach, like ENABLED.

Six safety properties, because what a theorem would assume is what the code does not
see to, so that it would be about another program: `ShieldSound`, `MemoryOutlivesVmx`,
`AllOrNothing` and `NothingLeaks` (one caller at a time, launches that fail everywhere or
nowhere), `NotFreedUnderSender` and `AnswersMatch` (one thread of the service). Their
runs show that the paths through one request, with all its failures but those, are
right.

Every other safety property that a run checks is a theorem. Three have a hypothesis of
this kind as well, named where they are told of: setup requests from one thread
(`ChannelProofs`), processors alike and addresses close together (`VcpuProofs`).

## 5. What the code does not keep

Each of these has a run that ends in a counterexample, and an entry under findings.

1. `channel_timeout`: the wait is given NULL instead of the limit computed for it.
2. `shield_partial_launch`: `HvmStart` sets Launched only if all processors have
   launched, and `HvmStop` does nothing unless it is set.
3. `tsc_distance`: addresses are compared as int, the distance is then taken in full.

### Other behaviours

The models have these too. They have the cause of one of the above, or the sources say
too little about what should happen.

Ring and mailbox

* A write that does not fit stores the part that fits and returns success, and the ring
  then reads as empty; the comment at ringbuf.c:88 speaks of making room.
* A write that tests Tail while another processor has it at End is refused
  (`WriteRefused`) and its record is lost, although there is room (ringbuf.c:79).
* An overflow between the worker's test and its read makes it dispatch an entry of type
  MailboxEmpty (mailbox.c:209).

Channel

* `gChannel` is read (mailbox.c:200) before the reference is taken (channel.c:424), and
  may be NULL or freed by then.
* With two service threads, a setup can reopen the gate while the old channel is still
  being destroyed (ioctl.c:239 clears the flag first); a sender with the old channel
  gets in and is freed under. `NotFreedUnderSender` fails in the instance of
  `channel_races`.
* A teardown can take another channel than the one it has compared (ioctl.c:226-230),
  when a teardown and a setup fit in between. Two setups at once leak a channel
  (ioctl.c:169). A setup that fails half-way signals events that do not exist
  (channel.c:299).

Shield

* Two starts at once both initialize; the second overwrites gHvm (ioctl.c:97). Of two
  stops at once (the service's and the sleep callback's) the second meets a NULL gHvm
  (dshvm.c:218). Two callers of `SmpRunPerProcessor` on two processors each spin at
  DISPATCH_LEVEL for a DPC on the other (smp.c:80).
* A stop while suspended changes nothing, and the next resume starts the shield
  (power.c:60).

Heap

* The branch of `HeapAllocAligned` for an address that is aligned already is never
  taken, as the aligned address is always the next one. `MemDone` leaves `gHeap` behind.

Process monitor and driver

* DriverUnload stops the shield first (driver.c:270) and removes the power callback after
  the mappings and the process monitor (driver.c:292). A resume in between with
  DSH_GFL_SHIELD_SUSPENDED set (power.c:59) starts the hypervisor again: its exits find no
  tree, or map through slots that are gone, nobody stops it, and the mailbox and the pool
  go while it runs. `LockedUsersAreSafe`, `NothingStays` and `ExemptAreListed` have this as
  their exception, `late`. The other order would do without it.
* The worker looks an entry up without the lock (mailbox.c:182) and may use it after it
  has been freed, or find no tree at unload (driver.c:286): the fault `"worker"`.
* `UniqueId` is stored and tested after the list's lock is released (process.c:823-826).
  A block that is inserted between the clean-up of a list and the deletion of its entry
  is lost; the reference `PsLookupThreadByThreadId` takes is never given back.
* A process that ends while the enumeration reports it leaves an entry behind; the last
  process of the snapshot is not reported (process.c:1104). When the enumeration fails,
  the tree is deleted before the callback is removed (process.c:1156).
* Identifiers are used again: a report about a thread that has ended exempts the next
  one with its id.
* When the pool list is refused DriverEntry returns without WPP_CLEANUP (driver.c:127).
  It succeeds when `MmuInitialize` fails, and nothing checks
  DSH_GFL_SHIELD_INITIALIZED before the shield is started.
* `DsCheckMicrosoftHyperV` compares CPUID registers with multi-character constants in
  the other byte order, so that Hyper-V is never recognised.

Mapping

* When the array of slots cannot be allocated `MmuInitialize` reports success, and the
  first mapping dereferences NULL. An entry that maps a large page ends the walk.
* Code of a sibling on two pages: the second part is copied over the first
  (tsc.c:566-567).

Virtual processor and detector

* CPUID of a hypervisor leaf never returns the leaf's own values: the answer becomes the
  next leaf. The test of the x87 bit in XSETBV is inverted. HOST_CR4.OSXSAVE, once
  cleared, is never set again, as it is read back from the CPUID of root mode.
* The fixed bits of CR4 come from the processor that ran DriverEntry only. Stop drops a
  TSD the guest has set.
* A guest that has CR4.TSD set at the launch reads it as 0 until it writes CR4, as the read
  shadow starts as 0 (vmcs.c:87), although the shadow is there to "Let the guest read what
  was set previously" (vmcs.c:257).
* An orphan (tsc.c:336) is never judged, and neither is a pair of which only the second
  instruction is hit again, since it is the hits of the first that count (tsc.c:349): both
  are assessed, and trapped, for as long as their thread goes on.
* The guest that sets TSD itself has its RDTSC emulated all the same.
* The thread switch is recognised by the write to FS_BASE; a switch without one keeps
  the TSD of the thread before.
* Time differences are truncated to int; the oldest orphan is recycled whichever thread
  it belongs to.

## 6. Not modelled

* The disassembler (vendored), assembly stubs, register access, OS structure offsets,
  the load mode policy (one registry value), the mitigation options (a report) and the
  self tests have no control worth a module; the header files that describe the
  hardware (`vmx.h`, `x86.h`) are layouts.
* Each state flag is a variable of its own; the unprotected read-modify-writes of the
  shared word gStateFlags are not modelled.
* `DsTryToAcquireSpinLock`, `DsTestSpinLock`, `PmGetExemptedProcessList` and the
  LET_SWAP_CONTEXT variant have no caller or are in no build.
* Debug register, port and INVLPG emulation: the configuration asks for no such exits.
  CR0, segments, descriptor tables and the MSR bitmap's contents are copied values.

## 7. Plan

Done: all the components of section 1 but those of section 6; the proofs of section 4.
What is left, and why:

1. The liveness properties (`RecordsLeave`, `StopReturns`, `LockIsReleased`,
   `TeardownCompletes` and `RequestReturns`) for any number of processors and
   threads: by hand, or with a prover that does fairness.
2. Two hazards without a property: the read of `gChannel` before the reference is taken
   (mailbox.c:200), and the unprotected updates of `gStateFlags` (ioctl.c:109). Both go
   wrong in ways the sources say nothing about.
3. Theorems about the requests to the shield, and about senders while channels come and go,
   for a program in which the entry points are serialised and a launch that fails in part
   is undone.
