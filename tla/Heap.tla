-------------------------------- MODULE Heap --------------------------------
(***************************************************************************)
(* The driver's own heap, src/src/mem.c: an arena of locked pages, a heap  *)
(* of blocks in it, and the Mem* functions that the rest of the driver     *)
(* calls (VMXON and VMCS regions, VCPU stacks, the MSR bitmap, the tables  *)
(* of the detector).                                                       *)
(*                                                                         *)
(* Every operation runs from SpinLock( &heap->lock ) to SpinUnlock, and is *)
(* one step here; that the lock excludes is the subject of Sync.  Blocks   *)
(* are named as in the code, by the offset of their first user byte: the   *)
(* HEAP_BLOCK header lies just below it.  blk has only the headers that    *)
(* are in use; a header that a neighbour has swallowed is memory of that   *)
(* neighbour, and reading it would be an evaluation error.                 *)
(***************************************************************************)
EXTENDS Integers, FiniteSets

CONSTANTS
    PageSize,       \* PAGE_SIZE
    Pages,          \* pages asked of MemInit
    MinPages,       \* the 16 of HeapCreate
    HDR,            \* sizeof( HEAP_BLOCK )
    MINFREE,        \* MINIMAL_FREE_BLOCK_SIZE
    Sizes,          \* numberOfBytes the callers pass, 0 among them
    Alignments,     \* alignment they pass to MemAllocAligned
    FrameLists,     \* page frames, by page, that the system may find for the arena
    MaxAllocs       \* bound on the allocations outstanding at a time

ASSUME PageAssumption ==
    PageSize \in Nat \ {0} /\ Pages \in Nat \ {0} /\ MinPages \in Nat \ {0, 1}
ASSUME BlockAssumption ==
    HDR \in Nat \ {0} /\ MINFREE \in Nat \ {0} /\ HDR + MINFREE <= PageSize
ASSUME RequestAssumption == Sizes \subseteq Nat /\ Alignments \subseteq Nat
ASSUME FrameAssumption ==
    \A f \in FrameLists :
        /\ f \in [0 .. Pages - 1 -> Nat]
        /\ \A i, j \in 0 .. Pages - 1 : f[i] = f[j] => i = j
ASSUME MaxAllocsAssumption == MaxAllocs \in Nat

NULL == 0
FREE == "free"      \* HEAP_BLOCK_FREE
USED == "used"      \* HEAP_BLOCK_USED

VARIABLES
    mdl,        \* gMemoryArena.Mdl: the frames of its pages by index, or <<>>
    mapped,     \* gMemoryArena.BaseAddress is set
    heap,       \* gHeap: memory, size, freeList, usedList and the headers; or <<>>
    given       \* given[p]: size and alignment asked for at address p, not freed yet

vars == <<mdl, mapped, heap, given>>

(* Arena addresses count from gMemoryArena.BaseAddress, which is page      *)
(* aligned; 0 is its first byte and never a pointer that is handed out.    *)
ArenaBytes == Pages * PageSize
START == HDR

POINTER(h, x) == h.memory + x
OFFSET(h, p) == p - h.memory
Block(state, size, pprev, pnext) ==
    [state |-> state, size |-> size, pprev |-> pprev, pnext |-> pnext,
     vprev |-> 0, vnext |-> 0]
Write(h, x, b) ==
    [h EXCEPT !.blk = [y \in DOMAIN h.blk \cup {x} |-> IF y = x THEN b ELSE h.blk[y]]]
Forget(h, X) == [h EXCEPT !.blk = [y \in DOMAIN h.blk \ X |-> h.blk[y]]]
SetPprev(h, x, v) == IF x # 0 THEN [h EXCEPT !.blk[x].pprev = v] ELSE h
SetVprev(h, x, v) == IF x # 0 THEN [h EXCEPT !.blk[x].vprev = v] ELSE h
SetVnext(h, x, v) == IF x # 0 THEN [h EXCEPT !.blk[x].vnext = v] ELSE h

HeapCreateAt(memory, size) ==
    [memory |-> memory, size |-> size, freeList |-> START, usedList |-> 0,
     blk |-> [x \in {START} |-> Block(FREE, size - HDR, 0, 0)]]

(* Mutant: the heap starts right behind its header.                        *)
HeapCreateUnaligned == HeapCreateAt(HDR, ArenaBytes - HDR)

HeapCreate == HeapCreateAt(PageSize, ArenaBytes - PageSize)

HeappBlockUnlink(h, list, x) ==
    LET b == h.blk[x]
        g == SetVnext(SetVprev(h, b.vnext, b.vprev), b.vprev, b.vnext)
    IN  [g EXCEPT ![list] = IF @ = x THEN b.vnext ELSE @]

HeappBlockLink(h, list, x) ==
    LET g == [h EXCEPT !.blk[x].vnext = h[list], !.blk[x].vprev = 0]
    IN  [SetVprev(g, h[list], x) EXCEPT ![list] = x]

(* A block of n bytes at x, the rest of it a new free block if it is worth *)
(* one; x goes from the free list to the used list.                        *)
HeappSplit(h, x, n) ==
    LET b == h.blk[x]
        new == x + n + HDR
        cut == Write(h, new, Block(FREE, b.size - n - HDR, x, b.pnext))
        relinked == SetPprev(HeappBlockLink(cut, "freeList", new), b.pnext, new)
        g == IF b.size >= n + HDR + MINFREE
             THEN [relinked EXCEPT !.blk[x].pnext = new, !.blk[x].size = n]
             ELSE h
        freed == HeappBlockUnlink(g, "freeList", x)
    IN  HeappBlockLink([freed EXCEPT !.blk[x].state = USED], "usedList", x)

(* The free block at x is cut so that one starts at the aligned offset y;  *)
(* a gap too small for a block goes to the block before x.                 *)
AlignByBlock(h, x, y) ==
    LET b == h.blk[x]
        cut == Write(h, y, Block(FREE, b.size - (y - x), x, b.pnext))
        g == SetPprev(HeappBlockLink(cut, "freeList", y), b.pnext, y)
    IN  [g EXCEPT !.blk[x].pnext = y, !.blk[x].size = y - x - HDR]

AlignByGift(h, x, y) ==
    LET b == h.blk[x]
        g == [SetPprev(h, b.pnext, y) EXCEPT !.blk[b.pprev].pnext = y]
        out == Forget(HeappBlockUnlink(g, "freeList", x), {x})
        moved == Write(out, y, [b EXCEPT !.size = b.size - (y - x)])
    IN  HeappBlockLink([moved EXCEPT !.blk[b.pprev].size = @ + (y - x)], "freeList", y)
HeappAlign(h, x, y) ==
    IF y - x >= HDR + MINFREE THEN AlignByBlock(h, x, y) ELSE AlignByGift(h, x, y)

(* HeapAllocAligned always moves on to the next multiple of the alignment, *)
(* and further when there is no block before x to take a small gap.        *)
Steps(x, al, gap) ==
    CHOOSE k \in 0 .. HDR + MINFREE :
        /\ gap + k * al >= HDR + MINFREE
        /\ \A j \in 0 .. k - 1 : gap + j * al < HDR + MINFREE
AlignedOffset(h, x, al) ==
    LET y == (x \div al + 1) * al
    IN  IF h.blk[x].pprev # 0 THEN y ELSE y + Steps(x, al, y - x) * al

Fits(h, x, n) == h.blk[x].size >= n

(* Mutant: the gap in front of the aligned address is not counted.         *)
FitsAlignedNoGap(h, x, n, al) == Fits(h, x, n)

FitsAligned(h, x, n, al) ==
    Fits(h, x, n) /\ h.blk[x].size >= AlignedOffset(h, x, al) - x + n

(* A search of a list looks at its head and, after a block that does not   *)
(* pass, at the next one: the least set with both.  It ends with the first *)
(* block that passes, or with 0.                                           *)
LooksAt(h, list, passing) ==
    LET nodes == DOMAIN h.blk \cup {0}
        walks == {C \in SUBSET nodes :
                    /\ h[list] \in C
                    /\ \A x \in C \ (passing \cup {0}) : h.blk[x].vnext \in C}
    IN  {x \in nodes : \A C \in walks : x \in C}
FirstOn(h, list, passing) ==
    CHOOSE x \in LooksAt(h, list, passing) : x \in passing \cup {0}
FirstFree(h, passing) == FirstOn(h, "freeList", passing)

(***************************************************************************)
(* HeappFree: c becomes free and merges with the free blocks around it.    *)
(***************************************************************************)
Valid(h, c) ==
    /\ h.blk[c].state = USED
    /\ h.blk[c].pprev < c
    /\ h.blk[c].pnext < h.size
    /\ h.blk[c].size < h.size
    /\ h.blk[c].size # 0

IsFree(h, x) == x # 0 /\ h.blk[x].state = FREE

MarkFree(h, c) == HeappBlockLink([h EXCEPT !.blk[c].state = FREE], "freeList", c)
AbsorbNext(h, c, n) ==
    LET b == h.blk[n]
        g == SetPprev(HeappBlockUnlink(h, "freeList", n), b.pnext, c)
    IN  Forget([g EXCEPT !.blk[c].size = @ + HDR + b.size, !.blk[c].pnext = b.pnext], {n})

(* Mutant: the header of the block absorbed is lost.                       *)
AbsorbIntoNoHeader(h, p, c) ==
    LET b == h.blk[c]
    IN  Forget([SetPprev(h, b.pnext, p) EXCEPT !.blk[p].size = @ + b.size,
                                               !.blk[p].pnext = b.pnext], {c})

AbsorbInto(h, p, c) ==
    LET b == h.blk[c]
    IN  Forget([SetPprev(h, b.pnext, p) EXCEPT !.blk[p].size = @ + HDR + b.size,
                                               !.blk[p].pnext = b.pnext], {c})

HeappFree(h, c) ==
    LET p == h.blk[c].pprev
        n == h.blk[c].pnext
        g == HeappBlockUnlink(h, "usedList", c)
        merged == IF IsFree(h, n) THEN AbsorbNext(g, c, n) ELSE g
    IN  IF ~Valid(h, c) THEN h
        ELSE IF IsFree(h, p) THEN AbsorbInto(merged, p, c)
        ELSE MarkFree(merged, c)

(***************************************************************************)
(* The arena.                                                              *)
(***************************************************************************)
VirtualToPhysical(v) ==
    IF v \in 0 .. ArenaBytes - 1 THEN mdl[v \div PageSize] * PageSize + (v % PageSize) ELSE 0
PhysicalToVirtual(pa) ==
    LET hits == {i \in 0 .. Pages - 1 : mdl[i] = pa \div PageSize}
    IN  IF hits = {} THEN NULL
        ELSE (CHOOSE i \in hits : \A j \in hits : i <= j) * PageSize + (pa % PageSize)

Init == mdl = <<>> /\ mapped = FALSE /\ heap = <<>> /\ given = <<>>

Down == heap = <<>>

(* MemInit: too few pages, no mapping, no protection: the arena is undone. *)
MemInit ==
    /\ Down
    /\ \/ UNCHANGED vars
       \/ /\ Pages >= MinPages
          /\ mdl' \in FrameLists
          /\ mapped' = TRUE
          /\ heap' = HeapCreate
          /\ given' = <<>>

MemDone ==
    /\ ~Down
    /\ mdl' = <<>> /\ mapped' = FALSE /\ heap' = <<>> /\ given' = <<>>

Asked(n, al) == [size |-> n, align |-> al]
Give(p, n, al) ==
    given' = [q \in DOMAIN given \cup {p} |-> IF q = p THEN Asked(n, al) ELSE given[q]]

MayAsk == ~Down /\ Cardinality(DOMAIN given) < MaxAllocs

(* MemAlloc and MemAllocArray (whose two factors are one number here).     *)
MemAlloc(n) ==
    /\ MayAsk /\ n # 0
    /\ LET x == FirstFree(heap, {y \in DOMAIN heap.blk : Fits(heap, y, n)})
       IN  /\ x # 0
           /\ heap' = HeappSplit(heap, x, n)
           /\ Give(POINTER(heap, x), n, 1)
    /\ UNCHANGED <<mdl, mapped>>

PowerOfTwo(al) == al # 0 /\ \E k \in 0 .. al : al = 2^k

(* The callers align to 16 bytes or to a page, never to more than a page.  *)
ASSUME AlignmentAssumption == \A al \in Alignments : PowerOfTwo(al) => PageSize % al = 0

MemAllocAligned(n, al) ==
    /\ MayAsk /\ n # 0 /\ PowerOfTwo(al)
    /\ LET x == FirstFree(heap, {y \in DOMAIN heap.blk : FitsAligned(heap, y, n, al)})
           y == AlignedOffset(heap, x, al)
       IN  /\ x # 0
           /\ heap' = HeappSplit(HeappAlign(heap, x, y), y, n)
           /\ Give(POINTER(heap, y), n, al)
    /\ UNCHANGED <<mdl, mapped>>

(* A request that is refused: the caller is handed NULL.                   *)
MemAllocFails(n, al) ==
    /\ MayAsk
    /\ \/ n = 0
       \/ ~PowerOfTwo(al)
       \/ FirstFree(heap, {y \in DOMAIN heap.blk : FitsAligned(heap, y, n, al)}) = 0
    /\ UNCHANGED vars

TakeBack(p) == given' = [q \in DOMAIN given \ {p} |-> given[q]]

HeappContains(h, p) == p >= h.memory + HDR /\ p < h.memory + h.size

(* MemFree of a pointer that was handed out.                               *)
MemFree(p) ==
    /\ ~Down
    /\ HeappContains(heap, p)
    /\ heap' = HeappFree(heap, OFFSET(heap, p))
    /\ TakeBack(p)
    /\ UNCHANGED <<mdl, mapped>>

(* MemFreeSecure of a pointer to the first byte, or to any other: the used *)
(* list is searched for the block around it.                               *)
Around(h, x) == {y \in DOMAIN h.blk : x >= y /\ x < y + h.blk[y].size}
MemFreeSecure(p) ==
    /\ ~Down
    /\ HeappContains(heap, p)
    /\ LET y == FirstOn(heap, "usedList", Around(heap, OFFSET(heap, p)))
       IN  /\ y # 0
           /\ heap' = HeappFree(heap, y)
           /\ TakeBack(POINTER(heap, y))
    /\ UNCHANGED <<mdl, mapped>>

Next ==
    \/ MemInit
    \/ MemDone
    \/ \E n \in Sizes : MemAlloc(n)
    \/ \E n \in Sizes, al \in Alignments : MemAllocAligned(n, al)
    \/ \E n \in Sizes, al \in Alignments : MemAllocFails(n, al)
    \/ \E p \in DOMAIN given : MemFree(p)
    \/ \E p \in DOMAIN given : \E i \in {0, given[p].size - 1} : MemFreeSecure(p + i)

Spec == Init /\ [][Next]_vars
-----------------------------------------------------------------------------
Live == DOMAIN heap.blk

TypeOK ==
    /\ mdl = <<>> \/ mdl \in FrameLists
    /\ mapped \in BOOLEAN
    /\ given # <<>> => ~Down
    /\ ~Down =>
         /\ START \in Live /\ Live \subseteq START .. heap.size
         /\ {heap.freeList, heap.usedList} \subseteq Live \cup {0}
         /\ \A x \in Live :
              /\ heap.blk[x].state \in {FREE, USED}
              /\ heap.blk[x].size \in 0 .. heap.size
              /\ {heap.blk[x].pprev, heap.blk[x].pnext, heap.blk[x].vprev, heap.blk[x].vnext}
                   \subseteq Live \cup {0}

(* HeappSplit, HeappAlign and HeappFree (mem.c:103-336): whatever is cut,  *)
(* given away and merged, the blocks tile the heap with no byte lost and   *)
(* none in two blocks, and the pnext and pprev chains agree with that.     *)
Tiled ==
    ~Down => \A x \in Live :
        LET b == heap.blk[x]
        IN  /\ b.pnext = IF x + b.size = heap.size THEN 0 ELSE x + b.size + HDR
            /\ b.pnext # 0 => heap.blk[b.pnext].pprev = x
            /\ b.pprev = 0 <=> x = START

(* HeappFree (mem.c:262-330): the four cases leave no two free blocks side *)
(* by side, so that freeing everything gives the whole heap back.          *)
Coalesced ==
    ~Down =>
        /\ \A x \in Live : ~(IsFree(heap, x) /\ IsFree(heap, heap.blk[x].pnext))
        /\ given = <<>> => Live = {START}

(* HeappBlockLink and HeappBlockUnlink (mem.c:56-93): the two lists are    *)
(* linked both ways, and a walk along each ends and meets every free block *)
(* and every used one, so that no search misses a block.                   *)
Blocks(h, state) == {x \in DOMAIN h.blk : h.blk[x].state = state}
ListsSorted ==
    ~Down =>
        /\ \A x \in Live :
             LET b == heap.blk[x]
                 head == IF b.state = FREE THEN heap.freeList ELSE heap.usedList
             IN  /\ b.vprev = 0 <=> x = head
                 /\ b.vprev # 0 => /\ heap.blk[b.vprev].vnext = x
                                   /\ heap.blk[b.vprev].state = b.state
                 /\ b.vnext # 0 => heap.blk[b.vnext].vprev = x
        /\ LooksAt(heap, "freeList", {}) = Blocks(heap, FREE) \cup {0}
        /\ LooksAt(heap, "usedList", {}) = Blocks(heap, USED) \cup {0}
        /\ {POINTER(heap, x) : x \in Blocks(heap, USED)} = DOMAIN given

(* HeapAlloc, HeapAllocAligned and HeapFree in any order keep the heap     *)
(* whole: its blocks tile it, free ones are merged, both lists are linked, *)
(* and a block in use is an allocation.                                    *)
HeapSound == TypeOK /\ Tiled /\ Coalesced /\ ListsSorted

(* HeapCreate (mem.c:376), "Page aligned so MemAllocAligned works          *)
(* correctly": what is asked for with the alignment of a page and is at    *)
(* most a page long, such as the VMXON region, the VMCS or the MSR bitmap, *)
(* is one run of physical memory from the address the processor is given,  *)
(* and maps back to its pointer.                                           *)
RegionsContiguous ==
    \A p \in DOMAIN given :
        given[p].size <= PageSize /\ given[p].align = PageSize =>
            /\ \A i \in 0 .. given[p].size - 1 :
                  VirtualToPhysical(p + i) = VirtualToPhysical(p) + i
            /\ PhysicalToVirtual(VirtualToPhysical(p)) = p

(* mem.c implements the allocator that mem.h promises: allocations are     *)
(* inside the heap, aligned as asked for, long enough and disjoint.        *)
Promise == INSTANCE Allocator
             WITH Extent <- PageSize + HDR .. ArenaBytes - 1,
                  Alignments <- {al \in Alignments : PowerOfTwo(al)} \cup {1},
                  allocs <- given
ImplementsAllocator == Promise!Spec
=============================================================================
