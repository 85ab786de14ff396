--------------------------------- MODULE Mmu ---------------------------------
(***************************************************************************)
(* Memory mapping in root mode, src/src/mmu.c: four virtual pages for each *)
(* processor whose page table entries the driver rewrites itself, found    *)
(* through the self map of the page tables, and the walk of another        *)
(* address space with them; and its two users, VmReadGuestInstruction      *)
(* (exits.c) and TdCopySiblingMemory (tsc.c).                              *)
(*                                                                         *)
(* Addresses count page table entries: a page is Entries units long, the   *)
(* 8 bytes of an entry being one unit, so that the arithmetic of the self  *)
(* map is the code's.  An entry is the physical page it names, ZeroPte or  *)
(* a large page; cache and access bits are left out.  A processor in root  *)
(* mode is not interrupted, but the others run the guest meanwhile and     *)
(* change its page tables.                                                 *)
(***************************************************************************)
EXTENDS Integers, Sequences

CONSTANTS
    Boot,           \* the processor DriverEntry and DriverUnload run on
    Entries,        \* entries of a page table: MmuGetNumberOfPageEntries()
    Levels,         \* MmuGetPagingLevels()
    SelfMap,        \* gMmu.SelfMapPmlIndex
    HostCr3,        \* CR3 in root mode
    GuestCr3s,      \* CR3 of the guest at an exit
    Memory,         \* the page tables as the system has built them
    SlotVa,         \* SlotVa[c][s]: where the system maps the page of slot s of c
    SlotPage,       \* SlotPage[c][s]: that page, of MappingSpace
    Remaps,         \* <<table, index, entry>>: what the guest may write
    Instructions,   \* Rip at an exit that reads the instruction
    Siblings        \* <<Before.Address, After.Address>> of a sibling to copy

ZeroPte == 0
Large == -1         \* an entry with PDE_PSE
INS == 3            \* TSCP_INS_LENGHT

Cpus == DOMAIN SlotVa
Slots == DOMAIN SlotVa[1]   \* MAX_MAPPING_SLOTS of them

ASSUME TableAssumption ==
    /\ Entries \in Nat \ {0} /\ Levels \in Nat \ {0} /\ SelfMap \in 0 .. Entries - 1
    /\ Memory \in [DOMAIN Memory -> [0 .. Entries - 1 -> Int]]
    /\ HostCr3 \in DOMAIN Memory /\ GuestCr3s \subseteq DOMAIN Memory
    /\ Instructions \subseteq Nat /\ Siblings \subseteq Nat \X Nat
ASSUME SelfMapAssumption == \A cr3 \in GuestCr3s \cup {HostCr3} : Memory[cr3][SelfMap] = cr3

(* Each slot has a page and an address of its own; an exit needs two.      *)
ASSUME SlotAssumption ==
    /\ Boot \in Cpus /\ Len(SlotVa) \in Nat /\ Len(SlotVa[1]) \in Nat /\ Len(SlotVa[1]) >= 2
    /\ Cpus = 1 .. Len(SlotVa) /\ Slots = 1 .. Len(SlotVa[1])
    /\ \A c \in Cpus, s \in Slots : SlotVa[c][s] \in Nat \ {0} /\ SlotPage[c][s] \in Nat \ {0}
    /\ \A c, d \in Cpus, s, t \in Slots : SlotVa[c][s] = SlotVa[d][t] => c = d /\ s = t

VARIABLES
    mem,        \* mem[p][i]: entry i of the page table in page p
    tlb,        \* tlb[c][va]: the page c has cached for a slot's address, or 0
    array,      \* gMmu.MmuArray: the mappings by processor and slot, or <<>>
    phase,      \* where DriverEntry and DriverUnload are
    at,         \* next <<ProcIdx, SlotIdx>> of the loop there, as a number
    ready,      \* DSH_GFL_SHIELD_INITIALIZED
    locked,     \* <<c, s>> whose MDL is locked
    x,          \* x[c]: the exit c is in
    fault       \* the access that has brought the system down, or "none"

vars == <<mem, tlb, array, phase, at, ready, locked, x, fault>>
initVars == <<array, phase, at, ready, locked>>

-----------------------------------------------------------------------------
(***************************************************************************)
(* Address arithmetic.                                                     *)
(***************************************************************************)
PageOf(va) == va - (va % Entries)
Offset(va) == va % Entries

(* Units that an entry of a table of level l + 1 stands for.               *)
Span[l \in 0 .. Levels] == IF l = 0 THEN 1 ELSE Entries * Span[l - 1]

MmuAddressToPti(level, va) == (va \div Span[level]) % Entries

(* The self map: the entry for page n is word n of the region that begins  *)
(* at SelfMap in the top table (LowerBound, UpperBound).                   *)
LowerBound == SelfMap * Span[Levels]

(* Mutant: the page offset is taken for an index.                          *)
MmuAddressToPteFlat(va) == LowerBound + (va % Span[Levels])

MmuAddressToPte(va) == LowerBound + ((va \div Entries) % Span[Levels])

(* Pages the processor goes through to translate va, by level; 0 is none.  *)
Path(m, cr3, va) ==
    LET Table[l \in 0 .. Levels] ==
          IF l = Levels THEN cr3
          ELSE IF Table[l + 1] \notin DOMAIN m THEN ZeroPte
          ELSE m[Table[l + 1]][MmuAddressToPti(l + 1, va)]
    IN Table
Translate(m, cr3, va) == Path(m, cr3, va)[0]

(* The entry at an offset of a page, and a byte there: bytes are told      *)
(* apart by where they lie.                                                *)
Entry(m, page, offset) == IF page \in DOMAIN m THEN m[page][offset] ELSE ZeroPte
Byte(page, offset) == <<page, offset>>
-----------------------------------------------------------------------------
(***************************************************************************)
(* The mappings.                                                           *)
(***************************************************************************)
NoMapping == [use |-> FALSE, va |-> 0, orig |-> ZeroPte]
SlotVas == {SlotVa[c][s] : c \in Cpus, s \in Slots}

(* The page a processor reaches at va, which it then has in its TLB.       *)
View(c, va) == IF tlb[c][va] # ZeroPte THEN tlb[c][va] ELSE Translate(mem, HostCr3, va)
Loaded(c, vas) == [tlb EXCEPT ![c] = [va \in SlotVas |-> IF va \in vas THEN View(c, va) ELSE @[va]]]

(* The entry that maps va, through the self map.                           *)
Pointer(m, va) == <<Translate(m, HostCr3, MmuAddressToPte(va)), Offset(MmuAddressToPte(va))>>
Pte(m, va) == Entry(m, Pointer(m, va)[1], Pointer(m, va)[2])
Store(m, va, pte) == [m EXCEPT ![Pointer(m, va)[1]][Pointer(m, va)[2]] = pte]

(* The entry that the system's tables have for va at level l.              *)
EntryAt(va, l) == <<Path(Memory, HostCr3, va)[l], MmuAddressToPti(l, va)>>
SlotEntries == {EntryAt(va, 1) : va \in SlotVas}
GuestEntries == {<<r[1], r[2]>> : r \in Remaps}

(* Where the system maps the slots nothing is mapped, and each has an      *)
(* entry of its own, in a table of the system that no slot is for and no   *)
(* process changes.                                                        *)
ASSUME PagesAssumption ==
    /\ \A va \in SlotVas :
         /\ EntryAt(va, 1)[1] \in DOMAIN Memory
         /\ Translate(Memory, HostCr3, va) = ZeroPte
         /\ \A l \in 2 .. Levels : EntryAt(va, l) \notin SlotEntries \cup GuestEntries
    /\ \A v, w \in SlotVas : EntryAt(v, 1) = EntryAt(w, 1) => v = w
    /\ <<HostCr3, SelfMap>> \notin SlotEntries \cup GuestEntries
    /\ SlotEntries \cap GuestEntries = {}

(* What an exit reads, and the pages the guest's tables can lead to for it *)
(* by level: none through an entry of a slot.                              *)
Reads == Instructions \cup {va + INS : va \in Instructions} \cup {PageOf(sib[1]) : sib \in Siblings}
EntryValues(p, i) == {Memory[p][i]} \cup {r[3] : r \in {s \in Remaps : s[1] = p /\ s[2] = i}}
Reach(cr3, va) ==
    LET Pages[l \in 0 .. Levels] ==
          IF l = Levels THEN {cr3}
          ELSE {ZeroPte} \cup UNION {EntryValues(p, MmuAddressToPti(l + 1, va)) :
                                      p \in Pages[l + 1] \cap DOMAIN Memory}
    IN Pages
ASSUME ReadsAssumption ==
    /\ Entries >= INS
    /\ \A cr3 \in GuestCr3s, va \in Reads, l \in 1 .. Levels : \A p \in Reach(cr3, va)[l] :
         <<p, MmuAddressToPti(l, va)>> \notin SlotEntries

(* Mutant: the TLB is not flushed.                                         *)
MmupWriteMappingPteNoFlush(c, t, va, pte) ==
    /\ mem' = Store(mem, va, pte)
    /\ tlb' = t

(* Write it, as processor c with TLB t, and flush va there.                *)
MmupWriteMappingPte(c, t, va, pte) ==
    /\ mem' = Store(mem, va, pte)
    /\ tlb' = [t EXCEPT ![c][va] = ZeroPte]

(* MmuAcquireMapping: the first mapping of c not in use, 0 if none.        *)
MmuAcquireMapping(c) ==
    LET free == {s \in Slots : ~array[c][s].use}
    IN IF free = {} THEN 0 ELSE CHOOSE s \in free : \A r \in free : s <= r

MmuGetMappingForVa(c, va) == CHOOSE s \in Slots : array[c][s].use /\ array[c][s].va = va

(* MmuMapIoPage, in the slot that MmuAcquireMapping has given.             *)
MmuMapIoPage(c, s, page) ==
    /\ array' = [array EXCEPT ![c][s].use = TRUE]
    /\ MmupWriteMappingPte(c, tlb, array[c][s].va, page)

MmuUnmapIoPage(c, t, va) ==
    /\ MmupWriteMappingPte(c, t, va, ZeroPte)
    /\ array' = [array EXCEPT ![c][MmuGetMappingForVa(c, va)].use = FALSE]
-----------------------------------------------------------------------------
(***************************************************************************)
(* MmuInitialize and MmuFinalize, a slot at a time.                        *)
(***************************************************************************)
Idle == [pc |-> "idle", op |-> "none", cr3 |-> 0, va |-> 0, end |-> 0, todo |-> <<>>,
         level |-> 0, pa |-> 0, table |-> 0, held |-> <<>>, out |-> <<>>, moved |-> FALSE]

Init ==
    /\ mem = Memory
    /\ tlb = [c \in Cpus |-> [va \in SlotVas |-> ZeroPte]]
    /\ array = <<>>
    /\ phase = "load"
    /\ at = 0
    /\ ready = FALSE
    /\ locked = {}
    /\ x = [c \in Cpus |-> Idle]
    /\ fault = "none"

Count == Len(SlotVa) * Len(SlotVa[1])
ProcIdx == 1 + (at \div Len(SlotVa[1]))
SlotIdx == 1 + (at % Len(SlotVa[1]))
Mapping == array[ProcIdx][SlotIdx]

(* Without memory for the array the function returns the status of the     *)
(* call before, a success.                                                 *)
MmuInitialize ==
    /\ phase = "load"
    /\ \/ /\ array' = [c \in Cpus |-> [s \in Slots |-> NoMapping]]
          /\ phase' = "init"
          /\ ready' = FALSE
       \/ /\ array' = <<>>
          /\ phase' = "on"
          /\ ready' = TRUE
    /\ UNCHANGED <<mem, tlb, at, locked, x, fault>>

(* The system has mapped the page: m.  Its entry is saved and cleared.     *)
MmuInitializeMapping(c, va, m) ==
    /\ mem' = Store(m, va, ZeroPte)
    /\ tlb' = [tlb EXCEPT ![c][va] = ZeroPte]
    /\ array' = [array EXCEPT ![ProcIdx][SlotIdx] = [NoMapping EXCEPT !.va = va, !.orig = Pte(m, va)]]
    /\ locked' = locked \cup {<<ProcIdx, SlotIdx>>}
    /\ at' = (at + 1) % Count
    /\ phase' = IF at + 1 = Count THEN "on" ELSE phase
    /\ ready' = (at + 1 = Count)
    /\ UNCHANGED <<x, fault>>
Map ==
    /\ phase = "init"
    /\ MmuInitializeMapping(Boot, SlotVa[ProcIdx][SlotIdx],
         Store(mem, SlotVa[ProcIdx][SlotIdx], SlotPage[ProcIdx][SlotIdx]))

(* No MDL, or no address for the page: nothing of this slot stays, and     *)
(* MmuFinalize begins.                                                     *)
NoMap ==
    /\ phase = "init"
    /\ at' = 0
    /\ phase' = "undo"
    /\ UNCHANGED <<mem, tlb, array, ready, locked, x, fault>>

(* MmProbeAndLockPages raises: the MDL is freed, but its address returned. *)
NoLock ==
    /\ phase = "init"
    /\ fault' = "mdl"
    /\ phase' = "down"
    /\ UNCHANGED <<mem, tlb, array, at, ready, locked, x>>

(* The system takes the mapping back; it must find its own entry.          *)
MmUnmapLockedPages(va, page, m) ==
    /\ fault' = IF Pte(m, va) = page THEN fault ELSE "unmap"
    /\ mem' = Store(m, va, ZeroPte)

MmuDeleteMapping(c, s) ==
    /\ MmUnmapLockedPages(array[c][s].va, SlotPage[c][s],
         Store(mem, array[c][s].va, array[c][s].orig))
    /\ tlb' = [tlb EXCEPT ![Boot][array[c][s].va] = ZeroPte]
    /\ locked' = locked \ {<<c, s>>}

(* MmuFinalize goes on with the next slot, and frees the array after the   *)
(* last one.  DriverEntry succeeds without the shield.                     *)
MmuFinalize ==
    /\ phase \in {"undo", "fini"}
    /\ IF Mapping.va # 0 THEN MmuDeleteMapping(ProcIdx, SlotIdx)
                         ELSE UNCHANGED <<mem, tlb, locked, fault>>
    /\ at' = (at + 1) % Count
    /\ IF at + 1 = Count
         THEN array' = <<>> /\ phase' = IF phase = "undo" THEN "on" ELSE "ended"
         ELSE UNCHANGED <<array, phase>>
    /\ UNCHANGED <<ready, x>>

(* DriverUnload, the shield being stopped.                                 *)
Unload ==
    /\ phase = "on"
    /\ \A c \in Cpus : x[c].pc = "idle"
    /\ IF ~ready THEN phase' = "ended" /\ UNCHANGED fault
       ELSE IF array = <<>> THEN phase' = "down" /\ fault' = "null"
       ELSE phase' = "fini" /\ UNCHANGED fault
    /\ UNCHANGED <<mem, tlb, array, at, ready, locked, x>>
-----------------------------------------------------------------------------
(***************************************************************************)
(* An exit that reads guest memory: each page of todo is translated,       *)
(* mapped and read.                                                        *)
(***************************************************************************)
InRoot(c, pc) == phase = "on" /\ x[c].pc = pc
Goto(c, r) == x' = [x EXCEPT ![c] = r]

(* Mutant: an error path returns with its pages mapped.                    *)
FailKeeps(r) == [r EXCEPT !.todo = <<>>, !.pc = "done", !.held = <<>>]

(* The function returns: what it has mapped is unmapped first.             *)
Fail(r) == [r EXCEPT !.todo = <<>>, !.pc = IF r.held = <<>> THEN "done" ELSE "unmap"]

(* NUMBER_PAGES_SPANNED( RemoteVa, TSCP_INS_LENGHT )                       *)
PagesSpanned(va) == (Offset(va) + INS + Entries - 1) \div Entries

VmReadGuestInstruction(c) ==
    /\ InRoot(c, "idle")
    /\ \E cr3 \in GuestCr3s, va \in Instructions :
         Goto(c, [Idle EXCEPT !.pc = "translate", !.op = "instruction", !.cr3 = cr3, !.va = va,
                    !.todo = IF PagesSpanned(va) = 1 THEN <<va>> ELSE <<va, va + INS>>])
    /\ UNCHANGED <<mem, tlb, initVars, fault>>

TdCopySiblingMemory(c) ==
    /\ InRoot(c, "idle")
    /\ \E cr3 \in GuestCr3s, sib \in Siblings :
         Goto(c, [Idle EXCEPT !.pc = "translate", !.op = "sibling", !.cr3 = cr3,
                    !.va = sib[1], !.end = sib[2],
                    !.todo = IF PageOf(sib[1]) = PageOf(sib[2])
                               THEN <<PageOf(sib[1])>> ELSE <<PageOf(sib[1]), PageOf(sib[2])>>])
    /\ UNCHANGED <<mem, tlb, initVars, fault>>

(* MmuGetPhysicalAddress: the tables of the current address space serve    *)
(* when it is the guest's own.                                             *)
MmuGetPhysicalAddress(c) ==
    /\ InRoot(c, "translate")
    /\ LET pa == Translate(mem, HostCr3, Head(x[c].todo))
       IN Goto(c, IF x[c].cr3 # HostCr3
                    THEN [x[c] EXCEPT !.pc = "walk", !.level = Levels, !.pa = x[c].cr3]
                  ELSE IF pa \in {ZeroPte, Large} THEN Fail(x[c])
                  ELSE [x[c] EXCEPT !.pc = "map", !.pa = pa])
    /\ UNCHANGED <<mem, tlb, initVars, fault>>

(* Map the table of this level.                                            *)
WalkMap(c) ==
    /\ InRoot(c, "walk")
    /\ array # <<>>
    /\ LET s == MmuAcquireMapping(c)
       IN IF s = 0
            THEN Goto(c, Fail(x[c])) /\ UNCHANGED <<mem, tlb, array>>
            ELSE /\ MmuMapIoPage(c, s, x[c].pa)
                 /\ Goto(c, [x[c] EXCEPT !.pc = "walk2", !.table = array[c][s].va])
    /\ UNCHANGED <<phase, at, ready, locked, fault>>

NextLevel(r, entry) ==
    IF entry = ZeroPte \/ (r.level # 1 /\ entry = Large) THEN Fail([r EXCEPT !.table = 0])
    ELSE IF r.level = 1 THEN [r EXCEPT !.pc = "map", !.pa = entry, !.table = 0]
    ELSE [r EXCEPT !.pc = "walk", !.pa = entry, !.level = @ - 1, !.table = 0]

(* Read the entry in it, unmap it and go on.                               *)
WalkRead(c) ==
    /\ InRoot(c, "walk2")
    /\ Goto(c, NextLevel(x[c], Entry(mem, View(c, x[c].table),
                                     MmuAddressToPti(x[c].level, Head(x[c].todo)))))
    /\ MmuUnmapIoPage(c, Loaded(c, {x[c].table}), x[c].table)
    /\ UNCHANGED <<phase, at, ready, locked, fault>>

(* The page itself; a sibling on two pages has both mapped at a time.      *)
MapPage(c) ==
    /\ InRoot(c, "map")
    /\ array # <<>>
    /\ LET s == MmuAcquireMapping(c)
       IN IF s = 0
            THEN Goto(c, Fail(x[c])) /\ UNCHANGED <<mem, tlb, array>>
            ELSE /\ MmuMapIoPage(c, s, x[c].pa)
                 /\ Goto(c, [x[c] EXCEPT !.held = Append(@, array[c][s].va),
                              !.todo = Tail(@), !.pa = 0, !.level = 0,
                              !.pc = IF x[c].op = "sibling" /\ Len(x[c].todo) > 1
                                       THEN "translate" ELSE "copy"])
    /\ UNCHANGED <<phase, at, ready, locked, fault>>

(* MmuAcquireMapping when there is no array.                               *)
NullArray(c) ==
    /\ InRoot(c, "walk") \/ InRoot(c, "map")
    /\ array = <<>>
    /\ fault' = "null"
    /\ phase' = "down"
    /\ UNCHANGED <<mem, tlb, array, at, ready, locked, x>>

(* Offsets in the page at hand of the bytes Ins->Opcode takes from it.     *)
OpcodeOffsets(va, first) ==
    IF PagesSpanned(va) = 1 THEN <<Offset(va), Offset(va) + 1, Offset(va) + 2>>
    ELSE IF first THEN (IF Offset(va) # Entries - 1 THEN <<Offset(va), Offset(va) + 1>>
                                                    ELSE <<Offset(va)>>)
    ELSE (IF Offset(va) = Entries - 1 THEN <<0>> ELSE <<>>) \o <<Offset(va + 2)>>

(* Report->Code: the part on the second page is copied to the beginning.   *)
SiblingCode(c, r) ==
    LET At(va, offset) == Byte(View(c, va), offset)
        distance == r.end - r.va
        two == Len(r.held) = 2
        first == IF two THEN distance - Offset(r.end) ELSE distance
    IN [i \in 1 .. distance |->
          IF two /\ i <= Offset(r.end) THEN At(r.held[2], i - 1)
          ELSE IF i <= first THEN At(r.held[1], Offset(r.va) + i - 1)
          ELSE <<>>]

Copy(c) ==
    /\ InRoot(c, "copy")
    /\ LET r == x[c]
           At(va, offset) == Byte(View(c, va), offset)
           offsets == OpcodeOffsets(r.va, r.out = <<>>)
       IN Goto(c, [r EXCEPT !.pc = "unmap", !.out =
              IF r.op = "sibling" THEN SiblingCode(c, r)
              ELSE @ \o [i \in DOMAIN offsets |-> At(r.held[1], offsets[i])]])
    /\ tlb' = Loaded(c, {x[c].held[i] : i \in DOMAIN x[c].held})
    /\ UNCHANGED <<mem, initVars, fault>>

UnmapPage(c) ==
    /\ InRoot(c, "unmap")
    /\ MmuUnmapIoPage(c, tlb, Head(x[c].held))
    /\ Goto(c, [x[c] EXCEPT !.held = Tail(@),
                 !.pc = IF Len(x[c].held) > 1 THEN "unmap"
                        ELSE IF x[c].todo # <<>> THEN "translate" ELSE "done"])
    /\ UNCHANGED <<phase, at, ready, locked, fault>>

Resume(c) ==
    /\ InRoot(c, "done")
    /\ Goto(c, Idle)
    /\ UNCHANGED <<mem, tlb, initVars, fault>>

(* The guest, on a processor that is not in root mode, changes its tables. *)
Remap ==
    /\ phase = "on"
    /\ \E c \in Cpus : x[c].pc = "idle"
    /\ \E r \in Remaps :
         /\ mem[r[1]][r[2]] # r[3]
         /\ mem' = [mem EXCEPT ![r[1]][r[2]] = r[3]]
    /\ x' = [c \in Cpus |-> IF x[c].pc = "idle" THEN x[c] ELSE [x[c] EXCEPT !.moved = TRUE]]
    /\ UNCHANGED <<tlb, initVars, fault>>

Step(c) ==
    \/ VmReadGuestInstruction(c)
    \/ TdCopySiblingMemory(c)
    \/ MmuGetPhysicalAddress(c)
    \/ WalkMap(c)
    \/ WalkRead(c)
    \/ MapPage(c)
    \/ NullArray(c)
    \/ Copy(c)
    \/ UnmapPage(c)
    \/ Resume(c)

Next ==
    \/ MmuInitialize
    \/ Map
    \/ NoMap
    \/ NoLock
    \/ MmuFinalize
    \/ Unload
    \/ Remap
    \/ \E c \in Cpus : Step(c)

Spec == Init /\ [][Next]_vars
-----------------------------------------------------------------------------
Held(c) == {x[c].held[i] : i \in DOMAIN x[c].held}
               \cup (IF x[c].table = 0 THEN {} ELSE {x[c].table})

TypeOK ==
    /\ DOMAIN mem = DOMAIN Memory
    /\ array = <<>> \/ array \in [Cpus -> [Slots -> [use : BOOLEAN, va : SlotVas \cup {0}, orig : Nat]]]
    /\ phase \in {"load", "init", "undo", "on", "fini", "ended", "down"}
    /\ at \in 0 .. Count - 1
    /\ ready \in BOOLEAN
    /\ locked \subseteq Cpus \X Slots
    /\ fault \in {"none", "mdl", "null", "unmap"}
    /\ \A c \in Cpus : (x[c].pc \in {"walk", "walk2"} => x[c].level \in 1 .. Levels) /\ Held(c) \subseteq SlotVas

(* MmuMapIoPage and MmuUnmapIoPage (mmu.c:579-615), VmReadGuestInstruction *)
(* (exits.c:252-254), TdCopySiblingMemory (tsc.c:578-585): on every way    *)
(* out of every function, the mappings in use are the ones the exit still  *)
(* holds, and no other entry of a slot maps anything.                      *)
MappingsAreHeld ==
    phase = "on" /\ array # <<>> =>
        \A c \in Cpus, s \in Slots :
            /\ array[c][s].use <=> array[c][s].va \in Held(c)
            /\ Pte(mem, array[c][s].va) # ZeroPte => array[c][s].use

(* "No more mapping slots" (mmu.c:667-671) is never reached: the slots of  *)
(* a processor suffice for the deepest nest of mappings an exit makes.     *)
SlotsSuffice ==
    \A c \in Cpus : array # <<>> /\ x[c].pc \in {"walk", "map"} => MmuAcquireMapping(c) # 0

(* No way through VmReadGuestInstruction and TdCopySiblingMemory leaks a   *)
(* slot or runs out of them.                                               *)
SlotsSound == TypeOK /\ MappingsAreHeld /\ SlotsSuffice

(* What the guest has at va, or nothing.                                   *)
GuestByte(cr3, va) == Byte(Translate(mem, cr3, va), Offset(va))

(* VmReadGuestInstruction (exits.c:190-265) and, for a sibling on one      *)
(* page, TdCopySiblingMemory (tsc.c:523-590): unless the guest changes its *)
(* tables meanwhile, the bytes read are the ones at that address of the    *)
(* guest, whatever its page, and whatever was mapped in the slot before.   *)
ReadsTheGuest ==
    \A c \in Cpus :
        /\ x[c].pc = "done" /\ ~x[c].moved
        /\ x[c].op = "instruction" \/ PageOf(x[c].va) = PageOf(x[c].end)
        =>
            \A i \in DOMAIN x[c].out : x[c].out[i] = GuestByte(x[c].cr3, x[c].va + i - 1)

(* MmuAddressToPte (mmu.c:97-122): of the system's tables only the entries *)
(* of the slots are ever written, and a table of the guest by the guest.   *)
OnlySlotsChange ==
    \A p \in DOMAIN Memory, i \in 0 .. Entries - 1 :
        mem[p][i] = Memory[p][i] \/ <<p, i>> \in SlotEntries \cup GuestEntries

(* MmuInitialize and MmuFinalize (mmu.c:442-521): whichever slot fails,    *)
(* and at unload, the system finds its own entry in every page it takes    *)
(* back, and no page stays locked or mapped.                               *)
NothingStays ==
    /\ fault # "unmap"
    /\ phase = "ended" \/ (phase = "on" /\ array = <<>>) =>
         locked = {} /\ \A va \in SlotVas : Pte(mem, va) = ZeroPte

(* The system's page tables are left as they were: while slots are mapped, *)
(* when the set-up fails and after MmuFinalize.                            *)
TablesKept == OnlySlotsChange /\ NothingStays
=============================================================================
