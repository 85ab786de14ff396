-------------------------------- MODULE Vcpu --------------------------------
(***************************************************************************)
(* One virtual processor: the set-up of its VMCS (vmcs.c, vmcsinit.c,      *)
(* vmx.c), the VM exits and their handlers (exits.c, hvm_exits.c,          *)
(* hvm_root.c, instr.c), the time-stamp events (tsc.c) and the way out     *)
(* (hvm_launch.c).                                                         *)
(*                                                                         *)
(* Control registers and control fields are sets of the bits that are 1.   *)
(* A handler runs to its end in root mode with interrupts off, so an exit  *)
(* with its handler is one action.  What the processor does by itself (the *)
(* choice to exit, the masked bits of CR4) is marked external in the map.  *)
(***************************************************************************)
EXTENDS TimingDetector, FiniteSets

CONSTANTS
    Threads,        \* the user threads the processor switches between
    Addresses,      \* where they have an RDTSC instruction
    Deltas,         \* ticks that pass between two of them
    Cpus, Boot,     \* the processors, and the one that runs DriverEntry
    Self,           \* the one of this VCPU
    CapSets,        \* what the capability MSRs of a processor may say
    Cr3s,           \* page directories
    MaxClock,       \* bound on the time stamp counter
    MaxEvents,      \* bound on the RDTSC instructions that trap
    MaxOps,         \* bound on the other operations
    MaxSteps        \* bound on both together

ASSUME BoundAssumption ==
    {MaxClock, MaxEvents, MaxOps, MaxSteps} \subseteq Nat /\ MaxClock < IntHalf
ASSUME CpuAssumption == {Boot, Self} \subseteq Cpus
ASSUME AddressAssumption == Addresses \subseteq Nat \ {0} /\ Deltas \subseteq Nat \ {0}
ASSUME ThreadAssumption == 0 \notin Threads     \* the hash of a free entry

VARIABLES
    vmx,        \* "off", "guest", "crashed" (a fault in root mode or KeBugCheckEx)
    caps,       \* capability MSRs of the processors
    feature,    \* IA32_FEATURE_CONTROL of this one
    os,         \* CR3 and CR4 while VMX is off
    vmcs,       \* the VMCS fields the handlers use
    asked,      \* what the guest last wrote to CR3 and CR4, and whether it has
                \* written CR4 since the launch
    tf,         \* RFLAGS.TF of the guest
    out,        \* how the last exit ended: instruction completed, event injected
    leaf,       \* the CPUID instruction that is being executed again
    tries,      \* its exits so far
    hits, clock,
    cur,        \* the thread that runs
    exempt,     \* the threads PmGetClientTrustLevel exempts
    trimmed,    \* cur has been left alone for the rest of its quantum
    reports,    \* false positives the worker has not seen yet
    events, ops

vars == <<vmx, caps, feature, os, vmcs, asked, tf, out, leaf, tries, hits, clock,
          cur, exempt, trimmed, reports, events, ops>>
timing == <<hits, clock, events>>
people == <<cur, exempt, trimmed, reports>>
machine == <<vmx, caps, feature, os>>
cpuid == <<leaf, tries>>

Cr4Bits == {"VMXE", "TSD", "OSXSAVE"}
Fields == {"pin", "primary", "secondary", "exit", "entry"}
TSD == {"TSD"}
VMXE == {"VMXE"}
OSXSAVE == {"OSXSAVE"}

(* What the architecture says of the capability MSRs: a control that must  *)
(* be 1 may be 1, VMXE must be 1 in CR4 and no other of these bits must,   *)
(* and a processor with XSAVE has OSXSAVE.                                 *)
ASSUME CapsAssumption ==
    \A c \in CapSets :
        /\ \A f \in Fields : /\ c.Std[f].low \subseteq c.Std[f].high
                            /\ c.True[f].low \subseteq c.True[f].high
        /\ c.Cr4Maybe0 = VMXE /\ VMXE \cup TSD \subseteq c.Cr4Maybe1 /\ c.Cr4Maybe1 \subseteq Cr4Bits
        /\ "XSAVE" \in c.Features => OSXSAVE \subseteq c.Cr4Maybe1
-----------------------------------------------------------------------------
(* Capabilities.  A processor with TRUE capability MSRs is asked for those.*)
Msr(p, f) == IF caps[p].TrueControls /\ f # "secondary" THEN caps[p].True[f]
                                                        ELSE caps[p].Std[f]
HasSecondary(p) == "SecondaryControl" \in Msr(p, "primary").high \cup Msr(p, "primary").low

VmxAllowed(p, f) ==
    IF f = "secondary" /\ ~HasSecondary(p) THEN {} ELSE Msr(p, f).high \cup Msr(p, f).low

(* Mutant: the bits that must be 1 are not set.                            *)
VmxpNormalizeControlsNoDefaults(p, f, data) ==
    IF f = "secondary" /\ ~HasSecondary(p) THEN data ELSE data \cap Msr(p, f).high

VmxpNormalizeControls(p, f, data) ==
    IF f = "secondary" /\ ~HasSecondary(p) THEN data
    ELSE (data \cap Msr(p, f).high) \cup Msr(p, f).low

(* HvmInitialize goes on only if every processor has VMX and the           *)
(* capabilities of the first one.                                          *)
VmxpVerifyFeatureControl == feature \in {"enabled", "unlocked"}
VmxVerifySupport ==
    /\ VmxpVerifyFeatureControl
    /\ \A p \in Cpus : /\ caps[p].Revision = caps[Boot].Revision
                       /\ \A f \in Fields : VmxAllowed(p, f) = VmxAllowed(Boot, f)

(* gVmState.Fixed, computed once by the processor that runs DriverEntry.   *)
Cr4Fixed1 == caps[Boot].Cr4Maybe0 \cap caps[Boot].Cr4Maybe1
Cr4Fixed0 == caps[Boot].Cr4Maybe0 \cup caps[Boot].Cr4Maybe1
VmMakeCompliantCr4(v) == (v \cap Cr4Fixed0) \cup Cr4Fixed1
-----------------------------------------------------------------------------
(* The VMCS when the processor enters root mode for the first time.        *)
NoControls == [f \in Fields |-> {}]
NoVmcs == [cr3 |-> 0, cr4 |-> {}, mask |-> {}, shadow |-> {}, host |-> {}, ctl |-> NoControls]

VmcsSetHostField(v, cr4) == [v EXCEPT !.host = cr4]

Supported(cr4) ==
    (IF "XSAVE" \in caps[Self].Features /\ OSXSAVE \subseteq cr4 THEN {"EnableXsavesXrstors"} ELSE {})
    \cup (caps[Self].Features \cap {"EnableInvpcid", "EnableRdtscp"})
VmcsSetControlField(v, cr4) ==
    LET wanted == [pin |-> {}, primary |-> {"SecondaryControl"}, secondary |-> Supported(cr4),
                   exit |-> {"Ia32eHost"}, entry |-> {"Ia32eGuest"}]
    IN [v EXCEPT !.ctl = [f \in Fields |-> VmxpNormalizeControls(Self, f, wanted[f])]]

VmcsSetGuestField(v, r) ==
    [v EXCEPT !.cr3 = r.cr3, !.cr4 = VmMakeCompliantCr4(r.cr4), !.mask = VMXE, !.shadow = {}]

VmSetPrivilegedTimeStamp(v) ==
    [v EXCEPT !.cr4 = @ \cup TSD, !.mask = @ \cup TSD, !.shadow = @ \cap (v.cr4 \cap TSD)]

VmcsSetGuestMsrExitPolicy(v) ==
    [v EXCEPT !.ctl.primary = VmxpNormalizeControls(Self, "primary", @ \cup {"UseMsrBitmap"})]

HvmpEnterRoot(r) ==
    LET on == [r EXCEPT !.cr4 = @ \cup VMXE]
        general == VmcsSetGuestField(VmcsSetControlField(VmcsSetHostField(NoVmcs, on.cr4), on.cr4), on)
    IN VmcsSetGuestMsrExitPolicy(VmSetPrivilegedTimeStamp(general))

InitializeVcpuContext == [i \in 1 .. MaxHits |-> NoEntry]

(* The guest has the registers r and has not written CR4 yet.              *)
Untouched(r) == [cr3 |-> r.cr3, cr4 |-> r.cr4, written |-> FALSE]

Init ==
    /\ vmx = "off"
    /\ caps \in [Cpus -> CapSets]
    /\ feature \in {"enabled", "disabled", "unlocked"}
    /\ \E tsd \in {{}, TSD} :
         os \in [cr3 : Cr3s, cr4 : {tsd \cup IF "XSAVE" \in caps[Self].Features THEN OSXSAVE ELSE {}}]
    /\ vmcs = NoVmcs /\ asked = Untouched(os)
    /\ tf = FALSE /\ out = [done |-> TRUE, event |-> "none"]
    /\ leaf = "none" /\ tries = 0
    /\ hits = InitializeVcpuContext /\ clock = 0 /\ events = 0 /\ ops = 0
    /\ cur \in Threads /\ exempt = {} /\ trimmed = FALSE /\ reports = {}

(* HvmInitialize with its check of the processors, then the launch.        *)
Launch ==
    /\ vmx = "off"
    /\ VmxVerifySupport
    /\ vmx' = "guest"
    /\ feature' = "enabled"
    /\ vmcs' = HvmpEnterRoot(os)
    /\ asked' = Untouched(os)
    /\ hits' = InitializeVcpuContext
    /\ trimmed' = FALSE
    /\ UNCHANGED <<caps, os, tf, out, cpuid, clock, events, ops, cur, exempt, reports>>
-----------------------------------------------------------------------------
(* How a handler ends.  With the trap flag set a completed instruction is  *)
(* followed by a debug exception.                                          *)
InstrRipAdvance ==
    /\ out' = [done |-> TRUE, event |-> IF tf THEN "DB" ELSE "none"]
    /\ tf' = FALSE
VmInject(e) == out' = [done |-> FALSE, event |-> e] /\ UNCHANGED tf

MoreOps == ops < MaxOps /\ events + ops < MaxSteps
MoreEvents == events < MaxEvents /\ events + ops < MaxSteps

(* A guest instruction other than RDTSC: nothing but ops is shared.        *)
Op ==
    /\ vmx = "guest" /\ leaf = "none" /\ MoreOps
    /\ ops' = ops + 1
    /\ UNCHANGED timing

VmGetGuestVisibleCr4(v) == (v \ vmcs.mask) \cup (vmcs.shadow \cap vmcs.mask)

(* MOV to CR4: the processor exits if a masked bit differs from the shadow *)
(* and else writes the bits that are not masked.                           *)
Exits(v) == v \cap vmcs.mask # vmcs.shadow \cap vmcs.mask
MovToCr4Unseen(v) ==
    /\ ~Exits(v)
    /\ vmcs' = [vmcs EXCEPT !.cr4 = (@ \cap vmcs.mask) \cup (v \ vmcs.mask)]
    /\ UNCHANGED <<out, tf>>

(* CPUID shows the OSXSAVE of root mode.                                   *)
IsXStateSupported == "XSAVE" \in caps[Self].Features /\ OSXSAVE \subseteq vmcs.host

(* Mutant: the shadow is not updated.                                      *)
InstrCr4EmulateKeepsShadow(v) ==
    LET new == VmMakeCompliantCr4(VmGetGuestVisibleCr4(v))
    IN [vmcs EXCEPT !.cr4 = new \cup (@ \cap TSD),
                    !.host = IF OSXSAVE \subseteq new THEN @ ELSE @ \ OSXSAVE]

(* Mutant: the quantum's TSD is overwritten.                               *)
InstrCr4EmulateDropsQuantum(v) ==
    LET new == VmMakeCompliantCr4(VmGetGuestVisibleCr4(v))
    IN [vmcs EXCEPT !.cr4 = new,
                    !.host = IF OSXSAVE \subseteq new THEN @ ELSE @ \ OSXSAVE,
                    !.shadow = (@ \ TSD) \cup (v \cap TSD)]

(* The quantum's TSD stays in force whatever the guest writes.  HOST_CR4   *)
(* follows the guest's OSXSAVE.                                            *)
InstrCr4Emulate(v) ==
    LET new == VmMakeCompliantCr4(VmGetGuestVisibleCr4(v))
    IN [vmcs EXCEPT !.cr4 = new \cup (@ \cap TSD),
                    !.host = IF ~OSXSAVE \subseteq new THEN @ \ OSXSAVE
                             ELSE IF IsXStateSupported THEN @ \cup OSXSAVE ELSE @,
                    !.shadow = (@ \ TSD) \cup (v \cap TSD)]
MovToCr4Exit(v) ==
    /\ Exits(v)
    /\ vmcs' = InstrCr4Emulate(v)
    /\ InstrRipAdvance

MovToCr4 ==
    /\ Op
    /\ \E v \in SUBSET Cr4Bits :
        /\ v \subseteq Cr4Fixed0
        /\ asked' = [asked EXCEPT !.cr4 = v, !.written = TRUE]
        /\ MovToCr4Unseen(v) \/ MovToCr4Exit(v)
    /\ UNCHANGED <<machine, people, cpuid>>

(* MOV to CR3 exits where the processor knows no other way.                *)
MovToCr3 ==
    /\ Op
    /\ \E v \in Cr3s :
        /\ vmcs' = [vmcs EXCEPT !.cr3 = v]
        /\ asked' = [asked EXCEPT !.cr3 = v]
    /\ IF "Cr3LoadExiting" \in vmcs.ctl.primary THEN InstrRipAdvance ELSE UNCHANGED <<out, tf>>
    /\ UNCHANGED <<machine, people, cpuid>>

(* The two VMM leaves return without a step of RIP, so the guest executes  *)
(* CPUID again, with the answer as the leaf.                               *)
CpuidEmulate(l) == IF l = "vendor" THEN "interface" ELSE IF l = "interface" THEN "xL" ELSE "none"
Cpuid ==
    /\ vmx = "guest"
    /\ leaf = "none" => MoreOps
    /\ ops' = IF leaf = "none" THEN ops + 1 ELSE ops
    /\ \E l \in IF leaf = "none" THEN {"vendor", "interface", "feature"} ELSE {leaf} :
        /\ leaf' = CpuidEmulate(l)
        /\ IF CpuidEmulate(l) = "none"
             THEN InstrRipAdvance /\ tries' = 0
             ELSE /\ tries' = tries + 1
                  /\ out' = [done |-> FALSE, event |-> "none"]
                  /\ UNCHANGED tf
    /\ UNCHANGED <<machine, people, timing, vmcs, asked>>

(* XSETBV.  A value with the x87 bit is refused; one without it faults in  *)
(* root mode, where the handler executes it.                               *)
Xcr0 == {"index", "x87", "avx", "none"}
InstrXsetbvEmulate(x) ==
    IF x = "index" THEN "GP"
    ELSE IF ~OSXSAVE \subseteq vmcs.cr4 THEN "UD"
    ELSE IF x \in {"x87", "avx"} THEN "GP" ELSE "fault"

(* Mutant: RIP is advanced past the fault.                                 *)
XsetbvEndGoesOn(x) ==
    IF InstrXsetbvEmulate(x) = "fault" THEN vmx' = "crashed" /\ UNCHANGED <<out, tf>>
    ELSE out' = [done |-> TRUE, event |-> InstrXsetbvEmulate(x)] /\ UNCHANGED <<tf, vmx>>

XsetbvEnd(x) ==
    IF InstrXsetbvEmulate(x) = "fault" THEN vmx' = "crashed" /\ UNCHANGED <<out, tf>>
    ELSE VmInject(InstrXsetbvEmulate(x)) /\ UNCHANGED vmx
Xsetbv ==
    /\ Op
    /\ \E x \in Xcr0 : XsetbvEnd(x)
    /\ UNCHANGED <<caps, feature, os, people, cpuid, vmcs, asked>>

(* Handlers that change nothing here.  Some complete the instruction, ...  *)
Completes == Op /\ InstrRipAdvance /\ UNCHANGED <<machine, people, cpuid, vmcs, asked>>
InstrInvdEmulate == Completes
HvmHandleMsrReadFsBase == Completes
UnknownService == Completes

(* ... some inject the exception: VMXON ... INVVPID, and a #GP or #UD that *)
(* no RDTSC or RDTSCP raised, ...                                          *)
Injects(e) == Op /\ VmInject(e) /\ UNCHANGED <<machine, people, cpuid, vmcs, asked>>
VmxInstruction == Injects("UD")
OtherException == \E e \in {"UD", "GP"} : Injects(e)

(* ... some end in a fault: an MSR outside the bitmap's ranges that does   *)
(* not exist is accessed in root mode; a VMCALL without the magic value    *)
(* falls through to KeBugCheckEx.                                          *)
Crashes ==
    /\ Op
    /\ vmx' = "crashed"
    /\ UNCHANGED <<caps, feature, os, people, cpuid, vmcs, asked, out, tf>>
InstrMsrEmulate == Completes \/ Crashes
UnknownExit == Crashes

(* A debugger of the guest single-steps.                                   *)
SingleStep == Op /\ ~tf /\ tf' = TRUE /\ UNCHANGED <<machine, people, cpuid, vmcs, asked, out>>

(* VMCALL with the magic value.  The guest goes on without VMX, with its   *)
(* own CR3 and with its CR4, from which TSD and VMXE are removed.          *)
HvmpRestoreHostState(v) == [cr3 |-> v.cr3, cr4 |-> v.cr4 \ TSD]
VmxpDisable(r) == [r EXCEPT !.cr4 = @ \ VMXE]
Stop ==
    /\ Op
    /\ os' = VmxpDisable(HvmpRestoreHostState(vmcs))
    /\ vmx' = "off" /\ vmcs' = NoVmcs
    /\ tf' = FALSE /\ out' = [done |-> TRUE, event |-> "none"]
    /\ trimmed' = FALSE
    /\ UNCHANGED <<caps, feature, asked, cpuid, cur, exempt, reports>>
-----------------------------------------------------------------------------
(* TSD for the rest of the quantum.                                        *)
HvmTrimTsdForQuantum(v, enable) ==
    IF enable <=> TSD \subseteq v.cr4 THEN v
    ELSE [v EXCEPT !.cr4 = LET c == VmMakeCompliantCr4(@)
                           IN IF TSD \subseteq c THEN c \ TSD ELSE c \cup TSD]

(* The guest's scheduler writes FS_BASE for the thread it switches to.     *)
SwitchThread ==
    /\ vmx = "guest" /\ leaf = "none"
    /\ \E t \in Threads \ {cur} :
        /\ cur' = t
        /\ vmcs' = HvmTrimTsdForQuantum(vmcs, t \notin exempt)
    /\ trimmed' = FALSE
    /\ InstrRipAdvance
    /\ UNCHANGED <<machine, cpuid, timing, ops, asked, exempt, reports>>

(* The mailbox worker and PmExcludeThread: see ProcessMonitor.             *)
WorkerExempts ==
    /\ \E t \in reports : exempt' = exempt \cup {t} /\ reports' = reports \ {t}
    /\ UNCHANGED <<machine, cpuid, timing, ops, vmcs, asked, out, tf, cur, trimmed>>

(* The verdict on a pair: nothing yet, the pair dropped, or a candidate    *)
(* whose code between the two instructions does (attack) or does not read  *)
(* memory.                                                                 *)
Verdict(r) ==
    \/ r.verdict = "wait" /\ UNCHANGED <<vmcs, trimmed, reports>>
    \/ /\ r.verdict = "discontinue"
       /\ vmcs' = HvmTrimTsdForQuantum(vmcs, FALSE)
       /\ trimmed' = TRUE /\ UNCHANGED reports
    \/ /\ r.verdict = "candidate"          \* TdTimingAttackNotify
       /\ UNCHANGED <<vmcs, trimmed, reports>>
    \/ /\ r.verdict = "candidate"          \* TdTimingFalsePositiveNotify
       /\ vmcs' = HvmTrimTsdForQuantum(vmcs, FALSE)
       /\ trimmed' = TRUE /\ reports' = reports \cup {cur}

(* A user thread's RDTSC or RDTSCP raises #GP under TSD.  The handler      *)
(* emulates it, or reflects the exception if it cannot read the code.      *)
Traps == vmx = "guest" /\ leaf = "none" /\ TSD \subseteq vmcs.cr4
VmRdtscEmulate ==
    /\ Traps /\ MoreEvents
    /\ events' = events + 1
    /\ \E a \in Addresses, d \in Deltas :
        /\ clock + d <= MaxClock
        /\ clock' = clock + d
        /\ LET r == TdProcessTscEvent(hits, cur, a, clock + d)
           IN hits' = r.hits /\ Verdict(r)
    /\ InstrRipAdvance
    /\ UNCHANGED <<machine, cpuid, ops, asked, cur, exempt>>
Reflect ==
    /\ Traps /\ Op
    /\ VmInject("GP")
    /\ UNCHANGED <<machine, people, cpuid, vmcs, asked>>

DsHvmExitHandler ==
    \/ MovToCr4 \/ MovToCr3 \/ Cpuid \/ Xsetbv \/ InstrInvdEmulate
    \/ HvmHandleMsrReadFsBase \/ InstrMsrEmulate \/ SwitchThread \/ VmxInstruction
    \/ VmRdtscEmulate \/ Reflect \/ OtherException \/ UnknownExit
HvmpExitHandler == Stop \/ UnknownService \/ DsHvmExitHandler

Next == Launch \/ SingleStep \/ WorkerExempts \/ HvmpExitHandler
Spec == Init /\ [][Next]_vars
-----------------------------------------------------------------------------
Hit == [addr : Addresses \cup {0}, time : 0 .. MaxClock, count : 0 .. MaxEvents]

(* The fields have their types; of CR4 the guest never sees a host-owned   *)
(* bit other than TSD, because InstrCr4Emulate stores no other one in      *)
(* CR4_READ_SHADOW.                                                        *)
TypeOK ==
    /\ vmx \in {"off", "guest", "crashed"}
    /\ feature \in {"enabled", "disabled", "unlocked"}
    /\ os \in [cr3 : Cr3s, cr4 : SUBSET Cr4Bits]
    /\ asked \in [cr3 : Cr3s, cr4 : SUBSET Cr4Bits, written : BOOLEAN]
    /\ vmcs.cr4 \subseteq Cr4Bits /\ vmcs.host \subseteq Cr4Bits /\ vmcs.shadow \subseteq TSD
    /\ out \in [done : BOOLEAN, event : {"none", "DB", "UD", "GP"}]
    /\ \A i \in 1 .. MaxHits : hits[i].before \in Hit /\ hits[i].after \in Hit
    /\ cur \in Threads /\ exempt \subseteq Threads /\ reports \subseteq Threads

(* Every VM entry passes the processor's checks: through any sequence of   *)
(* launches, CR4 writes and trimmed quanta the control fields keep the     *)
(* bits the capability MSRs fix (VmxpNormalizeControls) and the guest's    *)
(* CR4 the bits VMX fixes (VmMakeCompliantCr4).                            *)
EntryAllowed ==
    vmx = "guest" =>
        /\ \A f \in Fields :
              \/ f = "secondary" /\ "SecondaryControl" \notin vmcs.ctl.primary
              \/ Msr(Self, f).low \subseteq vmcs.ctl[f] /\ vmcs.ctl[f] \subseteq Msr(Self, f).high
        /\ caps[Self].Cr4Maybe0 \subseteq vmcs.cr4 /\ vmcs.cr4 \subseteq caps[Self].Cr4Maybe1

(* The guest reads back what it wrote to CR3 and CR4, VMXE apart, although *)
(* the TSD in force comes and goes with the quanta; and it keeps those     *)
(* registers when the hypervisor leaves, TSD apart (HvmpRestoreHostState). *)
(* Of a TSD that was set before the launch nothing is promised: the shadow *)
(* VmcsSetGuestField writes (vmcs.c:87) shows 0 until the guest writes CR4.*)
GuestReadsBack ==
    LET seen == VmGetGuestVisibleCr4(vmcs.cr4)
    IN /\ vmx = "guest" => /\ vmcs.cr3 = asked.cr3
                           /\ seen \ TSD = asked.cr4 \ (VMXE \cup TSD)
                           /\ asked.written => seen \cap TSD = asked.cr4 \cap TSD
       /\ vmx = "off" => /\ os.cr3 = asked.cr3
                         /\ os.cr4 \ TSD = asked.cr4 \ (VMXE \cup TSD)

(* No thread escapes: while the hypervisor runs, the time stamp counter is *)
(* readable without an exit only for a thread that is exempted or that the *)
(* detector has released for this quantum, whatever the guest does to CR4. *)
TimeStampsTrap ==
    vmx = "guest" /\ ~TSD \subseteq vmcs.cr4 => cur \in exempt \/ trimmed

(* An exit either completes the guest's instruction or injects the fault   *)
(* of an instruction that is not completed, never both and never neither;  *)
(* only CPUID may be executed again.                                       *)
ExitsComplete ==
    IF leaf # "none" THEN ~out.done /\ out.event = "none"
    ELSE out.done <=> out.event \in {"none", "DB"}

(* A CPUID instruction is executed again at most twice, although the VMM   *)
(* leaves are answered without a step of RIP.                              *)
CpuidEnds == tries <= 2

(* DsHvmExitHandler leaves no instruction half done: completed, faulted,   *)
(* or executed again, and again only finitely often.                       *)
ExitsEnd == ExitsComplete /\ CpuidEnds

(* In a complete pair Before is the lower address and After is less than   *)
(* SIBLING_DISTANCE_LIMIT above it, in whichever order the two were first  *)
(* executed: TdCopySiblingMemory copies After - Before bytes.              *)
SiblingsInOrder ==
    \A i \in 1 .. MaxHits : ~IsOrphan(hits[i]) =>
        /\ hits[i].before.addr < hits[i].after.addr
        /\ hits[i].after.addr - hits[i].before.addr < DistanceLimit

(* The table counts no execution twice: with slots recycled, pairs swapped *)
(* and dropped, the counts never add up to more than what was executed.    *)
Counted(i) == hits[i].before.count + hits[i].after.count
CountsAreReal ==
    Cardinality(UNION {{i} \X (1 .. Counted(i)) : i \in 1 .. MaxHits}) <= events

(* TdIsTimingCandidate (tsc.c:322-365): a pair whose two addresses have    *)
(* been seen, with a measured difference, is judged once its Before has    *)
(* been hit often enough: it becomes a candidate or is dropped, and is not *)
(* counted on.  Nothing is said of an orphan, nor of the hits of After.    *)
PairsAreJudged ==
    \A i \in 1 .. MaxHits :
        ~IsOrphan(hits[i]) /\ hits[i].diff # 0 => hits[i].before.count <= CountLimit

(* TdProcessTscEvent keeps the table of siblings sound through any mix of  *)
(* threads, swaps, recycled slots and thread switches.                     *)
TableSound == TypeOK /\ SiblingsInOrder /\ CountsAreReal /\ PairsAreJudged

(* What TdCopySiblingMemory asserts of the candidate it is given:          *)
(* NT_ASSERT( Distance < SIBLING_DISTANCE_LIMIT ).  Whatever RDTSC comes   *)
(* next, the pair it makes a candidate is that close.                      *)
DistanceAsserted ==
    \A a \in Addresses, d \in Deltas :
        LET r == TdProcessTscEvent(hits, cur, a, clock + d)
        IN r.verdict = "candidate" => r.sibling.after.addr - r.sibling.before.addr < DistanceLimit
=============================================================================
