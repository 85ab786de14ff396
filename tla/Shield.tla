------------------------------- MODULE Shield -------------------------------
(***************************************************************************)
(* Starting and stopping the hypervisor: ioctl.c (IOCTL_SHIELD_CONTROL),   *)
(* power.c (sleep and resume), driver.c (DriverUnload), shield.c, dshvm.c, *)
(* hvm_create.c, hvm_launch.c and smp.c, all under src/src.                *)
(*                                                                         *)
(* Callers are threads inside one of these entry points; nothing in the    *)
(* driver serialises them.  SmpRunPerProcessor raises a caller to          *)
(* DISPATCH_LEVEL on the processor it is on, queues a DPC for each of the  *)
(* others and spins until all have counted themselves; a processor at      *)
(* DISPATCH_LEVEL runs no DPC but the one called in line.                  *)
(*                                                                         *)
(* NT_ASSERT does nothing in a release build: the model goes on, and the   *)
(* assertions are properties.  What stops the machine (a NULL or freed     *)
(* HVM, VMXON inside a guest, VMCALL outside VMX operation) is a fault.    *)
(***************************************************************************)
EXTENDS Integers, FiniteSets

CONSTANTS
    Cpus,               \* active processors
    Callers,            \* threads that start or stop the shield
    Requests,           \* what they may ask for, a subset of AllRequests
    LaunchFailures,     \* sets of processors that may fail to launch together
    MaxHvms,            \* bound on the HVM structures ever allocated
    NoCpu               \* a caller below DISPATCH_LEVEL

AllRequests == {"start", "stop", "sleep", "resume", "unload"}
PowerRequests == {"sleep", "resume"}
Starts == {"start", "resume"}

ASSUME CpusAssumption == IsFiniteSet(Cpus) /\ Cpus # {}
ASSUME RequestsAssumption == Requests \subseteq AllRequests
ASSUME FailuresAssumption == LaunchFailures \subseteq SUBSET Cpus
ASSUME MaxHvmsAssumption == MaxHvms \in Nat
ASSUME NoCpuAssumption == NoCpu \notin Cpus

NULL == 0
Hvms == 1..MaxHvms

VARIABLES
    gHvm,       \* the published HVM, or NULL
    gContexts,  \* gHvmContext and gVcpuContexts, named after the HVM they were made for
    hvmMem,     \* hvmMem[h]: HVM, VCPUs, stacks, VMCS: "unused", "live" or "freed"
    ctxMem,     \* ctxMem[h]: the contexts made for h, likewise
    launched,   \* launched[h]: Hvm->Launched
    started,    \* DSH_GFL_SHIELD_STARTED in gStateFlags
    suspended,  \* DSH_GFL_SHIELD_SUSPENDED in gStateFlags
    vmx,        \* vmx[p]: the HVM processor p runs under, or NULL
    pc, req,    \* pc[t], req[t]: a caller's next step, its request
    hvm, ok,    \* hvm[t], ok[t]: its Hvm, its Status
    at,         \* at[t]: the processor it holds at DISPATCH_LEVEL
    job,        \* job[t]: the callback of its SmpRunPerProcessor
    bad,        \* bad[t]: processors where that callback fails
    dpc,        \* dpc[t][p]: how far its DpcRoutine is on p
    sync, error,\* sync[t], error[t]: info.sync; whether info.error is set
    fault       \* the machine has stopped

global == <<gHvm, gContexts, hvmMem, ctxMem, launched>>
flags == <<started, suspended>>
caller == <<pc, req, hvm, ok>>
smp == <<at, job, bad, dpc, sync, error>>
vars == <<global, flags, vmx, caller, smp, fault>>

Init ==
    /\ gHvm = NULL /\ gContexts = NULL
    /\ hvmMem = [h \in Hvms |-> "unused"] /\ ctxMem = [h \in Hvms |-> "unused"]
    /\ launched = [h \in Hvms |-> FALSE]
    /\ started = FALSE /\ suspended = FALSE
    /\ vmx = [p \in Cpus |-> NULL]
    /\ pc = [t \in Callers |-> "idle"] /\ req = [t \in Callers |-> "none"]
    /\ hvm = [t \in Callers |-> NULL] /\ ok = [t \in Callers |-> FALSE]
    /\ at = [t \in Callers |-> NoCpu] /\ job = [t \in Callers |-> "none"]
    /\ bad = [t \in Callers |-> {}]
    /\ dpc = [t \in Callers |-> [p \in Cpus |-> "none"]]
    /\ sync = [t \in Callers |-> 0] /\ error = [t \in Callers |-> FALSE]
    /\ fault = FALSE

At(t, step) == ~ fault /\ pc[t] = step
Goto(t, step) == pc' = [pc EXCEPT ![t] = step]
Usable(h) == h # NULL /\ hvmMem[h] = "live"

(* The rest of a step that touches memory that is not there.               *)
Fault == fault' = TRUE /\ UNCHANGED <<global, flags, vmx, caller, smp>>

Unloading == \E t \in Callers : req[t] = "unload" /\ pc[t] # "idle"
Unloaded == \E t \in Callers : pc[t] = "unloaded"

-----------------------------------------------------------------------------
(* SmpRunPerProcessor                                                      *)

Busy(p) == \E t \in Callers : at[t] = p \/ dpc[t][p] \in {"fail", "count"}

(* The caller is raised to DISPATCH_LEVEL and the DPCs are queued; what    *)
(* fails in this call is decided by the processors and the memory.         *)
SmpRunPerProcessor(t, callback, failures) ==
    /\ \E p \in Cpus : ~ Busy(p) /\ at' = [at EXCEPT ![t] = p]
    /\ \E F \in failures : bad' = [bad EXCEPT ![t] = F]
    /\ job' = [job EXCEPT ![t] = callback]
    /\ dpc' = [dpc EXCEPT ![t] = [p \in Cpus |-> "queued"]]
    /\ sync' = [sync EXCEPT ![t] = 0]
    /\ error' = [error EXCEPT ![t] = FALSE]
    /\ Goto(t, "smp")

(* In line on the caller's processor; elsewhere when nobody is at          *)
(* DISPATCH_LEVEL there.                                                   *)
MayRun(t, p) == at[t] = p \/ ~ Busy(p)

(* Whether the callback brings the machine down on p, and what it does to  *)
(* the processor: HvmpStartVcpu (VMXON in a guest raises #UD), HvmpStopVcpu *)
(* (VMCALL raises #UD outside VMX operation) and the VCPU contexts.        *)
Breaks(t, p) ==
    CASE job[t] = "launch" -> vmx[p] # NULL \/ ~ Usable(hvm[t])
      [] job[t] = "stop"   -> ~ Usable(vmx[p])
      [] OTHER             -> gContexts = NULL \/ ctxMem[gContexts] # "live"

(* Mutant: HvmpStopVcpu leaves the processor in VMX operation.             *)
VmxAfterStopIgnored(t, p) ==
    IF job[t] = "launch" /\ p \notin bad[t] THEN hvm[t] ELSE vmx[p]

VmxAfter(t, p) ==
    CASE job[t] = "launch" /\ p \notin bad[t] -> hvm[t]
      [] job[t] = "stop"                      -> NULL
      [] OTHER                                -> vmx[p]

(* DpcRoutine: the callback ...                                            *)
DpcCallback(t, p) ==
    /\ At(t, "smp") /\ dpc[t][p] = "queued" /\ MayRun(t, p)
    /\ IF Breaks(t, p)
       THEN Fault
       ELSE /\ vmx' = [vmx EXCEPT ![p] = VmxAfter(t, p)]
            /\ dpc' = [dpc EXCEPT ![t][p] = IF p \in bad[t] THEN "fail" ELSE "count"]
            /\ UNCHANGED <<global, flags, caller, at, job, bad, sync, error, fault>>

(* ... its first error, kept with InterlockedCompareExchange ...           *)
DpcError(t, p) ==
    /\ At(t, "smp") /\ dpc[t][p] = "fail"
    /\ error' = [error EXCEPT ![t] = TRUE]
    /\ dpc' = [dpc EXCEPT ![t][p] = "count"]
    /\ UNCHANGED <<global, flags, vmx, caller, at, job, bad, sync, fault>>

(* ... and InterlockedIncrement.                                           *)
DpcCount(t, p) ==
    /\ At(t, "smp") /\ dpc[t][p] = "count"
    /\ sync' = [sync EXCEPT ![t] = @ + 1]
    /\ dpc' = [dpc EXCEPT ![t][p] = "none"]
    /\ UNCHANGED <<global, flags, vmx, caller, at, job, bad, error, fault>>

DpcStep(t, p) == DpcCallback(t, p) \/ DpcError(t, p) \/ DpcCount(t, p)

Inline(t) == dpc[t][at[t]] = "none"

(* Mutant: the spin compares with the wrong number of processors.          *)
SmpSpinOffByOne(t) ==
    /\ At(t, "smp") /\ Inline(t)
    /\ sync[t] = Cardinality(Cpus) + 1
    /\ sync' = [sync EXCEPT ![t] = 0]
    /\ UNCHANGED <<global, flags, vmx, caller, at, job, bad, dpc, error, fault>>

(* One round of the spin: the counter that has reached the number of       *)
(* processors is put back to 0 ...                                         *)
SmpSpin(t) ==
    /\ At(t, "smp") /\ Inline(t)
    /\ sync[t] = Cardinality(Cpus)
    /\ sync' = [sync EXCEPT ![t] = 0]
    /\ UNCHANGED <<global, flags, vmx, caller, at, job, bad, dpc, error, fault>>

(* Mutant: the spin starts before the caller's own DpcRoutine.             *)
SmpReturnBeforeInline(t) ==
    /\ At(t, "smp")
    /\ sync[t] = 0
    /\ ok' = [ok EXCEPT ![t] = ~ error[t]]
    /\ at' = [at EXCEPT ![t] = NoCpu]
    /\ Goto(t, "after")
    /\ UNCHANGED <<global, flags, vmx, req, hvm, job, bad, dpc, sync, error, fault>>

(* ... and the loop ends when it is found at 0.                            *)
SmpReturn(t) ==
    /\ At(t, "smp") /\ Inline(t)
    /\ sync[t] = 0
    /\ ok' = [ok EXCEPT ![t] = ~ error[t]]
    /\ at' = [at EXCEPT ![t] = NoCpu]
    /\ Goto(t, "after")
    /\ UNCHANGED <<global, flags, vmx, req, hvm, job, bad, dpc, sync, error, fault>>

-----------------------------------------------------------------------------
(* The entry points: DsCtlShieldControl, DsPowerChangeCallback and         *)
(* DriverUnload.  The I/O manager unloads the driver when no request is in *)
(* progress; the power callback stays registered until near the end of     *)
(* DriverUnload.                                                           *)
Request(t, r) ==
    /\ At(t, "idle") /\ ~ Unloaded
    /\ r \notin PowerRequests => ~ Unloading
    /\ r = "unload" => \A u \in Callers : pc[u] = "idle" \/ req[u] \in PowerRequests
    /\ req' = [req EXCEPT ![t] = r]
    /\ ok' = [ok EXCEPT ![t] = FALSE]
    /\ Goto(t, "check")
    /\ UNCHANGED <<global, flags, vmx, hvm, smp, fault>>

(* What a caller does once it knows whether the shield is running.         *)
Proceed(t, running) ==
    CASE req[t] = "start"  -> IF running THEN "idle" ELSE "initialize"
      [] req[t] = "resume" -> IF ~ running /\ suspended THEN "initialize" ELSE "idle"
      [] req[t] = "unload" -> IF running THEN "halt" ELSE "finish"
      [] OTHER             -> IF running THEN "halt" ELSE "idle"

(* The flags it changes before it starts or stops the shield.              *)
Decide(t, running) ==
    /\ Goto(t, Proceed(t, running))
    /\ suspended' = (suspended /\ ~ (req[t] = "resume" /\ ~ running))
    /\ started' = (started /\ ~ (req[t] = "unload" /\ running))
    /\ UNCHANGED <<global, vmx, req, hvm, ok, smp, fault>>

(* DsIsHvmLaunched reads gHvm ...                                          *)
Check(t) ==
    /\ At(t, "check")
    /\ IF gHvm = NULL
       THEN Decide(t, FALSE)
       ELSE Goto(t, "check2") /\ UNCHANGED <<global, flags, vmx, req, hvm, ok, smp, fault>>

(* ... and, when it was not NULL, gHvm->Launched.                          *)
CheckLaunched(t) ==
    /\ At(t, "check2")
    /\ IF Usable(gHvm) THEN Decide(t, launched[gHvm]) ELSE Fault

-----------------------------------------------------------------------------
(* DsLoadHvm                                                               *)

(* HvmInitialize fails.                                                    *)
InitializeFails(t) ==
    /\ At(t, "initialize")
    /\ Goto(t, "finish")
    /\ UNCHANGED <<global, flags, vmx, req, hvm, ok, smp, fault>>

Fresh == CHOOSE h \in Hvms : hvmMem[h] = "unused"

(* The HVM is allocated; its contexts are too and every processor sets up  *)
(* its own, or there is no memory for them.                                *)
Initialize(t) ==
    /\ At(t, "initialize")
    /\ \E h \in Hvms : hvmMem[h] = "unused"
    /\ hvmMem' = [hvmMem EXCEPT ![Fresh] = "live"]
    /\ hvm' = [hvm EXCEPT ![t] = Fresh]
    /\ \/ /\ ctxMem' = [ctxMem EXCEPT ![Fresh] = "live"]
          /\ gContexts' = Fresh
          /\ SmpRunPerProcessor(t, "contexts", SUBSET Cpus)
       \/ Goto(t, "discard") /\ UNCHANGED <<ctxMem, gContexts, smp>>
    /\ UNCHANGED <<gHvm, launched, flags, vmx, req, ok, fault>>

AfterContexts(t) ==
    /\ At(t, "after") /\ job[t] = "contexts"
    /\ gHvm' = IF ok[t] THEN hvm[t] ELSE gHvm
    /\ Goto(t, IF ok[t] THEN "launch" ELSE "discard")
    /\ UNCHANGED <<gContexts, hvmMem, ctxMem, launched, flags, vmx, req, hvm, ok, smp, fault>>

(* HvmStart: refused when the HVM is launched already.                     *)
Launch(t) ==
    /\ At(t, "launch")
    /\ \/ ~ Usable(gHvm) /\ Fault
       \/ /\ Usable(gHvm) /\ launched[gHvm]
          /\ ok' = [ok EXCEPT ![t] = FALSE]
          /\ Goto(t, "unstart")
          /\ UNCHANGED <<global, flags, vmx, req, hvm, smp, fault>>
       \/ /\ Usable(gHvm) /\ ~ launched[gHvm]
          /\ hvm' = [hvm EXCEPT ![t] = gHvm]
          /\ SmpRunPerProcessor(t, "launch", LaunchFailures)
          /\ UNCHANGED <<global, flags, vmx, req, ok, fault>>

AfterLaunch(t) ==
    /\ At(t, "after") /\ job[t] = "launch"
    /\ IF ok[t] /\ ~ Usable(hvm[t])
       THEN Fault
       ELSE /\ launched' = [launched EXCEPT ![hvm[t]] = @ \/ ok[t]]
            /\ Goto(t, IF ok[t] THEN "finish" ELSE "unstart")
            /\ UNCHANGED <<gHvm, gContexts, hvmMem, ctxMem, flags, vmx, req, hvm, ok, smp, fault>>

-----------------------------------------------------------------------------
(* DsUnloadHvm from "halt"; the failure path of DsLoadHvm from "unstart".  *)

(* HvmStop: refused when the HVM is not launched, which DsLoadHvm ignores. *)
Stop(t) ==
    /\ At(t, "halt") \/ At(t, "unstart")
    /\ \/ ~ Usable(gHvm) /\ Fault
       \/ /\ Usable(gHvm) /\ ~ launched[gHvm]
          /\ Goto(t, IF pc[t] = "halt" THEN "finish" ELSE "finalize")
          /\ UNCHANGED <<global, flags, vmx, req, hvm, ok, smp, fault>>
       \/ /\ Usable(gHvm) /\ launched[gHvm]
          /\ hvm' = [hvm EXCEPT ![t] = gHvm]
          /\ SmpRunPerProcessor(t, "stop", {{}})
          /\ UNCHANGED <<global, flags, vmx, req, ok, fault>>

AfterStop(t) ==
    /\ At(t, "after") /\ job[t] = "stop"
    /\ IF ~ Usable(hvm[t])
       THEN Fault
       ELSE /\ launched' = [launched EXCEPT ![hvm[t]] = FALSE]
            /\ ok' = [ok EXCEPT ![t] = req[t] \notin Starts]
            /\ Goto(t, "finalize")
            /\ UNCHANGED <<gHvm, gContexts, hvmMem, ctxMem, flags, vmx, req, hvm, smp, fault>>

(* DsFinalizeHvm: HvmFinalize, if there is an HVM ...                      *)
Finalize(t) ==
    /\ At(t, "finalize")
    /\ IF gHvm # NULL /\ hvmMem[gHvm] # "live"
       THEN Fault
       ELSE /\ hvmMem' = [h \in Hvms |-> IF h = gHvm THEN "freed" ELSE hvmMem[h]]
            /\ gHvm' = NULL
            /\ Goto(t, "delete")
            /\ UNCHANGED <<gContexts, ctxMem, launched, flags, vmx, req, hvm, ok, smp, fault>>

(* ... then DsDeleteHvmContexts, which every processor takes part in; so   *)
(* does DsInitializeHvmContexts when it fails ("discard").                 *)
Delete(t) ==
    /\ At(t, "delete") \/ At(t, "discard")
    /\ IF gContexts = NULL
       THEN /\ Goto(t, IF pc[t] = "discard" THEN "abandon" ELSE "finish")
            /\ UNCHANGED <<hvm, smp>>
       ELSE SmpRunPerProcessor(t, pc[t], {{}}) /\ UNCHANGED hvm
    /\ UNCHANGED <<global, flags, vmx, req, ok, fault>>

(* Mutant: the contexts of the last run are not freed.                     *)
AfterDeleteLeak(t) ==
    /\ At(t, "after") /\ job[t] \in {"delete", "discard"}
    /\ gContexts' = NULL
    /\ ok' = [ok EXCEPT ![t] = job[t] = "delete" /\ req[t] \notin Starts]
    /\ Goto(t, IF job[t] = "discard" THEN "abandon" ELSE "finish")
    /\ UNCHANGED <<gHvm, hvmMem, ctxMem, launched, flags, vmx, req, hvm, smp, fault>>

AfterDelete(t) ==
    /\ At(t, "after") /\ job[t] \in {"delete", "discard"}
    /\ ctxMem' = [h \in Hvms |-> IF h = gContexts THEN "freed" ELSE ctxMem[h]]
    /\ gContexts' = NULL
    /\ ok' = [ok EXCEPT ![t] = job[t] = "delete" /\ req[t] \notin Starts]
    /\ Goto(t, IF job[t] = "discard" THEN "abandon" ELSE "finish")
    /\ UNCHANGED <<gHvm, hvmMem, launched, flags, vmx, req, hvm, smp, fault>>

(* DsInitializeHvm frees the HVM whose contexts could not be made.         *)
Abandon(t) ==
    /\ At(t, "abandon")
    /\ hvmMem' = [hvmMem EXCEPT ![hvm[t]] = "freed"]
    /\ Goto(t, "finish")
    /\ UNCHANGED <<gHvm, gContexts, ctxMem, launched, flags, vmx, req, hvm, ok, smp, fault>>

-----------------------------------------------------------------------------
(* Mutant: a failed start sets DSH_GFL_SHIELD_STARTED too.                 *)
FinishUnchecked(t) ==
    /\ At(t, "finish") /\ req[t] # "unload"
    /\ started' = IF req[t] \in Starts THEN TRUE ELSE (started /\ ~ ok[t])
    /\ suspended' = (suspended \/ (ok[t] /\ req[t] = "sleep"))
    /\ Goto(t, "idle")
    /\ UNCHANGED <<global, vmx, req, hvm, ok, smp, fault>>

(* Back in the entry point: a request that has succeeded records it.       *)
Finish(t) ==
    /\ At(t, "finish") /\ req[t] # "unload"
    /\ started' = IF ok[t] THEN req[t] \in Starts ELSE started
    /\ suspended' = (suspended \/ (ok[t] /\ req[t] = "sleep"))
    /\ Goto(t, "idle")
    /\ UNCHANGED <<global, vmx, req, hvm, ok, smp, fault>>

(* DriverUnload deregisters the power callback, which waits for one that   *)
(* is running, and returns.                                                *)
Unregister(t) ==
    /\ At(t, "finish") /\ req[t] = "unload"
    /\ \A u \in Callers : u # t => pc[u] = "idle"
    /\ Goto(t, "unloaded")
    /\ UNCHANGED <<global, flags, vmx, req, hvm, ok, smp, fault>>

(* A caller's steps at PASSIVE_LEVEL need no processor of their own.       *)
CallerStep(t) ==
    \/ Check(t) \/ CheckLaunched(t)
    \/ InitializeFails(t) \/ Initialize(t) \/ AfterContexts(t)
    \/ Launch(t) \/ AfterLaunch(t) \/ Stop(t) \/ AfterStop(t)
    \/ Finalize(t) \/ Delete(t) \/ AfterDelete(t) \/ Abandon(t)
    \/ SmpSpin(t) \/ SmpReturn(t) \/ Finish(t) \/ Unregister(t)

Halted == fault \/ Unloaded

Next ==
    \/ \E t \in Callers, r \in Requests : Request(t, r)
    \/ \E t \in Callers : CallerStep(t)
    \/ \E t \in Callers, p \in Cpus : DpcStep(t, p)
    \/ Halted /\ UNCHANGED vars

Spec == Init /\ [][Next]_vars

(* A request in the driver goes on, and a processor runs its DPCs as soon  *)
(* as it leaves DISPATCH_LEVEL.                                            *)
Fairness ==
    /\ \A t \in Callers : WF_vars(CallerStep(t))
    /\ \A t \in Callers, p \in Cpus : WF_vars(DpcStep(t, p))
FairSpec == Spec /\ Fairness

-----------------------------------------------------------------------------
Jobs == {"none", "contexts", "launch", "stop", "delete", "discard"}

TypeOK ==
    /\ gHvm \in Hvms \cup {NULL} /\ gContexts \in Hvms \cup {NULL}
    /\ hvmMem \in [Hvms -> {"unused", "live", "freed"}]
    /\ ctxMem \in [Hvms -> {"unused", "live", "freed"}]
    /\ launched \in [Hvms -> BOOLEAN]
    /\ started \in BOOLEAN /\ suspended \in BOOLEAN
    /\ vmx \in [Cpus -> Hvms \cup {NULL}]
    /\ pc \in [Callers -> {"idle", "check", "check2", "initialize", "launch", "halt", "unstart",
                           "finalize", "delete", "discard", "abandon", "finish", "smp", "after",
                           "unloaded"}]
    /\ req \in [Callers -> AllRequests \cup {"none"}]
    /\ hvm \in [Callers -> Hvms \cup {NULL}] /\ ok \in [Callers -> BOOLEAN]
    /\ at \in [Callers -> Cpus \cup {NoCpu}] /\ job \in [Callers -> Jobs]
    /\ bad \in [Callers -> SUBSET Cpus]
    /\ dpc \in [Callers -> [Cpus -> {"none", "queued", "fail", "count"}]]
    /\ sync \in [Callers -> 0..Cardinality(Cpus)] /\ error \in [Callers -> BOOLEAN]
    /\ fault \in BOOLEAN

(* SmpRunPerProcessor returns when every processor has run the callback    *)
(* and is out of DpcRoutine: info and the KDPCs live on the caller's       *)
(* stack, and a DPC still under way would write to them afterwards.        *)
SmpReturnsLast ==
    \A t \in Callers : pc[t] # "smp" => \A p \in Cpus : dpc[t][p] = "none"

(* ... and no processor's error is lost.                                   *)
SmpReportsErrors ==
    \A t \in Callers : pc[t] = "after" => (ok[t] <=> bad[t] = {})

(* A processor in VMX operation has its HVM, its VMCS, its stack and its   *)
(* contexts: they are freed only when it has left.                         *)
MemoryOutlivesVmx ==
    \A p \in Cpus : vmx[p] # NULL => Usable(vmx[p]) /\ ctxMem[vmx[p]] = "live"

(* Between requests the hypervisor is on all processors or on none, and    *)
(* DsIsShieldRunning tells which.                                          *)
AllOrNothing ==
    (\A t \in Callers : pc[t] \in {"idle", "unloaded"}) /\ ~ fault =>
        \/ /\ gHvm # NULL /\ launched[gHvm] /\ started
           /\ \A p \in Cpus : vmx[p] = gHvm
        \/ /\ gHvm = NULL /\ ~ started
           /\ \A p \in Cpus : vmx[p] = NULL

(* A shield that is not running holds no memory: every start that fails    *)
(* half-way and every stop gives back what was allocated.                  *)
NothingLeaks ==
    (\A t \in Callers : pc[t] \in {"idle", "unloaded"}) /\ ~ fault =>
        \A h \in Hvms : (hvmMem[h] = "live" \/ ctxMem[h] = "live") => h = gHvm

(* No fault as long as requests come one at a time.                        *)
NoFault == ~ fault

(* SmpRunPerProcessor and its callers: a call returns after its last       *)
(* DpcRoutine and with every error, whichever processors fail, and no      *)
(* request runs into an HVM that is not there.                             *)
ShieldSound == TypeOK /\ SmpReturnsLast /\ SmpReportsErrors /\ NoFault

(* Every request comes back.                                               *)
RequestReturns ==
    \A t \in Callers : pc[t] = "check" ~> (pc[t] \in {"idle", "unloaded"} \/ fault)
=============================================================================
