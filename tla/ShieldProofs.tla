---------------------------- MODULE ShieldProofs ----------------------------
(***************************************************************************)
(* Proofs about Shield, for every number of processors.                    *)
(*                                                                         *)
(* SmpRunPerProcessor, for any number of callers: what the counter and the *)
(* error of a call say of its DpcRoutines.                                 *)
(***************************************************************************)
EXTENDS Shield, FiniteSetTheorems, TLAPS

Counted(t) == {p \in Cpus : dpc[t][p] = "none"}

(* A call of SmpRunPerProcessor under way, and what it has returned.       *)
SmpCall(t) ==
    /\ pc[t] # "smp" => \A p \in Cpus : dpc[t][p] = "none"
    /\ pc[t] = "smp" =>
         /\ at[t] \in Cpus
         /\ sync[t] = Cardinality(Counted(t)) \/ (sync[t] = 0 /\ Counted(t) = Cpus)
         /\ \A p \in Cpus : dpc[t][p] = "fail" => p \in bad[t]
         /\ error[t] <=> \E p \in bad[t] : dpc[t][p] \in {"count", "none"}
    /\ pc[t] = "after" => (ok[t] <=> bad[t] = {})
    /\ pc[t] \in {"smp", "after"} => job[t] # "none"

SmpInv == TypeOK /\ \A t \in Callers : SmpCall(t)
-----------------------------------------------------------------------------
(* A step of one caller leaves the calls of the others alone.              *)
LEMMA OthersKeepTheirCalls ==
    ASSUME NEW u, pc'[u] = pc[u], dpc'[u] = dpc[u], at'[u] = at[u], sync'[u] = sync[u],
           error'[u] = error[u], bad'[u] = bad[u], ok'[u] = ok[u], job'[u] = job[u]
    PROVE  SmpCall(u)' <=> SmpCall(u)
<1>1. Counted(u)' = Counted(u)
  BY DEF Counted
<1> QED BY <1>1 DEF SmpCall

(* A caller outside SmpRunPerProcessor that stays outside.                 *)
LEMMA OutsideSmp ==
    ASSUME SmpInv, NEW t \in Callers, NEW step, step \notin {"smp", "after"},
           pc[t] # "smp", Goto(t, step), UNCHANGED smp,
           \A u \in Callers : u # t => ok'[u] = ok[u]
    PROVE  \A u \in Callers : SmpCall(u)'
<1>1. \A u \in Callers : u # t => SmpCall(u)'
  <2> SUFFICES ASSUME NEW u \in Callers, u # t PROVE SmpCall(u)'
    OBVIOUS
  <2>1. pc'[u] = pc[u]
    BY DEF Goto, SmpInv, TypeOK
  <2> QED BY <2>1, OthersKeepTheirCalls DEF SmpInv, smp
<1>2. SmpCall(t)'
  <2>1. pc'[t] = step
    BY DEF Goto, SmpInv, TypeOK
  <2> QED BY <2>1 DEF SmpCall, SmpInv, smp
<1> QED BY <1>1, <1>2

(* SmpRunPerProcessor is called: nothing is counted and no error is set.   *)
LEMMA SmpBegins ==
    ASSUME SmpInv, NEW t \in Callers, NEW callback \in Jobs \ {"none"},
           NEW failures \in SUBSET (SUBSET Cpus),
           SmpRunPerProcessor(t, callback, failures), UNCHANGED ok
    PROVE  /\ \A u \in Callers : SmpCall(u)'
           /\ at' \in [Callers -> Cpus \cup {NoCpu}] /\ job' \in [Callers -> Jobs]
           /\ bad' \in [Callers -> SUBSET Cpus]
           /\ dpc' \in [Callers -> [Cpus -> {"none", "queued", "fail", "count"}]]
           /\ sync' \in [Callers -> 0..Cardinality(Cpus)] /\ error' \in [Callers -> BOOLEAN]
           /\ pc' = [pc EXCEPT ![t] = "smp"]
<1>1. PICK p \in Cpus : at' = [at EXCEPT ![t] = p]
  BY DEF SmpRunPerProcessor
<1>2. PICK F \in failures : bad' = [bad EXCEPT ![t] = F]
  BY DEF SmpRunPerProcessor
<1>3. Cardinality(Cpus) \in Nat
  BY CpusAssumption, FS_CardinalityType
<1>4. /\ at' \in [Callers -> Cpus \cup {NoCpu}] /\ job' \in [Callers -> Jobs]
      /\ bad' \in [Callers -> SUBSET Cpus]
      /\ dpc' \in [Callers -> [Cpus -> {"none", "queued", "fail", "count"}]]
      /\ sync' \in [Callers -> 0..Cardinality(Cpus)] /\ error' \in [Callers -> BOOLEAN]
      /\ pc' = [pc EXCEPT ![t] = "smp"]
  BY <1>1, <1>2, <1>3 DEF SmpRunPerProcessor, Goto, SmpInv, TypeOK
<1>5. \A u \in Callers : u # t => SmpCall(u)'
  <2> SUFFICES ASSUME NEW u \in Callers, u # t PROVE SmpCall(u)'
    OBVIOUS
  <2>1. /\ pc'[u] = pc[u] /\ dpc'[u] = dpc[u] /\ at'[u] = at[u] /\ sync'[u] = sync[u]
        /\ error'[u] = error[u] /\ bad'[u] = bad[u] /\ ok'[u] = ok[u] /\ job'[u] = job[u]
    BY <1>1, <1>2 DEF SmpRunPerProcessor, Goto, SmpInv, TypeOK
  <2> QED BY <2>1, OthersKeepTheirCalls DEF SmpInv
<1>6. SmpCall(t)'
  <2>1. /\ pc'[t] = "smp" /\ at'[t] = p /\ sync'[t] = 0 /\ error'[t] = FALSE
        /\ bad'[t] = F /\ job'[t] = callback /\ F \subseteq Cpus
        /\ \A x \in Cpus : dpc'[t][x] = "queued"
    BY <1>1, <1>2 DEF SmpRunPerProcessor, Goto, SmpInv, TypeOK
  <2>2. Counted(t)' = {}
    BY <2>1 DEF Counted
  <2> QED BY <2>1, <2>2, FS_EmptySet DEF SmpCall
<1> QED BY <1>4, <1>5, <1>6

(* DpcRoutine on a processor: the callback, the error, the count.          *)
LEMMA DpcKeepsSmpInv ==
    ASSUME SmpInv, NEW t \in Callers, NEW p \in Cpus, DpcStep(t, p)
    PROVE  SmpInv'
<1>0. /\ pc[t] = "smp" /\ SmpCall(t) /\ dpc[t] \in [Cpus -> {"none", "queued", "fail", "count"}]
      /\ bad[t] \in SUBSET Cpus
      /\ dpc[t][p] # "none"
  BY DEF DpcStep, DpcCallback, DpcError, DpcCount, At, SmpInv, TypeOK
<1>1. CASE DpcCallback(t, p)
  <2>1. CASE Breaks(t, p)
    <3>1. TypeOK' /\ UNCHANGED <<pc, ok, smp>>
      BY <1>1, <2>1 DEF DpcCallback, Fault, global, flags, caller, smp, SmpInv, TypeOK
    <3> QED BY <3>1, OthersKeepTheirCalls DEF SmpInv, smp
  <2>2. CASE ~ Breaks(t, p)
    <3> DEFINE x == IF p \in bad[t] THEN "fail" ELSE "count"
    <3>1. /\ dpc[t][p] = "queued" /\ vmx' = [vmx EXCEPT ![p] = VmxAfter(t, p)]
          /\ dpc' = [dpc EXCEPT ![t][p] = x]
          /\ UNCHANGED <<global, flags, caller, at, job, bad, sync, error, fault>>
      BY <1>1, <2>2 DEF DpcCallback
    <3>2. VmxAfter(t, p) \in Hvms \cup {NULL}
      BY DEF VmxAfter, SmpInv, TypeOK
    <3>3. TypeOK'
      BY <3>1, <3>2 DEF SmpInv, TypeOK, global, flags, caller
    <3>4. \A u \in Callers : u # t => SmpCall(u)'
      BY <3>1, OthersKeepTheirCalls DEF SmpInv, TypeOK, caller
    <3>5. /\ dpc'[t][p] = x
          /\ \A y \in Cpus : y # p => dpc'[t][y] = dpc[t][y]
      BY <1>0, <3>1 DEF SmpInv, TypeOK
    <3>6. Counted(t)' = Counted(t)
      BY <3>1, <3>5 DEF Counted
    <3>7. SmpCall(t)'
      BY <1>0, <3>1, <3>5, <3>6 DEF SmpCall, caller
    <3> QED BY <3>3, <3>4, <3>7 DEF SmpInv
  <2> QED BY <2>1, <2>2
<1>2. CASE DpcError(t, p)
  <2>1. /\ dpc[t][p] = "fail" /\ error' = [error EXCEPT ![t] = TRUE]
        /\ dpc' = [dpc EXCEPT ![t][p] = "count"]
        /\ UNCHANGED <<global, flags, vmx, caller, at, job, bad, sync, fault>>
    BY <1>2 DEF DpcError
  <2>2. TypeOK'
    BY <2>1 DEF SmpInv, TypeOK, global, flags, caller
  <2>3. \A u \in Callers : u # t => SmpCall(u)'
    BY <2>1, OthersKeepTheirCalls DEF SmpInv, TypeOK, caller
  <2>4. /\ dpc'[t][p] = "count" /\ error'[t] = TRUE
        /\ \A y \in Cpus : y # p => dpc'[t][y] = dpc[t][y]
    BY <1>0, <2>1 DEF SmpInv, TypeOK
  <2>5. Counted(t)' = Counted(t)
    BY <2>1, <2>4 DEF Counted
  <2>6. SmpCall(t)'
    BY <1>0, <2>1, <2>4, <2>5 DEF SmpCall, caller
  <2> QED BY <2>2, <2>3, <2>6 DEF SmpInv
<1>3. CASE DpcCount(t, p)
  <2>1. /\ dpc[t][p] = "count" /\ sync' = [sync EXCEPT ![t] = @ + 1]
        /\ dpc' = [dpc EXCEPT ![t][p] = "none"]
        /\ UNCHANGED <<global, flags, vmx, caller, at, job, bad, error, fault>>
    BY <1>3 DEF DpcCount
  <2>2. /\ dpc'[t][p] = "none"
        /\ \A y \in Cpus : y # p => dpc'[t][y] = dpc[t][y]
    BY <1>0, <2>1 DEF SmpInv, TypeOK
  <2>3. Counted(t)' = Counted(t) \cup {p} /\ p \notin Counted(t)
    BY <2>1, <2>2 DEF Counted
  <2>4. /\ IsFiniteSet(Counted(t)) /\ Cardinality(Counted(t)) \in Nat
        /\ Cardinality(Cpus) \in Nat
        /\ Cardinality(Counted(t) \cup {p}) = Cardinality(Counted(t)) + 1
        /\ Cardinality(Counted(t) \cup {p}) <= Cardinality(Cpus)
    <3>1. IsFiniteSet(Counted(t)) /\ Cardinality(Counted(t)) \in Nat /\ Cardinality(Cpus) \in Nat
      BY CpusAssumption, FS_Subset, FS_CardinalityType DEF Counted
    <3>2. Cardinality(Counted(t) \cup {p}) = Cardinality(Counted(t)) + 1
      BY <2>3, <3>1, FS_AddElement
    <3>3. Counted(t) \cup {p} \in SUBSET Cpus
      BY DEF Counted
    <3>4. Cardinality(Counted(t) \cup {p}) <= Cardinality(Cpus)
      BY <3>3, CpusAssumption, FS_Subset
    <3> QED BY <3>1, <3>2, <3>4
  <2>5. sync[t] = Cardinality(Counted(t))
    BY <1>0, <2>3 DEF SmpCall
  <2>6. sync'[t] = Cardinality(Counted(t)') /\ sync'[t] \in 0..Cardinality(Cpus)
    BY <2>1, <2>3, <2>4, <2>5 DEF SmpInv, TypeOK
  <2>7. TypeOK'
    BY <2>1, <2>6 DEF SmpInv, TypeOK, global, flags, caller
  <2>8. \A u \in Callers : u # t => SmpCall(u)'
    BY <2>1, OthersKeepTheirCalls DEF SmpInv, TypeOK, caller
  <2>9. SmpCall(t)'
    BY <1>0, <2>1, <2>2, <2>6 DEF SmpCall, caller
  <2> QED BY <2>7, <2>8, <2>9 DEF SmpInv
<1> QED BY <1>1, <1>2, <1>3 DEF DpcStep

(* The spin and the return.  The counter is 0 with the caller's own        *)
(* DpcRoutine over only when all are, and then every error has been set.   *)
LEMMA SpinKeepsSmpInv ==
    ASSUME SmpInv, NEW t \in Callers, SmpSpin(t) \/ SmpReturn(t)
    PROVE  SmpInv'
<1>0. /\ pc[t] = "smp" /\ SmpCall(t) /\ at[t] \in Cpus /\ dpc[t][at[t]] = "none"
      /\ bad[t] \in SUBSET Cpus
      /\ IsFiniteSet(Counted(t)) /\ Counted(t) \in SUBSET Cpus /\ at[t] \in Counted(t)
  <2>1. pc[t] = "smp" /\ SmpCall(t) /\ dpc[t][at[t]] = "none" /\ bad[t] \in SUBSET Cpus
    BY DEF SmpSpin, SmpReturn, At, Inline, SmpInv, TypeOK
  <2>2. at[t] \in Cpus
    BY <2>1 DEF SmpCall
  <2> QED BY <2>1, <2>2, CpusAssumption, FS_Subset DEF Counted
<1>1. Cardinality(Counted(t)) \in Nat \ {0} /\ Cardinality(Cpus) \in Nat
  BY <1>0, CpusAssumption, FS_EmptySet, FS_CardinalityType
<1>2. sync[t] \in {0, Cardinality(Cpus)} => Counted(t) = Cpus
  BY <1>0, <1>1, CpusAssumption, FS_Subset DEF SmpCall
<1>3. CASE SmpSpin(t)
  <2>1. /\ sync[t] = Cardinality(Cpus) /\ sync' = [sync EXCEPT ![t] = 0]
        /\ UNCHANGED <<global, flags, vmx, caller, at, job, bad, dpc, error, fault>>
    BY <1>3 DEF SmpSpin
  <2>2. TypeOK'
    BY <1>1, <2>1 DEF SmpInv, TypeOK, global, flags, caller
  <2>3. \A u \in Callers : u # t => SmpCall(u)'
    BY <2>1, OthersKeepTheirCalls DEF SmpInv, TypeOK, caller
  <2>4. Counted(t)' = Cpus /\ sync'[t] = 0
    BY <1>2, <2>1 DEF Counted, SmpInv, TypeOK
  <2>5. SmpCall(t)'
    BY <1>0, <2>1, <2>4 DEF SmpCall, caller
  <2> QED BY <2>2, <2>3, <2>5 DEF SmpInv
<1>4. CASE SmpReturn(t)
  <2>1. /\ sync[t] = 0 /\ ok' = [ok EXCEPT ![t] = ~ error[t]] /\ at' = [at EXCEPT ![t] = NoCpu]
        /\ pc' = [pc EXCEPT ![t] = "after"]
        /\ UNCHANGED <<global, flags, vmx, req, hvm, job, bad, dpc, sync, error, fault>>
    BY <1>4 DEF SmpReturn, Goto
  <2>2. TypeOK'
    BY <2>1 DEF SmpInv, TypeOK, global, flags
  <2>3. \A u \in Callers : u # t => SmpCall(u)'
    BY <2>1, OthersKeepTheirCalls DEF SmpInv, TypeOK
  <2>4. \A p \in Cpus : dpc[t][p] = "none"
    BY <1>2, <2>1 DEF Counted
  <2>5. error[t] <=> bad[t] # {}
    BY <1>0, <2>4 DEF SmpCall
  <2>6. pc'[t] = "after" /\ ok'[t] = ~ error[t]
    BY <2>1 DEF SmpInv, TypeOK
  <2>7. SmpCall(t)'
    BY <1>0, <2>1, <2>4, <2>5, <2>6 DEF SmpCall
  <2> QED BY <2>2, <2>3, <2>7 DEF SmpInv
<1> QED BY <1>3, <1>4

LEMMA FaultKeepsSmpInv == SmpInv /\ Fault => SmpInv'
<1> SUFFICES ASSUME SmpInv, Fault PROVE SmpInv'
  OBVIOUS
<1>1. TypeOK'
  BY DEF Fault, global, flags, caller, smp, SmpInv, TypeOK
<1>2. \A u \in Callers : SmpCall(u)'
  BY OthersKeepTheirCalls DEF Fault, caller, smp, SmpInv
<1> QED BY <1>1, <1>2 DEF SmpInv

(* What a caller decides is one of its next steps.                         *)
LEMMA DecideKeepsSmpInv ==
    ASSUME SmpInv, NEW t \in Callers, NEW running \in BOOLEAN,
           pc[t] \in {"check", "check2"}, Decide(t, running)
    PROVE  SmpInv'
<1>1. Proceed(t, running) \in {"idle", "initialize", "halt", "finish"}
  BY DEF Proceed
<1>2. TypeOK'
  BY <1>1 DEF Decide, Goto, global, smp, SmpInv, TypeOK
<1>3. \A u \in Callers : SmpCall(u)'
  BY <1>1, OutsideSmp DEF Decide
<1> QED BY <1>2, <1>3 DEF SmpInv

(* The steps of a caller in the entry points, DsLoadHvm and DsUnloadHvm.   *)
LEMMA CallerKeepsSmpInv ==
    ASSUME SmpInv, NEW t \in Callers, CallerStep(t)
    PROVE  SmpInv'
<1> USE DEF global, flags, smp
<1>1. CASE Check(t)
  <2>1. CASE gHvm = NULL
    BY <1>1, <2>1, DecideKeepsSmpInv DEF Check, At
  <2>2. CASE gHvm # NULL
    <3>1. Goto(t, "check2") /\ UNCHANGED <<global, flags, vmx, req, hvm, ok, smp, fault>> /\ pc[t] = "check"
      BY <1>1, <2>2 DEF Check, At
    <3>2. TypeOK'
      BY <3>1 DEF Goto, SmpInv, TypeOK
    <3> QED BY <3>1, <3>2, OutsideSmp DEF SmpInv
  <2> QED BY <2>1, <2>2
<1>2. CASE CheckLaunched(t)
  <2>1. CASE Usable(gHvm)
    <3>1. launched[gHvm] \in BOOLEAN
      BY <2>1 DEF Usable, SmpInv, TypeOK
    <3> QED BY <1>2, <2>1, <3>1, DecideKeepsSmpInv DEF CheckLaunched, At
  <2> QED BY <1>2, <2>1, FaultKeepsSmpInv DEF CheckLaunched
<1>3. CASE InitializeFails(t)
  <2>1. TypeOK'
    BY <1>3 DEF InitializeFails, Goto, SmpInv, TypeOK
  <2> QED BY <1>3, <2>1, OutsideSmp DEF InitializeFails, At, SmpInv
<1>4. CASE Initialize(t)
  <2>1. Fresh \in Hvms
    BY <1>4 DEF Initialize, Fresh
  <2>2. CASE /\ ctxMem' = [ctxMem EXCEPT ![Fresh] = "live"]
             /\ gContexts' = Fresh
             /\ SmpRunPerProcessor(t, "contexts", SUBSET Cpus)
    <3>1. ok' = ok /\ "contexts" \in Jobs \ {"none"}
      BY <1>4 DEF Initialize, Jobs
    <3>2. TypeOK'
      BY <1>4, <2>1, <2>2, <3>1, SmpBegins DEF Initialize, SmpInv, TypeOK
    <3> QED BY <2>2, <3>1, <3>2, SmpBegins DEF SmpInv
  <2>3. CASE Goto(t, "discard") /\ UNCHANGED <<ctxMem, gContexts, smp>>
    <3>1. TypeOK'
      BY <1>4, <2>1, <2>3 DEF Initialize, Goto, SmpInv, TypeOK
    <3> QED BY <1>4, <2>3, <3>1, OutsideSmp DEF Initialize, At, SmpInv
  <2> QED BY <1>4, <2>2, <2>3 DEF Initialize
<1>5. CASE AfterContexts(t)
  <2> DEFINE step == IF ok[t] THEN "launch" ELSE "discard"
  <2>1. Goto(t, step) /\ step \notin {"smp", "after"} /\ pc[t] # "smp" /\ UNCHANGED <<smp, ok>>
    BY <1>5 DEF AfterContexts, At
  <2>2. TypeOK'
    BY <1>5, <2>1 DEF AfterContexts, Goto, SmpInv, TypeOK
  <2> HIDE DEF step
  <2> QED BY <2>1, <2>2, OutsideSmp DEF SmpInv
<1>6. CASE Launch(t)
  <2>1. CASE ~ Usable(gHvm)
    BY <1>6, <2>1, FaultKeepsSmpInv DEF Launch
  <2>2. CASE Usable(gHvm) /\ launched[gHvm]
    <3>1. /\ ok' = [ok EXCEPT ![t] = FALSE] /\ Goto(t, "unstart") /\ pc[t] # "smp"
          /\ UNCHANGED <<global, flags, vmx, req, hvm, smp, fault>>
      BY <1>6, <2>2 DEF Launch, At
    <3>2. TypeOK'
      BY <3>1 DEF Goto, SmpInv, TypeOK
    <3>3. \A u \in Callers : u # t => ok'[u] = ok[u]
      BY <3>1 DEF SmpInv, TypeOK
    <3> QED BY <3>1, <3>2, <3>3, OutsideSmp DEF SmpInv
  <2>3. CASE Usable(gHvm) /\ ~ launched[gHvm]
    <3>1. /\ hvm' = [hvm EXCEPT ![t] = gHvm] /\ SmpRunPerProcessor(t, "launch", LaunchFailures)
          /\ UNCHANGED <<global, flags, vmx, req, ok, fault>>
          /\ "launch" \in Jobs \ {"none"} /\ LaunchFailures \in SUBSET (SUBSET Cpus)
      BY <1>6, <2>3, FailuresAssumption DEF Launch, Jobs
    <3>2. TypeOK'
      BY <3>1, SmpBegins DEF SmpInv, TypeOK
    <3> QED BY <3>1, <3>2, SmpBegins DEF SmpInv
  <2> QED BY <2>1, <2>2, <2>3
<1>7. CASE AfterLaunch(t)
  <2>1. CASE ok[t] /\ ~ Usable(hvm[t])
    BY <1>7, <2>1, FaultKeepsSmpInv DEF AfterLaunch
  <2>2. CASE ~ (ok[t] /\ ~ Usable(hvm[t]))
    <3> DEFINE step == IF ok[t] THEN "finish" ELSE "unstart"
    <3>1. /\ Goto(t, step) /\ step \in {"finish", "unstart"} /\ pc[t] # "smp"
          /\ launched' = [launched EXCEPT ![hvm[t]] = @ \/ ok[t]]
          /\ UNCHANGED <<gHvm, gContexts, hvmMem, ctxMem, flags, vmx, req, hvm, ok, smp, fault>>
      BY <1>7, <2>2 DEF AfterLaunch, At
    <3> HIDE DEF step
    <3>2. TypeOK'
      BY <3>1 DEF Goto, SmpInv, TypeOK
    <3> QED BY <3>1, <3>2, OutsideSmp DEF SmpInv
  <2> QED BY <2>1, <2>2
<1>8. CASE Stop(t)
  <2>1. CASE ~ Usable(gHvm)
    BY <1>8, <2>1, FaultKeepsSmpInv DEF Stop
  <2>2. CASE Usable(gHvm) /\ ~ launched[gHvm]
    <3> DEFINE step == IF pc[t] = "halt" THEN "finish" ELSE "finalize"
    <3>1. /\ Goto(t, step) /\ step \in {"finish", "finalize"} /\ pc[t] # "smp"
          /\ UNCHANGED <<global, flags, vmx, req, hvm, ok, smp, fault>>
      BY <1>8, <2>2 DEF Stop, At
    <3> HIDE DEF step
    <3>2. TypeOK'
      BY <3>1 DEF Goto, SmpInv, TypeOK
    <3> QED BY <3>1, <3>2, OutsideSmp DEF SmpInv
  <2>3. CASE Usable(gHvm) /\ launched[gHvm]
    <3>1. /\ hvm' = [hvm EXCEPT ![t] = gHvm] /\ SmpRunPerProcessor(t, "stop", {{}})
          /\ UNCHANGED <<global, flags, vmx, req, ok, fault>>
          /\ "stop" \in Jobs \ {"none"}
      BY <1>8, <2>3 DEF Stop, Jobs
    <3>2. TypeOK'
      BY <3>1, SmpBegins DEF SmpInv, TypeOK
    <3> QED BY <3>1, <3>2, SmpBegins DEF SmpInv
  <2> QED BY <2>1, <2>2, <2>3
<1>9. CASE AfterStop(t)
  <2>1. CASE ~ Usable(hvm[t])
    BY <1>9, <2>1, FaultKeepsSmpInv DEF AfterStop
  <2>2. CASE Usable(hvm[t])
    <3>1. /\ Goto(t, "finalize") /\ pc[t] # "smp"
          /\ launched' = [launched EXCEPT ![hvm[t]] = FALSE]
          /\ ok' = [ok EXCEPT ![t] = req[t] \notin Starts]
          /\ UNCHANGED <<gHvm, gContexts, hvmMem, ctxMem, flags, vmx, req, hvm, smp, fault>>
      BY <1>9, <2>2 DEF AfterStop, At
    <3>2. TypeOK'
      BY <3>1 DEF Goto, SmpInv, TypeOK
    <3>3. \A u \in Callers : u # t => ok'[u] = ok[u]
      BY <3>1 DEF SmpInv, TypeOK
    <3> QED BY <3>1, <3>2, <3>3, OutsideSmp DEF SmpInv
  <2> QED BY <2>1, <2>2
<1>10. CASE Finalize(t)
  <2>1. CASE gHvm # NULL /\ hvmMem[gHvm] # "live"
    BY <1>10, <2>1, FaultKeepsSmpInv DEF Finalize
  <2>2. CASE ~ (gHvm # NULL /\ hvmMem[gHvm] # "live")
    <3>1. /\ Goto(t, "delete") /\ pc[t] # "smp" /\ gHvm' = NULL
          /\ hvmMem' = [h \in Hvms |-> IF h = gHvm THEN "freed" ELSE hvmMem[h]]
          /\ UNCHANGED <<gContexts, ctxMem, launched, flags, vmx, req, hvm, ok, smp, fault>>
      BY <1>10, <2>2 DEF Finalize, At
    <3>2. TypeOK'
      BY <3>1 DEF Goto, SmpInv, TypeOK
    <3> QED BY <3>1, <3>2, OutsideSmp DEF SmpInv
  <2> QED BY <2>1, <2>2
<1>11. CASE Delete(t)
  <2>1. CASE gContexts = NULL
    <3> DEFINE step == IF pc[t] = "discard" THEN "abandon" ELSE "finish"
    <3>1. /\ Goto(t, step) /\ step \in {"abandon", "finish"} /\ pc[t] # "smp"
          /\ UNCHANGED <<global, flags, vmx, req, hvm, ok, smp, fault>>
      BY <1>11, <2>1 DEF Delete, At
    <3> HIDE DEF step
    <3>2. TypeOK'
      BY <3>1 DEF Goto, SmpInv, TypeOK
    <3> QED BY <3>1, <3>2, OutsideSmp DEF SmpInv
  <2>2. CASE gContexts # NULL
    <3>1. /\ SmpRunPerProcessor(t, pc[t], {{}})
          /\ UNCHANGED <<global, flags, vmx, req, hvm, ok, fault>>
          /\ pc[t] \in Jobs \ {"none"} /\ {{}} \in SUBSET (SUBSET Cpus)
      BY <1>11, <2>2 DEF Delete, At, Jobs
    <3>2. /\ \A u \in Callers : SmpCall(u)'
          /\ at' \in [Callers -> Cpus \cup {NoCpu}] /\ job' \in [Callers -> Jobs]
          /\ bad' \in [Callers -> SUBSET Cpus]
          /\ dpc' \in [Callers -> [Cpus -> {"none", "queued", "fail", "count"}]]
          /\ sync' \in [Callers -> 0..Cardinality(Cpus)] /\ error' \in [Callers -> BOOLEAN]
          /\ pc' = [pc EXCEPT ![t] = "smp"]
      BY <3>1, SmpBegins
    <3>3. TypeOK'
      BY <3>1, <3>2 DEF SmpInv, TypeOK
    <3> QED BY <3>2, <3>3 DEF SmpInv
  <2> QED BY <2>1, <2>2
<1>12. CASE AfterDelete(t)
  <2> DEFINE step == IF job[t] = "discard" THEN "abandon" ELSE "finish"
             new == job[t] = "delete" /\ req[t] \notin Starts
  <2>1. /\ Goto(t, step) /\ step \in {"abandon", "finish"} /\ pc[t] # "smp"
        /\ ctxMem' = [h \in Hvms |-> IF h = gContexts THEN "freed" ELSE ctxMem[h]]
        /\ gContexts' = NULL
        /\ ok' = [ok EXCEPT ![t] = new] /\ new \in BOOLEAN
        /\ UNCHANGED <<gHvm, hvmMem, launched, flags, vmx, req, hvm, smp, fault>>
    BY <1>12 DEF AfterDelete, At
  <2> HIDE DEF step, new
  <2>2. TypeOK'
    BY <2>1 DEF Goto, SmpInv, TypeOK
  <2>3. \A u \in Callers : u # t => ok'[u] = ok[u]
    BY <2>1 DEF SmpInv, TypeOK
  <2> QED BY <2>1, <2>2, <2>3, OutsideSmp DEF SmpInv
<1>13. CASE Abandon(t)
  <2>1. TypeOK'
    BY <1>13 DEF Abandon, Goto, SmpInv, TypeOK
  <2> QED BY <1>13, <2>1, OutsideSmp DEF Abandon, At, SmpInv
<1>14. CASE SmpSpin(t) \/ SmpReturn(t)
  BY <1>14, SpinKeepsSmpInv
<1>15. CASE Finish(t)
  <2>1. started' \in BOOLEAN /\ suspended' \in BOOLEAN
    <3>1. started \in BOOLEAN /\ suspended \in BOOLEAN
      BY DEF SmpInv, TypeOK
    <3>2. CASE ok[t]
      BY <1>15, <3>1, <3>2 DEF Finish
    <3>3. CASE ~ ok[t]
      BY <1>15, <3>1, <3>3 DEF Finish
    <3> QED BY <3>2, <3>3
  <2>2. TypeOK'
    BY <1>15, <2>1 DEF Finish, Goto, SmpInv, TypeOK
  <2> QED BY <1>15, <2>2, OutsideSmp DEF Finish, At, SmpInv
<1>16. CASE Unregister(t)
  <2>1. TypeOK'
    BY <1>16 DEF Unregister, Goto, SmpInv, TypeOK
  <2> QED BY <1>16, <2>1, OutsideSmp DEF Unregister, At, SmpInv
<1> QED BY <1>1, <1>2, <1>3, <1>4, <1>5, <1>6, <1>7, <1>8, <1>9, <1>10, <1>11, <1>12, <1>13,
           <1>14, <1>15, <1>16 DEF CallerStep

LEMMA SmpInvInit == Init => SmpInv
<1> SUFFICES ASSUME Init PROVE SmpInv
  OBVIOUS
<1>1. Cardinality(Cpus) \in Nat
  BY CpusAssumption, FS_CardinalityType
<1>2. /\ hvmMem \in [Hvms -> {"unused", "live", "freed"}] /\ launched \in [Hvms -> BOOLEAN]
      /\ ctxMem \in [Hvms -> {"unused", "live", "freed"}] /\ vmx \in [Cpus -> Hvms \cup {NULL}]
  BY DEF Init
<1>3. /\ at \in [Callers -> Cpus \cup {NoCpu}] /\ job \in [Callers -> Jobs]
      /\ bad \in [Callers -> SUBSET Cpus]
      /\ dpc \in [Callers -> [Cpus -> {"none", "queued", "fail", "count"}]]
      /\ sync \in [Callers -> 0..Cardinality(Cpus)] /\ error \in [Callers -> BOOLEAN]
  BY <1>1 DEF Init, Jobs
<1>4. TypeOK
  BY <1>2, <1>3 DEF Init, TypeOK
<1> QED BY <1>4 DEF Init, SmpInv, SmpCall

LEMMA SmpInvStep == SmpInv /\ [Next]_vars => SmpInv'
<1> SUFFICES ASSUME SmpInv, [Next]_vars PROVE SmpInv'
  OBVIOUS
<1>1. ASSUME NEW t \in Callers, NEW r \in Requests, Request(t, r) PROVE SmpInv'
  <2>1. /\ pc[t] = "idle" /\ req' = [req EXCEPT ![t] = r] /\ ok' = [ok EXCEPT ![t] = FALSE]
        /\ Goto(t, "check") /\ UNCHANGED <<global, flags, vmx, hvm, smp, fault>>
        /\ r \in AllRequests
    BY <1>1, RequestsAssumption DEF Request, At
  <2>2. TypeOK'
    BY <2>1 DEF Goto, SmpInv, TypeOK, global, flags, smp
  <2>3. \A u \in Callers : u # t => ok'[u] = ok[u]
    BY <2>1 DEF SmpInv, TypeOK
  <2> QED BY <2>1, <2>2, <2>3, OutsideSmp DEF SmpInv
<1>2. ASSUME NEW t \in Callers, CallerStep(t) PROVE SmpInv'
  BY <1>2, CallerKeepsSmpInv
<1>3. ASSUME NEW t \in Callers, NEW p \in Cpus, DpcStep(t, p) PROVE SmpInv'
  BY <1>3, DpcKeepsSmpInv
<1>4. CASE UNCHANGED vars
  <2>1. TypeOK'
    BY <1>4 DEF vars, global, flags, caller, smp, SmpInv, TypeOK
  <2> QED BY <1>4, <2>1, OthersKeepTheirCalls DEF vars, caller, smp, SmpInv
<1> QED BY <1>1, <1>2, <1>3, <1>4 DEF Next

(* SmpRunPerProcessor (smp.c), for any number of processors and callers    *)
(* that start and stop the shield at the same time: a call returns after   *)
(* its last DpcRoutine, and with an error exactly when a processor failed. *)
THEOREM SmpCallsAreSound == Spec => [](TypeOK /\ SmpReturnsLast /\ SmpReportsErrors)
<1>1. SmpInv => TypeOK /\ SmpReturnsLast /\ SmpReportsErrors
  BY DEF SmpInv, SmpCall, SmpReturnsLast, SmpReportsErrors
<1> QED BY <1>1, SmpInvInit, SmpInvStep, PTL DEF Spec
=============================================================================
