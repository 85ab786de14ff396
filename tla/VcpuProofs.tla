----------------------------- MODULE VcpuProofs -----------------------------
(***************************************************************************)
(* Proofs about Vcpu, for every set of capability MSRs, every number of    *)
(* threads and page directories and every bound on what is executed.  What *)
(* is said of exits and registers does not depend on the detector's        *)
(* verdicts; its table is dealt with at the end.                           *)
(***************************************************************************)
EXTENDS Vcpu, FiniteSetTheorems, WellFoundedInduction, TLAPS

Regs == [cr3 : Cr3s, cr4 : SUBSET Cr4Bits]
Written == [cr3 : Cr3s, cr4 : SUBSET Cr4Bits, written : BOOLEAN]

Shape ==
    /\ caps \in [Cpus -> CapSets] /\ tf \in BOOLEAN
    /\ os \in Regs /\ asked \in Written
    /\ vmcs = [cr3 |-> vmcs.cr3, cr4 |-> vmcs.cr4, mask |-> vmcs.mask, shadow |-> vmcs.shadow,
               host |-> vmcs.host, ctl |-> vmcs.ctl]
-----------------------------------------------------------------------------
(* How exits end.                                                          *)

ExitInv ==
    /\ ExitsComplete
    /\ \/ leaf = "none" /\ tries = 0
       \/ leaf = "interface" /\ tries = 1
       \/ leaf = "xL" /\ tries \in {1, 2}

(* What the handlers do to the instruction that exits, one by one.         *)
LEMMA StepEnds ==
    ASSUME Next
    PROVE  \/ leaf = "none" /\ InstrRipAdvance /\ UNCHANGED cpuid
           \/ leaf = "none" /\ UNCHANGED cpuid /\ \E e \in {"UD", "GP"} : VmInject(e)
           \/ UNCHANGED <<out, cpuid>>
           \/ UNCHANGED cpuid /\ leaf = "none" /\ out' = [done |-> TRUE, event |-> "none"]
           \/ Cpuid
<1> USE DEF cpuid
<1>1. CASE Launch
  BY <1>1 DEF Launch
<1>2. CASE SingleStep
  BY <1>2 DEF SingleStep
<1>3. CASE WorkerExempts
  BY <1>3 DEF WorkerExempts
<1>4. CASE Stop
  BY <1>4 DEF Stop, Op
<1>5. CASE UnknownService \/ InstrInvdEmulate \/ HvmHandleMsrReadFsBase
  BY <1>5 DEF UnknownService, InstrInvdEmulate, HvmHandleMsrReadFsBase, Completes, Op
<1>6. CASE MovToCr4
  <2>1. leaf = "none" /\ UNCHANGED cpuid
    BY <1>6 DEF MovToCr4, Op
  <2>2. PICK v \in SUBSET Cr4Bits : MovToCr4Unseen(v) \/ MovToCr4Exit(v)
    BY <1>6 DEF MovToCr4
  <2> QED BY <2>1, <2>2 DEF MovToCr4Unseen, MovToCr4Exit
<1>7. CASE MovToCr3
  <2>1. leaf = "none" /\ UNCHANGED cpuid
    BY <1>7 DEF MovToCr3, Op
  <2>2. InstrRipAdvance \/ UNCHANGED <<out, tf>>
    BY <1>7 DEF MovToCr3
  <2> QED BY <2>1, <2>2
<1>8. CASE Cpuid
  BY <1>8
<1>9. CASE Xsetbv
  <2>1. leaf = "none" /\ UNCHANGED cpuid
    BY <1>9 DEF Xsetbv, Op
  <2>2. PICK x \in Xcr0 : XsetbvEnd(x)
    BY <1>9 DEF Xsetbv
  <2>3. InstrXsetbvEmulate(x) \in {"GP", "UD", "fault"}
    BY DEF InstrXsetbvEmulate
  <2>4. CASE InstrXsetbvEmulate(x) = "fault"
    BY <2>1, <2>2, <2>4 DEF XsetbvEnd
  <2>5. CASE InstrXsetbvEmulate(x) # "fault"
    BY <2>1, <2>2, <2>3, <2>5 DEF XsetbvEnd
  <2> QED BY <2>4, <2>5
<1>10. CASE InstrMsrEmulate \/ UnknownExit
  BY <1>10 DEF InstrMsrEmulate, UnknownExit, Completes, Crashes, Op
<1>11. CASE SwitchThread
  BY <1>11 DEF SwitchThread
<1>12. CASE VmxInstruction \/ OtherException
  BY <1>12 DEF VmxInstruction, OtherException, Injects, Op
<1>13. CASE VmRdtscEmulate
  BY <1>13 DEF VmRdtscEmulate, Traps
<1>14. CASE Reflect
  BY <1>14 DEF Reflect, Traps, Op
<1> QED BY <1>1, <1>2, <1>3, <1>4, <1>5, <1>6, <1>7, <1>8, <1>9, <1>10, <1>11, <1>12, <1>13, <1>14
        DEF Next, HvmpExitHandler, DsHvmExitHandler

(* DsHvmExitHandler: whatever the guest executes, an exit completes the    *)
(* instruction, faults it, or lets a CPUID be executed again, and that at  *)
(* most twice although the VMM leaves do not advance RIP.                  *)
THEOREM ExitsAreFinished == Spec => []ExitsEnd
<1>1. Init => ExitInv
  BY DEF Init, ExitInv, ExitsComplete
<1>2. ASSUME ExitInv, [Next]_vars PROVE ExitInv'
  <2>1. CASE UNCHANGED <<out, leaf, tries>>
    BY <1>2, <2>1 DEF ExitInv, ExitsComplete
  <2>2. CASE Cpuid
    <3>1. PICK l \in IF leaf = "none" THEN {"vendor", "interface", "feature"} ELSE {leaf} :
            /\ leaf' = CpuidEmulate(l)
            /\ IF CpuidEmulate(l) = "none"
                 THEN InstrRipAdvance /\ tries' = 0
                 ELSE /\ tries' = tries + 1
                      /\ out' = [done |-> FALSE, event |-> "none"]
                      /\ UNCHANGED tf
      BY <2>2 DEF Cpuid
    <3>2. CASE CpuidEmulate(l) = "none"
      BY <3>1, <3>2 DEF ExitInv, ExitsComplete, InstrRipAdvance
    <3>3. CASE CpuidEmulate(l) # "none"
      <4>1. leaf' = CpuidEmulate(l) /\ tries' = tries + 1 /\ out' = [done |-> FALSE, event |-> "none"]
        BY <3>1, <3>3
      <4>2. \/ leaf' = "interface" /\ tries' = 1
            \/ leaf' = "xL" /\ tries' \in {1, 2}
        BY <1>2, <3>1, <3>3, <4>1 DEF CpuidEmulate, ExitInv
      <4> QED BY <4>1, <4>2 DEF ExitInv, ExitsComplete
    <3> QED BY <3>2, <3>3
  <2>3. ASSUME leaf = "none", UNCHANGED cpuid,
               InstrRipAdvance \/ (\E e \in {"UD", "GP"} : VmInject(e))
                 \/ out' = [done |-> TRUE, event |-> "none"]
        PROVE  ExitInv'
    BY <1>2, <2>3 DEF ExitInv, ExitsComplete, InstrRipAdvance, VmInject, cpuid
  <2> QED BY <1>2, <2>1, <2>2, <2>3, StepEnds DEF cpuid, vars
<1>3. ExitInv => ExitsEnd
  BY DEF ExitInv, ExitsEnd, CpuidEnds
<1> QED BY <1>1, <1>2, <1>3, PTL DEF Spec
-----------------------------------------------------------------------------
(* The registers.  HvmInitialize compares the controls of the processors   *)
(* and not the bits VMX fixes in CR4, which gVmState.Fixed takes from the  *)
(* first processor for all of them.  The theorems below are about machines *)
(* on which processors with the same controls have the same CR4 bits.      *)

Controls(c, f) == IF c.TrueControls /\ f # "secondary" THEN c.True[f] ELSE c.Std[f]
Allowed(c, f) ==
    IF f = "secondary" /\ "SecondaryControl" \notin Controls(c, "primary").high \cup Controls(c, "primary").low
    THEN {} ELSE Controls(c, f).high \cup Controls(c, f).low
Homogeneous ==
    \A c, d \in CapSets :
        c.Revision = d.Revision /\ (\A f \in Fields : Allowed(c, f) = Allowed(d, f))
            => c.Cr4Maybe1 = d.Cr4Maybe1

ControlsAllowed(ctl) ==
    \A f \in Fields :
        \/ f = "secondary" /\ "SecondaryControl" \notin ctl.primary
        \/ Msr(Self, f).low \subseteq ctl[f] /\ ctl[f] \subseteq Msr(Self, f).high

(* In the guest: TSD and VMXE are the host's; the shadow shows the guest   *)
(* the TSD it has written, and the other bits are its own.                 *)
InGuest ==
    /\ caps[Self].Cr4Maybe1 = caps[Boot].Cr4Maybe1
    /\ vmcs.mask = VMXE \cup TSD
    /\ vmcs.shadow = IF asked.written THEN asked.cr4 \cap TSD ELSE {}
    /\ VMXE \subseteq vmcs.cr4 /\ vmcs.cr4 \subseteq caps[Self].Cr4Maybe1
    /\ vmcs.cr4 \cap OSXSAVE = asked.cr4 \cap OSXSAVE
    /\ vmcs.cr3 = asked.cr3
    /\ ControlsAllowed(vmcs.ctl)

RegInv ==
    /\ Shape
    /\ vmx = "off" => /\ os.cr3 = asked.cr3 /\ os.cr4 \ TSD = asked.cr4 \ (VMXE \cup TSD)
                      /\ os.cr4 \subseteq caps[Self].Cr4Maybe1
    /\ vmx = "guest" => InGuest
    /\ TimeStampsTrap

(* What CapsAssumption says of the processors at hand.                     *)
LEMMA CapsFacts ==
    ASSUME Shape, NEW p \in Cpus
    PROVE  /\ caps[p] \in CapSets
           /\ caps[p].Cr4Maybe0 = VMXE /\ VMXE \cup TSD \subseteq caps[p].Cr4Maybe1
           /\ caps[p].Cr4Maybe1 \subseteq Cr4Bits
           /\ "XSAVE" \in caps[p].Features => OSXSAVE \subseteq caps[p].Cr4Maybe1
           /\ \A f \in Fields : Msr(p, f).low \subseteq Msr(p, f).high
<1>1. caps[p] \in CapSets
  BY DEF Shape
<1> QED BY <1>1, CapsAssumption DEF Msr

(* VmMakeCompliantCr4 sets VMXE and drops what the processor has not.      *)
LEMMA Compliant ==
    ASSUME Shape, NEW v
    PROVE  VmMakeCompliantCr4(v) = (v \cap caps[Boot].Cr4Maybe1) \cup VMXE
<1>1. Boot \in Cpus
  BY CpuAssumption
<1>2. caps[Boot].Cr4Maybe0 = VMXE /\ VMXE \subseteq caps[Boot].Cr4Maybe1
  BY <1>1, CapsFacts
<1> QED BY <1>2 DEF VmMakeCompliantCr4, Cr4Fixed0, Cr4Fixed1, VMXE

(* HvmTrimTsdForQuantum: TSD is on or off as asked, and nothing else       *)
(* changes.                                                                *)
LEMMA TrimSetsTsd ==
    ASSUME Shape, InGuest, NEW enable \in BOOLEAN
    PROVE  HvmTrimTsdForQuantum(vmcs, enable)
              = [vmcs EXCEPT !.cr4 = IF enable THEN vmcs.cr4 \cup TSD ELSE vmcs.cr4 \ TSD]
<1>1. VmMakeCompliantCr4(vmcs.cr4) = vmcs.cr4
  <2>1. VMXE \subseteq vmcs.cr4 /\ vmcs.cr4 \subseteq caps[Boot].Cr4Maybe1
    BY DEF InGuest
  <2>2. VmMakeCompliantCr4(vmcs.cr4) = (vmcs.cr4 \cap caps[Boot].Cr4Maybe1) \cup VMXE
    BY Compliant
  <2> QED BY <2>1, <2>2
<1>2. vmcs = [vmcs EXCEPT !.cr4 = vmcs.cr4]
  BY DEF Shape
<1>3. CASE enable
  <2>1. CASE TSD \subseteq vmcs.cr4
    <3>1. vmcs.cr4 \cup TSD = vmcs.cr4
      BY <2>1
    <3> QED BY <1>2, <1>3, <2>1, <3>1 DEF HvmTrimTsdForQuantum
  <2>2. CASE ~ TSD \subseteq vmcs.cr4
    BY <1>1, <1>3, <2>2 DEF HvmTrimTsdForQuantum
  <2> QED BY <2>1, <2>2
<1>4. CASE ~ enable
  <2>1. CASE TSD \subseteq vmcs.cr4
    BY <1>1, <1>4, <2>1 DEF HvmTrimTsdForQuantum
  <2>2. CASE ~ TSD \subseteq vmcs.cr4
    <3>1. vmcs.cr4 \ TSD = vmcs.cr4
      BY <2>2 DEF TSD
    <3> QED BY <1>2, <1>4, <2>2, <3>1 DEF HvmTrimTsdForQuantum
  <2> QED BY <2>1, <2>2
<1> QED BY <1>3, <1>4

(* Trimming keeps what InGuest says of the other fields.                   *)
LEMMA TrimKeepsGuest ==
    ASSUME Shape, InGuest, NEW enable \in BOOLEAN, UNCHANGED <<caps, asked>>,
           vmcs' = HvmTrimTsdForQuantum(vmcs, enable)
    PROVE  InGuest' /\ (TSD \subseteq vmcs'.cr4 <=> enable)
           /\ vmcs' = [cr3 |-> vmcs'.cr3, cr4 |-> vmcs'.cr4, mask |-> vmcs'.mask,
                       shadow |-> vmcs'.shadow, host |-> vmcs'.host, ctl |-> vmcs'.ctl]
<1>1. vmcs' = [vmcs EXCEPT !.cr4 = IF enable THEN vmcs.cr4 \cup TSD ELSE vmcs.cr4 \ TSD]
  BY TrimSetsTsd
<1>2. /\ vmcs'.cr4 = IF enable THEN vmcs.cr4 \cup TSD ELSE vmcs.cr4 \ TSD
      /\ vmcs'.cr3 = vmcs.cr3 /\ vmcs'.mask = vmcs.mask /\ vmcs'.shadow = vmcs.shadow
      /\ vmcs'.host = vmcs.host /\ vmcs'.ctl = vmcs.ctl
      /\ vmcs' = [cr3 |-> vmcs'.cr3, cr4 |-> vmcs'.cr4, mask |-> vmcs'.mask,
                  shadow |-> vmcs'.shadow, host |-> vmcs'.host, ctl |-> vmcs'.ctl]
  BY <1>1 DEF Shape
<1>3. TSD \subseteq caps[Self].Cr4Maybe1
  BY CapsFacts, CpuAssumption
<1>4. ControlsAllowed(vmcs.ctl)'
  BY <1>2 DEF InGuest, ControlsAllowed, Msr
<1>5. InGuest'
  BY <1>2, <1>3, <1>4 DEF InGuest, VMXE, TSD, OSXSAVE
<1> QED BY <1>2, <1>5 DEF TSD

(* VmxpNormalizeControls makes a field the processor accepts.              *)
LEMMA NormalizedIsAllowed ==
    ASSUME Shape, NEW f \in Fields, NEW data
    PROVE  /\ f # "secondary" \/ HasSecondary(Self)
                => /\ Msr(Self, f).low \subseteq VmxpNormalizeControls(Self, f, data)
                   /\ VmxpNormalizeControls(Self, f, data) \subseteq Msr(Self, f).high
           /\ f = "primary" /\ ~ HasSecondary(Self)
                => "SecondaryControl" \notin VmxpNormalizeControls(Self, f, data)
<1>1. Msr(Self, f).low \subseteq Msr(Self, f).high
  BY CapsFacts, CpuAssumption
<1> QED BY <1>1 DEF VmxpNormalizeControls, HasSecondary

(* HvmpEnterRoot, field by field.                                          *)
LEMMA EnterRoot ==
    ASSUME Shape, NEW v, v = HvmpEnterRoot(os)
    PROVE  /\ v = [cr3 |-> v.cr3, cr4 |-> v.cr4, mask |-> v.mask, shadow |-> v.shadow,
                   host |-> v.host, ctl |-> v.ctl]
           /\ v.cr3 = os.cr3 /\ v.cr4 = VmMakeCompliantCr4(os.cr4 \cup VMXE) \cup TSD
           /\ v.mask = VMXE \cup TSD /\ v.shadow = {} /\ v.host = os.cr4 \cup VMXE
           /\ ControlsAllowed(v.ctl)
<1> DEFINE on == [os EXCEPT !.cr4 = @ \cup VMXE]
           v1 == VmcsSetHostField(NoVmcs, on.cr4)
           v2 == VmcsSetControlField(v1, on.cr4)
           v3 == VmcsSetGuestField(v2, on)
           v4 == VmSetPrivilegedTimeStamp(v3)
<1>0. on.cr3 = os.cr3 /\ on.cr4 = os.cr4 \cup VMXE
  BY DEF Shape, Regs
<1>1. v1 = [cr3 |-> 0, cr4 |-> {}, mask |-> {}, shadow |-> {}, host |-> on.cr4, ctl |-> NoControls]
  BY DEF VmcsSetHostField, NoVmcs
<1>2. PICK c : /\ v2 = [cr3 |-> 0, cr4 |-> {}, mask |-> {}, shadow |-> {}, host |-> on.cr4, ctl |-> c]
               /\ \E w : c = [f \in Fields |-> VmxpNormalizeControls(Self, f, w[f])]
  <2> DEFINE w == [pin |-> {}, primary |-> {"SecondaryControl"}, secondary |-> Supported(on.cr4),
                   exit |-> {"Ia32eHost"}, entry |-> {"Ia32eGuest"}]
             d == [f \in Fields |-> VmxpNormalizeControls(Self, f, w[f])]
  <2>1. v2 = [v1 EXCEPT !.ctl = d]
    BY DEF VmcsSetControlField
  <2>2. \E x : d = [f \in Fields |-> VmxpNormalizeControls(Self, f, x[f])]
    OBVIOUS
  <2> HIDE DEF d, w, v2, v1, on
  <2>3. v2 = [cr3 |-> 0, cr4 |-> {}, mask |-> {}, shadow |-> {}, host |-> on.cr4, ctl |-> d]
    BY <1>1, <2>1
  <2> QED BY <2>2, <2>3
<1>3. v3 = [cr3 |-> os.cr3, cr4 |-> VmMakeCompliantCr4(os.cr4 \cup VMXE), mask |-> VMXE, shadow |-> {},
            host |-> on.cr4, ctl |-> c]
  <2>1. v3 = [v2 EXCEPT !.cr3 = os.cr3, !.cr4 = VmMakeCompliantCr4(os.cr4 \cup VMXE), !.mask = VMXE,
                        !.shadow = {}]
    <3> HIDE DEF v2, on
    <3> QED BY <1>0 DEF VmcsSetGuestField
  <2> HIDE DEF v3, v2, on
  <2> QED BY <1>2, <2>1
<1>4. v4 = [cr3 |-> os.cr3, cr4 |-> VmMakeCompliantCr4(os.cr4 \cup VMXE) \cup TSD, mask |-> VMXE \cup TSD,
            shadow |-> {}, host |-> on.cr4, ctl |-> c]
  <2>1. v4 = [v3 EXCEPT !.cr4 = v3.cr4 \cup TSD, !.mask = v3.mask \cup TSD, !.shadow = {}]
    <3>1. v3.shadow \cap (v3.cr4 \cap TSD) = {}
      <4> HIDE DEF v3, on
      <4> QED BY <1>3
    <3> HIDE DEF v3, on
    <3> QED BY <3>1 DEF VmSetPrivilegedTimeStamp
  <2> HIDE DEF v4, v3, on
  <2> QED BY <1>3, <2>1
<1>5. v = VmcsSetGuestMsrExitPolicy(v4)
  BY DEF HvmpEnterRoot
<1> DEFINE k == [c EXCEPT !.primary = VmxpNormalizeControls(Self, "primary", @ \cup {"UseMsrBitmap"})]
<1>6. v = [cr3 |-> os.cr3, cr4 |-> VmMakeCompliantCr4(os.cr4 \cup VMXE) \cup TSD, mask |-> VMXE \cup TSD,
           shadow |-> {}, host |-> on.cr4, ctl |-> k]
  <2> HIDE DEF v4, on
  <2> QED BY <1>4, <1>5 DEF VmcsSetGuestMsrExitPolicy
<1>7. ControlsAllowed(k)
  <2>1. PICK w : c = [f \in Fields |-> VmxpNormalizeControls(Self, f, w[f])]
    BY <1>2
  <2>2. PICK x : k.primary = VmxpNormalizeControls(Self, "primary", x)
    BY <2>1 DEF Fields
  <2>3. \A f \in Fields : f # "primary" => k[f] = VmxpNormalizeControls(Self, f, w[f])
    BY <2>1
  <2> HIDE DEF k
  <2> SUFFICES ASSUME NEW f \in Fields
               PROVE  \/ f = "secondary" /\ "SecondaryControl" \notin k.primary
                      \/ Msr(Self, f).low \subseteq k[f] /\ k[f] \subseteq Msr(Self, f).high
    BY DEF ControlsAllowed
  <2>4. PICK y : k[f] = VmxpNormalizeControls(Self, f, y)
    BY <2>2, <2>3
  <2>5. CASE f # "secondary" \/ HasSecondary(Self)
    BY <2>4, <2>5, NormalizedIsAllowed
  <2>6. CASE f = "secondary" /\ ~ HasSecondary(Self)
    <3>1. "primary" \in Fields
      BY DEF Fields
    <3> QED BY <2>2, <2>6, <3>1, NormalizedIsAllowed
  <2> QED BY <2>5, <2>6
<1> HIDE DEF k, on
<1> QED BY <1>0, <1>6, <1>7

LEMMA LaunchKeepsRegInv ==
    ASSUME Homogeneous, RegInv, Launch
    PROVE  RegInv'
<1>1. /\ vmx = "off" /\ vmx' = "guest" /\ vmcs' = HvmpEnterRoot(os) /\ asked' = Untouched(os)
      /\ UNCHANGED <<caps, os, tf>> /\ VmxVerifySupport
  BY DEF Launch
<1>2. Shape /\ Self \in Cpus /\ Boot \in Cpus
  BY CpuAssumption DEF RegInv
<1>3. caps[Self].Cr4Maybe1 = caps[Boot].Cr4Maybe1
  <2>1. \A p \in Cpus, f \in Fields : VmxAllowed(p, f) = Allowed(caps[p], f)
    BY DEF VmxAllowed, Allowed, Controls, Msr, HasSecondary
  <2>2. caps[Self].Revision = caps[Boot].Revision
        /\ \A f \in Fields : Allowed(caps[Self], f) = Allowed(caps[Boot], f)
    BY <1>1, <1>2, <2>1 DEF VmxVerifySupport
  <2> QED BY <1>2, <2>2, CapsFacts DEF Homogeneous
<1>4. /\ vmcs' = [cr3 |-> vmcs'.cr3, cr4 |-> vmcs'.cr4, mask |-> vmcs'.mask, shadow |-> vmcs'.shadow,
                  host |-> vmcs'.host, ctl |-> vmcs'.ctl]
      /\ vmcs'.cr3 = os.cr3 /\ vmcs'.cr4 = VmMakeCompliantCr4(os.cr4 \cup VMXE) \cup TSD
      /\ vmcs'.mask = VMXE \cup TSD /\ vmcs'.shadow = {}
      /\ ControlsAllowed(vmcs'.ctl)
  BY <1>1, <1>2, EnterRoot
<1>5. vmcs'.cr4 = os.cr4 \cup VMXE \cup TSD
  BY <1>1, <1>2, <1>3, <1>4, Compliant, CapsFacts DEF RegInv
<1>6. /\ asked'.cr3 = os.cr3 /\ asked'.cr4 = os.cr4 /\ asked'.written = FALSE /\ asked' \in Written
      /\ os.cr4 \subseteq caps[Self].Cr4Maybe1
  BY <1>1, <1>2 DEF RegInv, Shape, Regs, Written, Untouched
<1>7. InGuest'
  <2>1. ControlsAllowed(vmcs.ctl)'
    BY <1>1, <1>4 DEF ControlsAllowed, Msr
  <2>2. VMXE \cup TSD \subseteq caps[Self].Cr4Maybe1
    BY <1>2, CapsFacts
  <2> QED BY <1>1, <1>3, <1>4, <1>5, <1>6, <2>1, <2>2 DEF InGuest, VMXE, TSD, OSXSAVE
<1>8. Shape'
  BY <1>1, <1>2, <1>4, <1>6 DEF Shape
<1> QED BY <1>1, <1>5, <1>7, <1>8 DEF RegInv, TimeStampsTrap

(* MOV to CR4, seen by the hypervisor or not.                              *)
LEMMA Cr4KeepsRegInv ==
    ASSUME RegInv, MovToCr4
    PROVE  RegInv'
<1>1. Shape /\ Self \in Cpus /\ Boot \in Cpus /\ InGuest /\ TimeStampsTrap /\ vmx = "guest"
  BY CpuAssumption DEF RegInv, MovToCr4, Op
<1>2. UNCHANGED <<vmx, caps, os, cur, exempt, trimmed>>
  BY DEF MovToCr4, machine, people
<1>3. PICK v \in SUBSET Cr4Bits : /\ v \subseteq Cr4Fixed0
                                  /\ asked' = [asked EXCEPT !.cr4 = v, !.written = TRUE]
                                  /\ MovToCr4Unseen(v) \/ MovToCr4Exit(v)
  BY DEF MovToCr4
<1>4. asked' \in Written /\ asked'.cr4 = v /\ asked'.cr3 = asked.cr3 /\ asked'.written
  BY <1>1, <1>3 DEF Shape, Written
<1>5. v \subseteq caps[Self].Cr4Maybe1 /\ VMXE \cup TSD \subseteq caps[Self].Cr4Maybe1
      /\ caps[Self].Cr4Maybe1 = caps[Boot].Cr4Maybe1 /\ caps[Self].Cr4Maybe1 \subseteq Cr4Bits
  BY <1>1, <1>3, CapsFacts DEF Cr4Fixed0, InGuest
<1>6. /\ tf' \in BOOLEAN
      /\ vmcs' = [cr3 |-> vmcs'.cr3, cr4 |-> vmcs'.cr4, mask |-> vmcs'.mask, shadow |-> vmcs'.shadow,
                  host |-> vmcs'.host, ctl |-> vmcs'.ctl]
      /\ vmcs'.cr3 = vmcs.cr3 /\ vmcs'.mask = vmcs.mask /\ vmcs'.ctl = vmcs.ctl
      /\ vmcs'.shadow = v \cap TSD
      /\ VMXE \subseteq vmcs'.cr4 /\ vmcs'.cr4 \subseteq caps[Self].Cr4Maybe1
      /\ vmcs'.cr4 \cap OSXSAVE = v \cap OSXSAVE
      /\ TSD \subseteq vmcs.cr4 => TSD \subseteq vmcs'.cr4
  <2>1. CASE MovToCr4Unseen(v)
    <3>1. /\ vmcs' = [vmcs EXCEPT !.cr4 = (vmcs.cr4 \cap vmcs.mask) \cup (v \ vmcs.mask)] /\ UNCHANGED tf
          /\ v \cap vmcs.mask = vmcs.shadow \cap vmcs.mask
      BY <2>1 DEF MovToCr4Unseen, Exits
    <3>2. /\ vmcs'.cr4 = (vmcs.cr4 \cap vmcs.mask) \cup (v \ vmcs.mask) /\ vmcs'.shadow = vmcs.shadow
          /\ vmcs' = [cr3 |-> vmcs'.cr3, cr4 |-> vmcs'.cr4, mask |-> vmcs'.mask, shadow |-> vmcs'.shadow,
                      host |-> vmcs'.host, ctl |-> vmcs'.ctl]
          /\ vmcs'.cr3 = vmcs.cr3 /\ vmcs'.mask = vmcs.mask /\ vmcs'.ctl = vmcs.ctl
      BY <1>1, <3>1 DEF Shape
    <3>3. vmcs.mask = VMXE \cup TSD /\ vmcs.shadow \subseteq TSD /\ VMXE \subseteq vmcs.cr4
      BY <1>1 DEF InGuest
    <3>4. vmcs'.shadow = v \cap TSD
      BY <3>1, <3>2, <3>3 DEF VMXE, TSD
    <3>5. VMXE \subseteq vmcs'.cr4 /\ vmcs'.cr4 \subseteq caps[Self].Cr4Maybe1
      BY <1>1, <1>5, <3>2, <3>3 DEF InGuest
    <3>6. vmcs'.cr4 \cap OSXSAVE = v \cap OSXSAVE
      BY <3>2, <3>3 DEF VMXE, TSD, OSXSAVE
    <3>7. TSD \subseteq vmcs.cr4 => TSD \subseteq vmcs'.cr4
      BY <3>2, <3>3
    <3>8. tf' \in BOOLEAN
      BY <1>1, <3>1 DEF Shape
    <3> QED BY <3>2, <3>4, <3>5, <3>6, <3>7, <3>8
  <2>2. CASE MovToCr4Exit(v)
    <3> DEFINE new == VmMakeCompliantCr4(VmGetGuestVisibleCr4(v))
    <3>1. vmcs' = InstrCr4Emulate(v) /\ tf' = FALSE
      BY <2>2 DEF MovToCr4Exit, InstrRipAdvance
    <3>2. PICK h : vmcs' = [vmcs EXCEPT !.cr4 = new \cup (vmcs.cr4 \cap TSD), !.host = h,
                                        !.shadow = (vmcs.shadow \ TSD) \cup (v \cap TSD)]
      BY <3>1 DEF InstrCr4Emulate
    <3>3. new = (VmGetGuestVisibleCr4(v) \cap caps[Boot].Cr4Maybe1) \cup VMXE
      BY <1>1, Compliant
    <3>4. VmGetGuestVisibleCr4(v) = (v \ vmcs.mask) \cup (vmcs.shadow \cap vmcs.mask)
      BY DEF VmGetGuestVisibleCr4
    <3>5. vmcs.mask = VMXE \cup TSD /\ vmcs.shadow \subseteq TSD /\ vmcs.cr4 \subseteq caps[Self].Cr4Maybe1
      BY <1>1 DEF InGuest
    <3> HIDE DEF new
    <3>6. /\ vmcs'.cr4 = new \cup (vmcs.cr4 \cap TSD)
          /\ vmcs'.shadow = (vmcs.shadow \ TSD) \cup (v \cap TSD)
          /\ vmcs' = [cr3 |-> vmcs'.cr3, cr4 |-> vmcs'.cr4, mask |-> vmcs'.mask, shadow |-> vmcs'.shadow,
                      host |-> vmcs'.host, ctl |-> vmcs'.ctl]
          /\ vmcs'.cr3 = vmcs.cr3 /\ vmcs'.mask = vmcs.mask /\ vmcs'.ctl = vmcs.ctl
      BY <1>1, <3>2 DEF Shape
    <3>7. vmcs'.shadow = v \cap TSD
      BY <3>5, <3>6
    <3>8. VMXE \subseteq vmcs'.cr4 /\ vmcs'.cr4 \subseteq caps[Self].Cr4Maybe1
      BY <1>5, <3>3, <3>5, <3>6
    <3>9. vmcs'.cr4 \cap OSXSAVE = v \cap OSXSAVE
      BY <1>5, <3>3, <3>4, <3>5, <3>6 DEF VMXE, TSD, OSXSAVE
    <3>10. TSD \subseteq vmcs.cr4 => TSD \subseteq vmcs'.cr4
      BY <3>6
    <3> QED BY <3>1, <3>6, <3>7, <3>8, <3>9, <3>10
  <2> QED BY <1>3, <2>1, <2>2
<1>7. InGuest'
  <2>1. ControlsAllowed(vmcs.ctl)'
    BY <1>1, <1>2, <1>6 DEF InGuest, ControlsAllowed, Msr
  <2> QED BY <1>1, <1>2, <1>4, <1>6, <2>1 DEF InGuest
<1>8. Shape'
  BY <1>1, <1>2, <1>4, <1>6 DEF Shape
<1>9. TimeStampsTrap'
  BY <1>1, <1>2, <1>6 DEF TimeStampsTrap
<1> QED BY <1>1, <1>2, <1>7, <1>8, <1>9 DEF RegInv

LEMMA Cr3KeepsRegInv ==
    ASSUME RegInv, MovToCr3
    PROVE  RegInv'
<1>1. Shape /\ InGuest /\ TimeStampsTrap /\ vmx = "guest"
  BY DEF RegInv, MovToCr3, Op
<1>2. UNCHANGED <<vmx, caps, os, cur, exempt, trimmed>>
  BY DEF MovToCr3, machine, people
<1>3. tf' \in BOOLEAN
  <2>1. InstrRipAdvance \/ UNCHANGED <<out, tf>>
    BY DEF MovToCr3
  <2> QED BY <1>1, <2>1 DEF Shape, InstrRipAdvance
<1>4. PICK v \in Cr3s : vmcs' = [vmcs EXCEPT !.cr3 = v] /\ asked' = [asked EXCEPT !.cr3 = v]
  BY DEF MovToCr3
<1>5. /\ asked' \in Written /\ asked'.cr4 = asked.cr4 /\ asked'.cr3 = v
      /\ asked'.written = asked.written
  BY <1>1, <1>4 DEF Shape, Written
<1>6. /\ vmcs' = [cr3 |-> vmcs'.cr3, cr4 |-> vmcs'.cr4, mask |-> vmcs'.mask, shadow |-> vmcs'.shadow,
                  host |-> vmcs'.host, ctl |-> vmcs'.ctl]
      /\ vmcs'.cr3 = v /\ vmcs'.mask = vmcs.mask /\ vmcs'.ctl = vmcs.ctl
      /\ vmcs'.cr4 = vmcs.cr4 /\ vmcs'.shadow = vmcs.shadow
  BY <1>1, <1>4 DEF Shape
<1>7. InGuest'
  <2>1. ControlsAllowed(vmcs.ctl)'
    BY <1>1, <1>2, <1>6 DEF InGuest, ControlsAllowed, Msr
  <2> QED BY <1>1, <1>2, <1>5, <1>6, <2>1 DEF InGuest
<1> QED BY <1>1, <1>2, <1>3, <1>5, <1>6, <1>7 DEF RegInv, Shape, TimeStampsTrap

(* HvmpRestoreHostState and VmxpDisable.                                   *)
LEMMA StopKeepsRegInv ==
    ASSUME RegInv, Stop
    PROVE  RegInv'
<1>1. Shape /\ InGuest /\ Self \in Cpus
  BY CpuAssumption DEF RegInv, Stop, Op
<1>2. /\ os' = VmxpDisable(HvmpRestoreHostState(vmcs)) /\ vmx' = "off" /\ vmcs' = NoVmcs
      /\ tf' = FALSE /\ UNCHANGED <<caps, asked>>
  BY DEF Stop
<1>3. os' = [cr3 |-> vmcs.cr3, cr4 |-> (vmcs.cr4 \ TSD) \ VMXE]
  BY <1>2 DEF VmxpDisable, HvmpRestoreHostState
<1>4. caps[Self].Cr4Maybe1 \subseteq Cr4Bits /\ asked \in Written
  BY <1>1, CapsFacts DEF Shape
<1>5. /\ os'.cr3 = asked.cr3 /\ os'.cr4 \ TSD = asked.cr4 \ (VMXE \cup TSD)
      /\ os'.cr4 \subseteq caps[Self].Cr4Maybe1
  <2>1. os'.cr3 = asked.cr3 /\ os'.cr4 \subseteq caps[Self].Cr4Maybe1
    BY <1>1, <1>3 DEF InGuest
  <2>2. vmcs.cr4 \subseteq Cr4Bits /\ asked.cr4 \subseteq Cr4Bits
    BY <1>1, <1>4 DEF InGuest, Written
  <2>3. ((vmcs.cr4 \ TSD) \ VMXE) \ TSD = asked.cr4 \ (VMXE \cup TSD)
    BY <1>1, <2>2 DEF InGuest, Cr4Bits, VMXE, TSD, OSXSAVE
  <2> QED BY <1>3, <2>1, <2>3
<1>6. Shape'
  <2>1. os' \in Regs
    BY <1>1, <1>3, <1>4, <1>5 DEF InGuest, Regs, Written
  <2> QED BY <1>1, <1>2, <2>1 DEF Shape, NoVmcs
<1> QED BY <1>2, <1>5, <1>6 DEF RegInv, TimeStampsTrap

(* A quantum begins, or the detector ends one early.                       *)
LEMMA QuantumKeepsRegInv ==
    ASSUME RegInv, SwitchThread \/ VmRdtscEmulate
    PROVE  RegInv'
<1>1. Shape /\ InGuest /\ TimeStampsTrap /\ vmx = "guest"
  BY DEF RegInv, SwitchThread, VmRdtscEmulate, Traps
<1>2. UNCHANGED <<vmx, caps, os, asked, exempt>> /\ tf' = FALSE
  BY DEF SwitchThread, VmRdtscEmulate, machine, InstrRipAdvance
<1>3. \/ UNCHANGED <<vmcs, cur, trimmed>>
      \/ \E enable \in BOOLEAN :
           /\ vmcs' = HvmTrimTsdForQuantum(vmcs, enable)
           /\ enable \/ cur' \in exempt \/ trimmed'
  <2>1. CASE SwitchThread
    <3>1. PICK t \in Threads \ {cur} : cur' = t /\ vmcs' = HvmTrimTsdForQuantum(vmcs, t \notin exempt)
      BY <2>1 DEF SwitchThread
    <3>2. (t \notin exempt) \in BOOLEAN /\ (t \notin exempt \/ cur' \in exempt)
      BY <3>1
    <3> QED BY <3>1, <3>2, Zenon
  <2>2. CASE VmRdtscEmulate
    <3>1. \E r : Verdict(r)
      BY <2>2 DEF VmRdtscEmulate
    <3>2. PICK r : Verdict(r)
      BY <3>1
    <3>3. UNCHANGED cur
      BY <2>2 DEF VmRdtscEmulate
    <3>4. UNCHANGED <<vmcs, trimmed>> \/ (vmcs' = HvmTrimTsdForQuantum(vmcs, FALSE) /\ trimmed' = TRUE)
      BY <3>2 DEF Verdict
    <3> QED BY <3>3, <3>4, Zenon
  <2> QED BY <2>1, <2>2
<1>4. CASE UNCHANGED <<vmcs, cur, trimmed>>
  <2>1. InGuest'
    BY <1>1, <1>2, <1>4 DEF InGuest, ControlsAllowed, Msr
  <2> QED BY <1>1, <1>2, <1>4, <2>1 DEF RegInv, Shape, TimeStampsTrap
<1>5. ASSUME NEW enable \in BOOLEAN, vmcs' = HvmTrimTsdForQuantum(vmcs, enable),
             enable \/ cur' \in exempt \/ trimmed'
      PROVE  RegInv'
  <2>1. InGuest' /\ (TSD \subseteq vmcs'.cr4 <=> enable)
        /\ vmcs' = [cr3 |-> vmcs'.cr3, cr4 |-> vmcs'.cr4, mask |-> vmcs'.mask,
                    shadow |-> vmcs'.shadow, host |-> vmcs'.host, ctl |-> vmcs'.ctl]
    BY <1>1, <1>2, <1>5, TrimKeepsGuest
  <2>2. Shape'
    BY <1>1, <1>2, <2>1 DEF Shape
  <2>3. TimeStampsTrap'
    BY <1>2, <1>5, <2>1, Zenon DEF TimeStampsTrap
  <2> QED BY <1>1, <1>2, <2>1, <2>2, <2>3 DEF RegInv
<1> QED BY <1>3, <1>4, <1>5

(* The steps that touch none of it, or end in a crash.                     *)
LEMMA OthersKeepRegInv ==
    ASSUME RegInv, UNCHANGED <<caps, os, vmcs, asked, cur, trimmed>>, tf' \in BOOLEAN,
           exempt \subseteq exempt', vmx' = vmx \/ vmx' = "crashed"
    PROVE  RegInv'
<1>1. Shape'
  BY DEF RegInv, Shape
<1>2. vmx' = "guest" => InGuest'
  BY DEF RegInv, InGuest, ControlsAllowed, Msr
<1>3. TimeStampsTrap'
  BY DEF RegInv, TimeStampsTrap
<1> QED BY <1>1, <1>2, <1>3 DEF RegInv

LEMMA RegInvKept ==
    ASSUME Homogeneous, RegInv, [Next]_vars
    PROVE  RegInv'
<1> USE DEF machine, people
<1>0. tf \in BOOLEAN
  BY DEF RegInv, Shape
<1>1. CASE Launch
  BY <1>1, LaunchKeepsRegInv
<1>2. CASE MovToCr4 \/ MovToCr3 \/ Stop \/ SwitchThread \/ VmRdtscEmulate
  BY <1>2, Cr4KeepsRegInv, Cr3KeepsRegInv, StopKeepsRegInv, QuantumKeepsRegInv
<1>3. CASE UNCHANGED vars
  BY <1>0, <1>3, OthersKeepRegInv DEF vars
<1>4. CASE SingleStep
  BY <1>4, OthersKeepRegInv DEF SingleStep
<1>5. CASE WorkerExempts
  BY <1>0, <1>5, OthersKeepRegInv DEF WorkerExempts
<1>6. CASE UnknownService \/ InstrInvdEmulate \/ HvmHandleMsrReadFsBase \/ InstrMsrEmulate \/ UnknownExit
  BY <1>0, <1>6, OthersKeepRegInv
     DEF UnknownService, InstrInvdEmulate, HvmHandleMsrReadFsBase, InstrMsrEmulate, UnknownExit,
         Completes, Crashes, InstrRipAdvance
<1>7. CASE Cpuid
  <2>1. UNCHANGED <<machine, people, vmcs, asked>>
    BY <1>7 DEF Cpuid
  <2>2. \E l : IF CpuidEmulate(l) = "none" THEN tf' = FALSE ELSE UNCHANGED tf
    BY <1>7 DEF Cpuid, InstrRipAdvance
  <2>3. tf' \in BOOLEAN
    BY <1>0, <2>2
  <2> QED BY <2>1, <2>3, OthersKeepRegInv
<1>8. CASE Xsetbv
  <2>1. UNCHANGED <<caps, os, vmcs, asked, cur, trimmed, exempt>>
    BY <1>8 DEF Xsetbv
  <2>2. PICK x : XsetbvEnd(x)
    BY <1>8 DEF Xsetbv
  <2>3. tf' = tf /\ (vmx' = vmx \/ vmx' = "crashed")
    BY <2>2 DEF XsetbvEnd, VmInject
  <2> QED BY <1>0, <2>1, <2>3, OthersKeepRegInv
<1>9. CASE VmxInstruction \/ OtherException \/ Reflect
  BY <1>0, <1>9, OthersKeepRegInv DEF VmxInstruction, OtherException, Reflect, Injects, VmInject
<1> QED BY <1>1, <1>2, <1>3, <1>4, <1>5, <1>6, <1>7, <1>8, <1>9
        DEF Next, HvmpExitHandler, DsHvmExitHandler

LEMMA RegInvariant ==
    ASSUME Homogeneous
    PROVE  Spec => []RegInv
<1>1. Init => RegInv
  <2> SUFFICES ASSUME Init PROVE RegInv
    OBVIOUS
  <2>1. Self \in Cpus
    BY CpuAssumption
  <2>2. /\ os.cr3 \in Cr3s /\ os = [cr3 |-> os.cr3, cr4 |-> os.cr4]
        /\ os.cr4 \subseteq TSD \cup IF "XSAVE" \in caps[Self].Features THEN OSXSAVE ELSE {}
    BY DEF Init
  <2>3. os.cr4 \subseteq TSD \cup OSXSAVE /\ TSD \cup OSXSAVE \subseteq Cr4Bits
    BY <2>2 DEF TSD, OSXSAVE, Cr4Bits
  <2>4. /\ os \in Regs /\ asked \in Written
        /\ asked.cr3 = os.cr3 /\ asked.cr4 = os.cr4
    BY <2>2, <2>3 DEF Init, Regs, Written, Untouched
  <2>5. Shape
    BY <2>4 DEF Init, Shape, NoVmcs
  <2>6. os.cr4 \subseteq caps[Self].Cr4Maybe1
    BY <2>1, <2>2, <2>5, CapsFacts
  <2>7. os.cr4 \ TSD = asked.cr4 \ (VMXE \cup TSD) /\ os.cr3 = asked.cr3
    BY <2>3, <2>4 DEF VMXE, TSD, OSXSAVE
  <2> QED BY <2>5, <2>6, <2>7 DEF Init, RegInv, TimeStampsTrap
<1>2. RegInv /\ [Next]_vars => RegInv'
  BY RegInvKept
<1> QED BY <1>1, <1>2, PTL DEF Spec

(* VmxpNormalizeControls, VmMakeCompliantCr4: every VM entry passes the    *)
(* processor's checks of the control fields and of CR4, whatever the       *)
(* capability MSRs say and whatever the guest writes.                      *)
THEOREM EntriesAreAllowed ==
    ASSUME Homogeneous
    PROVE  Spec => []EntryAllowed
<1>1. RegInv => EntryAllowed
  <2> SUFFICES ASSUME RegInv, vmx = "guest" PROVE EntryAllowed
    BY DEF EntryAllowed
  <2>1. InGuest /\ Shape /\ Self \in Cpus
    BY CpuAssumption DEF RegInv
  <2>2. caps[Self].Cr4Maybe0 = VMXE
    BY <2>1, CapsFacts
  <2> QED BY <2>1, <2>2 DEF EntryAllowed, InGuest, ControlsAllowed
<1> QED BY <1>1, RegInvariant, PTL

(* CR4_READ_SHADOW, HvmpRestoreHostState: the guest reads back what it     *)
(* wrote to CR3 and CR4, and keeps it when the hypervisor leaves, TSD      *)
(* apart, whether or not TSD was set when it was launched.                 *)
THEOREM RegistersAreTheGuests ==
    ASSUME Homogeneous
    PROVE  Spec => []GuestReadsBack
<1>1. RegInv => GuestReadsBack
  <2> SUFFICES ASSUME RegInv PROVE GuestReadsBack
    OBVIOUS
  <2>1. ASSUME vmx = "guest"
        PROVE  /\ vmcs.cr3 = asked.cr3
               /\ VmGetGuestVisibleCr4(vmcs.cr4) \ TSD = asked.cr4 \ (VMXE \cup TSD)
               /\ asked.written
                    => VmGetGuestVisibleCr4(vmcs.cr4) \cap TSD = asked.cr4 \cap TSD
    <3>1. InGuest /\ Shape /\ Self \in Cpus
      BY <2>1, CpuAssumption DEF RegInv
    <3>2. asked.cr4 \subseteq Cr4Bits /\ caps[Self].Cr4Maybe1 \subseteq Cr4Bits
      BY <3>1, CapsFacts DEF Shape, Written
    <3>3. vmcs.cr4 \subseteq Cr4Bits
      BY <3>1, <3>2 DEF InGuest
    <3>4. vmcs.cr4 \ (VMXE \cup TSD) = asked.cr4 \ (VMXE \cup TSD)
      BY <3>1, <3>2, <3>3 DEF InGuest, Cr4Bits, VMXE, TSD, OSXSAVE
    <3>5. /\ vmcs.shadow \cap vmcs.mask \subseteq TSD
          /\ asked.written => vmcs.shadow \cap vmcs.mask = asked.cr4 \cap TSD
      BY <3>1 DEF InGuest
    <3>6. VmGetGuestVisibleCr4(vmcs.cr4)
            = (vmcs.cr4 \ (VMXE \cup TSD)) \cup (vmcs.shadow \cap vmcs.mask)
      BY <3>1 DEF VmGetGuestVisibleCr4, InGuest
    <3> QED BY <3>1, <3>4, <3>5, <3>6 DEF InGuest
  <2> QED BY <2>1 DEF GuestReadsBack, RegInv
<1> QED BY <1>1, RegInvariant, PTL

(* HvmTrimTsdForQuantum, InstrCr4Emulate: no thread reads the time stamp   *)
(* counter unseen unless it is exempted or released for the quantum, for   *)
(* any number of threads and whatever the detector decides.                *)
THEOREM NoThreadEscapes ==
    ASSUME Homogeneous
    PROVE  Spec => []TimeStampsTrap
<1>1. RegInv => TimeStampsTrap
  BY DEF RegInv
<1> QED BY <1>1, RegInvariant, PTL
-----------------------------------------------------------------------------
(* The table of the detector.  tsc.c:21 takes the distance of two          *)
(* addresses as an int; the order of the siblings is proved for code that  *)
(* lies within the range of an int.  The run on DistanceAsserted shows     *)
(* what happens to code that does not.                                     *)

NearAddresses == \A a, b \in Addresses : a - b < IntHalf

LEMMA SmallInt ==
    ASSUME NEW d, d \in Int, -IntHalf < d, d < IntHalf
    PROVE  ToInt(d) = d
<1>1. IntHalf \in Nat
  BY IntAssumption
<1>2. \A x, m \in Nat : x < m => x % m = x
  OBVIOUS
<1>3. d + IntHalf \in Nat /\ 2 * IntHalf \in Nat /\ d + IntHalf < 2 * IntHalf
  BY <1>1
<1>4. (d + IntHalf) % (2 * IntHalf) = d + IntHalf
  BY <1>2, <1>3
<1> QED BY <1>1, <1>4 DEF ToInt

LEMMA RangeIsDistance ==
    ASSUME NearAddresses, NEW a \in Addresses, NEW b \in Addresses, AreWithinSiblingRange(a, b)
    PROVE  a - b < DistanceLimit /\ b - a < DistanceLimit
<1>1. a \in Nat /\ b \in Nat /\ IntHalf \in Nat /\ DistanceLimit \in Nat
  BY AddressAssumption, IntAssumption, LimitAssumption
<1>2. a - b < IntHalf /\ b - a < IntHalf
  BY DEF NearAddresses
<1>3. a - b \in Int /\ -IntHalf < a - b
  BY <1>1, <1>2
<1>4. ToInt(a - b) = a - b
  BY <1>2, <1>3, SmallInt
<1>5. abs(a - b) < DistanceLimit
  BY <1>4 DEF AreWithinSiblingRange
<1> QED BY <1>1, <1>3, <1>5 DEF abs

LEMMA Least ==
    ASSUME NEW S, S \subseteq Nat, S # {}
    PROVE  \E x \in S : \A y \in S : x <= y
<1>1. PICK x \in S : \A y \in S : ~ (<<y, x>> \in OpToRel(<, Nat))
  BY NatLessThanWellFounded, WFMin
<1>2. \A y \in S : ~ (y < x)
  BY <1>1 DEF OpToRel
<1> QED BY <1>2

(* A sound entry after n events at time t.  The last three conjuncts say   *)
(* what the search relies on: an entry with a thread's hash has a Before,  *)
(* a missing After has counted nothing, and a pair is in order.            *)
HitIn(n, t) == [addr : Addresses \cup {0}, time : 0 .. t, count : 0 .. n]
Total(e) == e.before.count + e.after.count
InOrder(e) ==
    ~IsOrphan(e) => /\ e.before.addr < e.after.addr
                    /\ e.after.addr - e.before.addr < DistanceLimit
Ends(e) == ~IsOrphan(e) /\ e.diff # 0 => e.before.count <= CountLimit
EntryOK(e, n, t) ==
    /\ e = [hash |-> e.hash, before |-> e.before, after |-> e.after,
            skips |-> e.skips, diff |-> e.diff]
    /\ e.before \in HitIn(n, t) /\ e.after \in HitIn(n, t) /\ Total(e) <= n
    /\ e.hash \in Threads => e.before.addr # 0
    /\ e.after.addr = 0 => e.after.count = 0
    /\ InOrder(e)
IsTable(T) == T = [i \in 1 .. MaxHits |-> T[i]]

LEMMA EntryIsOld ==
    ASSUME NEW e, NEW n \in Nat, NEW t \in Nat, NEW m \in Nat, NEW u \in Nat, n <= m, t <= u,
           EntryOK(e, n, t)
    PROVE  EntryOK(e, m, u)
<1>1. \A h : h \in HitIn(n, t) => h \in HitIn(m, u)
  BY DEF HitIn
<1>2. Total(e) \in Nat
  BY DEF EntryOK, HitIn, Total
<1>3. Total(e) <= m
  BY <1>2 DEF EntryOK
<1> QED BY <1>1, <1>3 DEF EntryOK

LEMMA NoEntryOK ==
    ASSUME NEW n \in Nat, NEW t \in Nat
    PROVE  EntryOK(NoEntry, n, t) /\ Ends(NoEntry) /\ Total(NoEntry) = 0
<1>1. NoHit \in HitIn(n, t)
  BY DEF NoHit, HitIn
<1> QED BY <1>1, ThreadAssumption DEF EntryOK, Ends, Total, InOrder, IsOrphan, NoEntry, NoHit

(* TdGetSiblingSlot always finds a slot.                                   *)
LEMMA OldestIs ==
    ASSUME NEW T, NEW S, S \subseteq Nat, S # {}, \A i \in S : T[i].before.time \in Nat
    PROVE  Oldest(T, S) \in S
<1> DEFINE times == {T[i].before.time : i \in S}
<1>1. PICK a \in times : \A b \in times : a <= b
  BY Least
<1> DEFINE first == {i \in S : T[i].before.time = a}
<1>2. PICK i \in first : \A j \in first : i <= j
  BY <1>1, Least
<1>3. \A j \in S : \/ T[i].before.time < T[j].before.time
                   \/ T[i].before.time = T[j].before.time /\ i <= j
  <2> SUFFICES ASSUME NEW j \in S
               PROVE  \/ a < T[j].before.time
                      \/ a = T[j].before.time /\ i <= j
    BY <1>2
  <2>1. a <= T[j].before.time /\ a \in Nat /\ T[j].before.time \in Nat
    BY <1>1
  <2>2. a = T[j].before.time => i <= j
    BY <1>2
  <2> HIDE DEF times, first
  <2> QED BY <2>1, <2>2
<1> QED BY <1>2, <1>3 DEF Oldest

LEMMA SlotIs ==
    ASSUME NEW T, IsTable(T), \A i \in 1 .. MaxHits : T[i].before.time \in Nat
    PROVE  TdGetSiblingSlot(T) \in 1 .. MaxHits
<1>1. DOMAIN T = 1 .. MaxHits /\ 1 \in DOMAIN T
  BY TableAssumption DEF IsTable
<1> DEFINE free == {i \in DOMAIN T : TdIsFreeSlot(T[i])}
           orphans == {i \in DOMAIN T : IsOrphan(T[i])}
<1>2. free \subseteq Nat /\ orphans \subseteq Nat /\ DOMAIN T \subseteq Nat
  BY <1>1
<1>3. free # {} => (CHOOSE i \in free : \A j \in free : i <= j) \in free
  BY <1>2, Least
<1>4. orphans # {} => Oldest(T, orphans) \in orphans
  BY <1>1, <1>2, OldestIs
<1>5. Oldest(T, DOMAIN T) \in DOMAIN T
  BY <1>1, <1>2, OldestIs
<1> QED BY <1>1, <1>3, <1>4, <1>5 DEF TdGetSiblingSlot

LEMMA FindIs ==
    ASSUME NEW T, IsTable(T), NEW hash, NEW addr, NEW i, i = TdFindSibling(T, hash, addr), i # 0
    PROVE  /\ i \in 1 .. MaxHits /\ T[i].hash = hash
           /\ AreWithinSiblingRange(T[i].before.addr, addr)
           /\ T[i].before.addr = addr \/ T[i].after.addr \in {addr, 0}
<1> DEFINE found == {j \in DOMAIN T :
                       /\ T[j].hash = hash
                       /\ AreWithinSiblingRange(T[j].before.addr, addr)
                       /\ T[j].before.addr = addr \/ T[j].after.addr \in {addr, 0}}
<1>1. DOMAIN T = 1 .. MaxHits
  BY DEF IsTable
<1>2. found # {} /\ i = (CHOOSE j \in found : \A k \in found : j <= k)
  BY DEF TdFindSibling
<1>3. found \subseteq Nat
  BY <1>1
<1>4. i \in found
  BY <1>2, <1>3, Least
<1> QED BY <1>1, <1>4

(* TdUpdateSibling counts the event in one of the two hits of the entry,   *)
(* and a second address takes its place below or above the first.          *)
LEMMA PlaceOK ==
    ASSUME NearAddresses, NEW e, NEW n \in Nat, NEW t \in Nat, EntryOK(e, n, t),
           NEW addr \in Addresses, e.hash \in Threads,
           AreWithinSiblingRange(e.before.addr, addr),
           e.before.addr = addr \/ e.after.addr \in {addr, 0},
           NEW p, p = Place(e, addr)
    PROVE  /\ EntryOK(p, n, t) /\ Total(p) = Total(e)
           /\ addr \in {p.before.addr, p.after.addr}
<1>1. /\ addr \in Nat \ {0} /\ e.before.addr \in Nat \ {0} /\ e.before.addr \in Addresses
      /\ e.before \in HitIn(n, t) /\ e.after \in HitIn(n, t)
      /\ e = [hash |-> e.hash, before |-> e.before, after |-> e.after,
              skips |-> e.skips, diff |-> e.diff]
  BY AddressAssumption DEF EntryOK, HitIn
<1>2. e.before.addr - addr < DistanceLimit /\ addr - e.before.addr < DistanceLimit
  BY <1>1, RangeIsDistance
<1>3. CASE addr \in {e.before.addr, e.after.addr}
  BY <1>3 DEF Place
<1>4. CASE addr \notin {e.before.addr, e.after.addr}
  <2>1. e.after.addr = 0 /\ e.after.count = 0
    BY <1>4 DEF EntryOK
  <2>2. CASE e.before.addr > addr
    <3>1. p = [hash |-> e.hash, before |-> [NoHit EXCEPT !.addr = addr], after |-> e.before,
               skips |-> e.skips, diff |-> e.diff]
      BY <1>1, <1>4, <2>2 DEF Place
    <3>2. [NoHit EXCEPT !.addr = addr] = [addr |-> addr, time |-> 0, count |-> 0]
      BY DEF NoHit
    <3>3. [addr |-> addr, time |-> 0, count |-> 0] \in HitIn(n, t)
      BY DEF HitIn
    <3>4. /\ p.hash = e.hash /\ p.after = e.before /\ p.before.addr = addr /\ p.before.count = 0
          /\ p.before \in HitIn(n, t)
          /\ p = [hash |-> p.hash, before |-> p.before, after |-> p.after,
                  skips |-> p.skips, diff |-> p.diff]
      BY <3>1, <3>2, <3>3
    <3>5. e.before.count \in Nat
      BY <1>1 DEF HitIn
    <3>6. Total(p) = Total(e)
      BY <2>1, <3>4, <3>5 DEF Total
    <3>7. InOrder(p)
      BY <1>1, <1>2, <2>2, <3>4 DEF InOrder
    <3> QED BY <1>1, <3>4, <3>6, <3>7 DEF EntryOK
  <2>3. CASE ~(e.before.addr > addr)
    <3>1. p = [e EXCEPT !.after.addr = addr]
      BY <1>4, <2>3 DEF Place
    <3>2. /\ p.hash = e.hash /\ p.before = e.before
          /\ p.after = [addr |-> addr, time |-> e.after.time, count |-> 0]
          /\ p = [hash |-> p.hash, before |-> p.before, after |-> p.after,
                  skips |-> p.skips, diff |-> p.diff]
      BY <1>1, <2>1, <3>1 DEF HitIn
    <3>3. p.after \in HitIn(n, t)
      BY <1>1, <3>2 DEF HitIn
    <3>4. p.after.addr = addr /\ p.after.count = 0
      BY <3>2
    <3>5. Total(p) = Total(e)
      BY <2>1, <3>2, <3>4 DEF Total
    <3>6. e.before.addr < addr
      BY <1>1, <1>4, <2>3
    <3>7. InOrder(p)
      BY <1>1, <1>2, <3>2, <3>4, <3>6 DEF InOrder
    <3> QED BY <1>1, <3>2, <3>3, <3>4, <3>5, <3>7 DEF EntryOK
  <2> QED BY <2>2, <2>3
<1> QED BY <1>3, <1>4

LEMMA IncrementOK ==
    ASSUME NEW n \in Nat, NEW t \in Nat, NEW h \in HitIn(n, t), NEW now \in Nat, t <= now
    PROVE  /\ TdHitIncrement(h, now) = [addr |-> h.addr, time |-> now, count |-> h.count + 1]
           /\ TdHitIncrement(h, now) \in HitIn(n + 1, now)
<1>1. /\ h = [addr |-> h.addr, time |-> h.time, count |-> h.count]
      /\ h.addr \in Addresses \cup {0} /\ h.count \in 0 .. n
  BY DEF HitIn
<1>2. TdHitIncrement(h, now) = [h EXCEPT !.count = h.count + 1, !.time = now]
  BY <1>1 DEF TdHitIncrement
<1>3. TdHitIncrement(h, now) = [addr |-> h.addr, time |-> now, count |-> h.count + 1]
  BY <1>1, <1>2
<1>4. h.count + 1 \in 0 .. n + 1 /\ now \in 0 .. now
  BY <1>1
<1> QED BY <1>1, <1>3, <1>4 DEF HitIn

LEMMA AverageKeeps ==
    ASSUME NEW e, NEW now, NEW a, a = Average(e, now),
           e = [hash |-> e.hash, before |-> e.before, after |-> e.after,
                skips |-> e.skips, diff |-> e.diff]
    PROVE  /\ a = [hash |-> a.hash, before |-> a.before, after |-> a.after,
                   skips |-> a.skips, diff |-> a.diff]
           /\ a.hash = e.hash /\ a.before = e.before /\ a.after = e.after
BY DEF Average

LEMMA UpdateOK ==
    ASSUME NearAddresses, NEW e, NEW n \in Nat, NEW t \in Nat, EntryOK(e, n, t),
           NEW addr \in Addresses, e.hash \in Threads, NEW now \in Nat, t <= now,
           AreWithinSiblingRange(e.before.addr, addr),
           e.before.addr = addr \/ e.after.addr \in {addr, 0},
           NEW u, u = TdUpdateSibling(e, addr, now)
    PROVE  EntryOK(u, n + 1, now) /\ Total(u) = Total(e) + 1
<1> DEFINE p == Place(e, addr)
<1>1. EntryOK(p, n, t) /\ Total(p) = Total(e) /\ addr \in {p.before.addr, p.after.addr}
  BY PlaceOK
<1> HIDE DEF p
<1>2. EntryOK(p, n + 1, now)
  BY <1>1, EntryIsOld
<1>3. /\ p = [hash |-> p.hash, before |-> p.before, after |-> p.after,
              skips |-> p.skips, diff |-> p.diff]
      /\ p.before \in HitIn(n, t) /\ p.after \in HitIn(n, t)
      /\ p.before \in HitIn(n + 1, now) /\ p.after \in HitIn(n + 1, now)
      /\ p.hash \in Threads => p.before.addr # 0
      /\ p.after.addr = 0 => p.after.count = 0
      /\ InOrder(p) /\ Total(p) <= n
  BY <1>1, <1>2 DEF EntryOK
<1>4. p.before.count \in Nat /\ p.after.count \in Nat
  BY <1>3 DEF HitIn
<1>5. CASE p.before.addr = addr
  <2>1. u = [p EXCEPT !.before = TdHitIncrement(p.before, now)]
    BY <1>5 DEF TdUpdateSibling, p
  <2>2. /\ u = [hash |-> u.hash, before |-> u.before, after |-> u.after,
                skips |-> u.skips, diff |-> u.diff]
        /\ u.hash = p.hash /\ u.after = p.after /\ u.before = TdHitIncrement(p.before, now)
    BY <1>3, <2>1
  <2>3. /\ u.before.addr = p.before.addr /\ u.before.count = p.before.count + 1
        /\ u.before \in HitIn(n + 1, now)
    BY <1>3, <2>2, IncrementOK
  <2>4. Total(u) = Total(p) + 1 /\ Total(u) <= n + 1
    BY <1>3, <1>4, <2>2, <2>3 DEF Total
  <2>5. InOrder(u)
    BY <1>3, <2>2, <2>3 DEF InOrder, IsOrphan
  <2> QED BY <1>1, <1>3, <2>2, <2>3, <2>4, <2>5 DEF EntryOK
<1>6. CASE p.before.addr # addr
  <2> DEFINE a == Average(p, now)
  <2>1. /\ a = [hash |-> a.hash, before |-> a.before, after |-> a.after,
                skips |-> a.skips, diff |-> a.diff]
        /\ a.hash = p.hash /\ a.before = p.before /\ a.after = p.after
    BY <1>3, AverageKeeps
  <2>2. u = [a EXCEPT !.after = TdHitIncrement(a.after, now)]
    BY <1>6 DEF TdUpdateSibling, p
  <2> HIDE DEF a
  <2>3. /\ u = [hash |-> u.hash, before |-> u.before, after |-> u.after,
                skips |-> u.skips, diff |-> u.diff]
        /\ u.hash = p.hash /\ u.before = p.before /\ u.after = TdHitIncrement(p.after, now)
    BY <2>1, <2>2
  <2>4. /\ u.after.addr = p.after.addr /\ u.after.count = p.after.count + 1
        /\ u.after \in HitIn(n + 1, now)
    BY <1>3, <2>3, IncrementOK
  <2>5. Total(u) = Total(p) + 1 /\ Total(u) <= n + 1
    BY <1>3, <1>4, <2>3, <2>4 DEF Total
  <2>6. InOrder(u)
    BY <1>3, <2>3, <2>4 DEF InOrder, IsOrphan
  <2>7. u.after.addr # 0
    BY <1>1, <1>6, <2>4, AddressAssumption
  <2> QED BY <1>1, <1>3, <2>3, <2>4, <2>5, <2>6, <2>7 DEF EntryOK
<1> QED BY <1>5, <1>6

LEMMA CreateOK ==
    ASSUME NEW hash \in Threads, NEW addr \in Addresses, NEW now \in Nat, NEW n \in Nat, NEW e,
           e = [NoEntry EXCEPT !.hash = hash, !.before = [addr |-> addr, time |-> now, count |-> 1]]
    PROVE  EntryOK(e, n + 1, now) /\ Total(e) = 1
<1> DEFINE b == [addr |-> addr, time |-> now, count |-> 1]
<1>1. b \in HitIn(n + 1, now) /\ NoHit \in HitIn(n + 1, now)
  BY DEF HitIn, NoHit
<1>2. b.addr = addr /\ b.count = 1 /\ addr # 0
  BY AddressAssumption
<1>3. e = [NoEntry EXCEPT !.hash = hash, !.before = b]
  OBVIOUS
<1> HIDE DEF b
<1>4. e = [hash |-> hash, before |-> b, after |-> NoHit, skips |-> 0, diff |-> 0]
  BY <1>3 DEF NoEntry
<1>5. e.hash = hash /\ e.before = b /\ e.after = NoHit /\ NoHit.addr = 0 /\ NoHit.count = 0
  <2>1. NoHit.addr = 0 /\ NoHit.count = 0
    BY DEF NoHit
  <2>2. \A f : f = [hash |-> hash, before |-> b, after |-> NoHit, skips |-> 0, diff |-> 0]
          => f.hash = hash /\ f.before = b /\ f.after = NoHit
    OBVIOUS
  <2> QED BY <1>4, <2>1, <2>2, Zenon
<1>6. Total(e) = 1
  BY <1>2, <1>5 DEF Total
<1>7. InOrder(e)
  BY <1>5 DEF InOrder, IsOrphan
<1>8. e = [hash |-> e.hash, before |-> e.before, after |-> e.after, skips |-> e.skips, diff |-> e.diff]
  BY <1>4
<1> QED BY <1>1, <1>2, <1>5, <1>6, <1>7, <1>8 DEF EntryOK

(* An event concerns one slot, counts once there at most, and leaves there *)
(* either the entry whose verdict is to go on or an empty one.             *)
Handled(T, r, n, now) ==
    \E i \in 1 .. MaxHits :
        /\ EntryOK(r.sibling, n + 1, now) /\ Total(r.sibling) <= Total(T[i]) + 1
        /\ r.verdict = TdIsTimingCandidate(r.sibling)
        /\ r.hits = [T EXCEPT ![i] = IF r.verdict = "wait" THEN r.sibling ELSE NoEntry]

LEMMA EventOK ==
    ASSUME NearAddresses, NEW T, IsTable(T), NEW n \in Nat, NEW t \in Nat,
           \A i \in 1 .. MaxHits : EntryOK(T[i], n, t),
           NEW hash \in Threads, NEW addr \in Addresses, NEW now \in Nat, t <= now
    PROVE  Handled(T, TdProcessTscEvent(T, hash, addr, now), n, now)
<1> DEFINE found == TdFindSibling(T, hash, addr)
           slot == IF found # 0 THEN found ELSE TdGetSiblingSlot(T)
           after == IF found # 0 THEN [T EXCEPT ![found] = TdUpdateSibling(T[found], addr, now)]
                                 ELSE TdCreateSibling(T, hash, addr, now)
           verdict == TdIsTimingCandidate(after[slot])
           r == [sibling |-> after[slot], verdict |-> verdict,
                 hits |-> IF verdict = "wait" THEN after ELSE TdClearSibling(after, slot)]
<1>1. TdProcessTscEvent(T, hash, addr, now) = r
  BY DEF TdProcessTscEvent
<1>2. DOMAIN T = 1 .. MaxHits
  BY DEF IsTable
<1>3. \A i \in 1 .. MaxHits : Total(T[i]) \in Nat /\ T[i].before.time \in Nat
  <2>1. \A h : h \in HitIn(n, t) => h.count \in Nat /\ h.time \in Nat
    BY DEF HitIn
  <2>2. \A i \in 1 .. MaxHits : T[i].before \in HitIn(n, t) /\ T[i].after \in HitIn(n, t)
    BY DEF EntryOK
  <2> QED BY <2>1, <2>2 DEF Total
<1>4. /\ slot \in 1 .. MaxHits
      /\ \E e : /\ after = [T EXCEPT ![slot] = e]
                /\ EntryOK(e, n + 1, now) /\ Total(e) <= Total(T[slot]) + 1
  <2>1. CASE found # 0
    <3> DEFINE e == TdUpdateSibling(T[found], addr, now)
    <3>1. /\ found \in 1 .. MaxHits /\ T[found].hash = hash
          /\ AreWithinSiblingRange(T[found].before.addr, addr)
          /\ T[found].before.addr = addr \/ T[found].after.addr \in {addr, 0}
      BY <2>1, FindIs
    <3>2. EntryOK(T[found], n, t)
      BY <3>1
    <3> HIDE DEF found
    <3>3. EntryOK(e, n + 1, now) /\ Total(e) = Total(T[found]) + 1
      BY <3>1, <3>2, UpdateOK
    <3>4. slot = found /\ after = [T EXCEPT ![found] = e]
      BY <2>1
    <3> HIDE DEF e, slot, after
    <3>5. Total(e) <= Total(T[found]) + 1
      BY <1>3, <3>1, <3>3
    <3> QED BY <3>1, <3>3, <3>4, <3>5
  <2>2. CASE found = 0
    <3> DEFINE e == [NoEntry EXCEPT !.hash = hash, !.before = [addr |-> addr, time |-> now, count |-> 1]]
    <3>1. TdGetSiblingSlot(T) \in 1 .. MaxHits
      BY <1>3, SlotIs
    <3>2. EntryOK(e, n + 1, now) /\ Total(e) = 1
      BY CreateOK
    <3> HIDE DEF found
    <3>3. slot = TdGetSiblingSlot(T) /\ after = [T EXCEPT ![TdGetSiblingSlot(T)] = e]
      BY <2>2 DEF TdCreateSibling
    <3> HIDE DEF e, slot, after
    <3>4. Total(e) <= Total(T[slot]) + 1
      BY <1>3, <3>1, <3>2, <3>3
    <3> QED BY <3>1, <3>2, <3>3, <3>4
  <2> QED BY <2>1, <2>2
<1> HIDE DEF found, slot, after
<1>5. PICK e : /\ after = [T EXCEPT ![slot] = e]
               /\ EntryOK(e, n + 1, now) /\ Total(e) <= Total(T[slot]) + 1
  BY <1>4
<1>6. after[slot] = e
  BY <1>2, <1>4, <1>5
<1> HIDE DEF verdict
<1>7. r.sibling = e /\ r.verdict = verdict
      /\ r.hits = IF verdict = "wait" THEN after ELSE TdClearSibling(after, slot)
  BY <1>6
<1>8. verdict = TdIsTimingCandidate(e)
  BY <1>6 DEF verdict
<1>9. TdClearSibling(after, slot) = [T EXCEPT ![slot] = NoEntry]
  BY <1>2, <1>4, <1>5 DEF TdClearSibling
<1>10. r.hits = [T EXCEPT ![slot] = IF verdict = "wait" THEN e ELSE NoEntry]
  BY <1>5, <1>7, <1>9
<1> HIDE DEF r
<1>11. Handled(T, r, n, now)
  BY <1>4, <1>5, <1>7, <1>8, <1>10 DEF Handled
<1> QED BY <1>1, <1>11

(* All that the table has counted, one by one; an event adds one at most.  *)
CountedIn(T) == UNION {{i} \X (1 .. Total(T[i])) : i \in 1 .. MaxHits}

LEMMA CountedGrows ==
    ASSUME NEW T, IsTable(T), \A i \in 1 .. MaxHits : Total(T[i]) \in Nat,
           NEW n \in Nat, IsFiniteSet(CountedIn(T)), Cardinality(CountedIn(T)) <= n,
           NEW i \in 1 .. MaxHits, NEW e, Total(e) \in Nat, Total(e) <= Total(T[i]) + 1,
           NEW U, U = [T EXCEPT ![i] = e]
    PROVE  IsFiniteSet(CountedIn(U)) /\ Cardinality(CountedIn(U)) <= n + 1
<1> DEFINE x == <<i, Total(T[i]) + 1>>
<1>1. \A j \in 1 .. MaxHits : j # i => U[j] = T[j]
  BY DEF IsTable
<1>2. U[i] = e
  BY DEF IsTable
<1>3. CountedIn(U) \subseteq CountedIn(T) \cup {x}
  <2> SUFFICES ASSUME NEW j \in 1 .. MaxHits, NEW k \in 1 .. Total(U[j])
               PROVE  <<j, k>> \in CountedIn(T) \cup {x}
    BY DEF CountedIn
  <2>1. CASE j # i
    BY <1>1, <2>1 DEF CountedIn
  <2>2. CASE j = i
    <3>1. k \in 1 .. Total(T[i]) \/ k = Total(T[i]) + 1
      BY <1>2, <2>2
    <3> QED BY <2>2, <3>1 DEF CountedIn
  <2> QED BY <2>1, <2>2
<1> HIDE DEF x
<1>4. /\ IsFiniteSet(CountedIn(T) \cup {x})
      /\ Cardinality(CountedIn(T) \cup {x}) \in {Cardinality(CountedIn(T)), Cardinality(CountedIn(T)) + 1}
  BY FS_AddElement
<1>5. IsFiniteSet(CountedIn(U)) /\ Cardinality(CountedIn(U)) <= Cardinality(CountedIn(T) \cup {x})
  BY <1>3, <1>4, FS_Subset
<1>6. Cardinality(CountedIn(T)) \in Nat /\ Cardinality(CountedIn(U)) \in Nat
  BY <1>5, FS_CardinalityType
<1> QED BY <1>4, <1>5, <1>6

(* The inductive invariant of the table.                                   *)
TableInv ==
    /\ IsTable(hits) /\ cur \in Threads
    /\ clock \in 0 .. MaxClock /\ events \in 0 .. MaxEvents
    /\ \A i \in 1 .. MaxHits : EntryOK(hits[i], events, clock) /\ Ends(hits[i])
    /\ IsFiniteSet(CountedIn(hits)) /\ Cardinality(CountedIn(hits)) <= events

LEMMA EmptyTable ==
    ASSUME NEW n \in Nat, NEW t \in Nat
    PROVE  /\ IsTable(InitializeVcpuContext)
           /\ \A i \in 1 .. MaxHits : /\ EntryOK(InitializeVcpuContext[i], n, t)
                                      /\ Ends(InitializeVcpuContext[i])
           /\ IsFiniteSet(CountedIn(InitializeVcpuContext))
           /\ Cardinality(CountedIn(InitializeVcpuContext)) = 0
<1>1. \A i \in 1 .. MaxHits : InitializeVcpuContext[i] = NoEntry
  BY DEF InitializeVcpuContext
<1>2. IsTable(InitializeVcpuContext)
  BY DEF IsTable, InitializeVcpuContext
<1>3. CountedIn(InitializeVcpuContext) = {}
  <2>1. \A i \in 1 .. MaxHits : Total(InitializeVcpuContext[i]) = 0
    BY <1>1, NoEntryOK
  <2> QED BY <2>1 DEF CountedIn
<1> QED BY <1>1, <1>2, <1>3, NoEntryOK, FS_EmptySet

LEMMA RdtscKeepsTable ==
    ASSUME NearAddresses, TableInv, VmRdtscEmulate
    PROVE  TableInv'
<1>1. /\ clock \in Nat /\ events \in Nat /\ MaxClock \in Nat /\ MaxEvents \in Nat
      /\ cur \in Threads /\ IsTable(hits)
  BY BoundAssumption DEF TableInv
<1>2. events' = events + 1 /\ events < MaxEvents /\ cur' = cur
  BY DEF VmRdtscEmulate, MoreEvents
<1>3. PICK a \in Addresses, d \in Deltas :
        /\ clock + d <= MaxClock /\ clock' = clock + d
        /\ hits' = TdProcessTscEvent(hits, cur, a, clock + d).hits
  BY DEF VmRdtscEmulate
<1> DEFINE now == clock + d
           r == TdProcessTscEvent(hits, cur, a, now)
<1>4. now \in Nat /\ clock <= now /\ now <= MaxClock
  BY <1>1, <1>3, AddressAssumption
<1>5. \A i \in 1 .. MaxHits : EntryOK(hits[i], events, clock)
  BY DEF TableInv
<1> HIDE DEF now
<1>6. Handled(hits, r, events, now)
  BY <1>1, <1>4, <1>5, EventOK
<1>7. hits' = r.hits /\ clock' = now
  BY <1>3 DEF now
<1> HIDE DEF r
<1>8. PICK i \in 1 .. MaxHits :
        /\ EntryOK(r.sibling, events + 1, now) /\ Total(r.sibling) <= Total(hits[i]) + 1
        /\ r.verdict = TdIsTimingCandidate(r.sibling)
        /\ r.hits = [hits EXCEPT ![i] = IF r.verdict = "wait" THEN r.sibling ELSE NoEntry]
  BY <1>6 DEF Handled
<1> DEFINE e == IF r.verdict = "wait" THEN r.sibling ELSE NoEntry
<1>9. \A j \in 1 .. MaxHits : Total(hits[j]) \in Nat
  <2>1. \A h : h \in HitIn(events, clock) => h.count \in Nat
    BY DEF HitIn
  <2>2. \A j \in 1 .. MaxHits : hits[j].before \in HitIn(events, clock) /\ hits[j].after \in HitIn(events, clock)
    BY <1>5 DEF EntryOK
  <2> QED BY <2>1, <2>2 DEF Total
<1>10. EntryOK(e, events + 1, now) /\ Ends(e) /\ Total(e) \in Nat /\ Total(e) <= Total(hits[i]) + 1
  <2>1. CASE r.verdict = "wait"
    <3>1. e = r.sibling /\ TdIsTimingCandidate(e) = "wait"
      BY <1>8, <2>1
    <3>2. EntryOK(e, events + 1, now) /\ Total(e) <= Total(hits[i]) + 1
      BY <1>8, <2>1
    <3> HIDE DEF e
    <3>3. Ends(e)
      BY <3>1 DEF Ends, TdIsTimingCandidate
    <3>4. Total(e) \in Nat
      BY <1>1, <3>2 DEF EntryOK, HitIn, Total
    <3> QED BY <3>2, <3>3, <3>4
  <2>2. CASE r.verdict # "wait"
    <3>1. e = NoEntry
      BY <2>2
    <3>2. EntryOK(NoEntry, events + 1, now) /\ Ends(NoEntry) /\ Total(NoEntry) = 0
      BY <1>1, <1>4, NoEntryOK
    <3> HIDE DEF e
    <3> QED BY <1>9, <3>1, <3>2
  <2> QED BY <2>1, <2>2
<1>11. hits' = [hits EXCEPT ![i] = e]
  BY <1>7, <1>8
<1> HIDE DEF e
<1>12. IsTable(hits')
  BY <1>1, <1>11 DEF IsTable
<1>13. \A j \in 1 .. MaxHits : EntryOK(hits'[j], events', clock') /\ Ends(hits'[j])
  <2> SUFFICES ASSUME NEW j \in 1 .. MaxHits PROVE EntryOK(hits'[j], events + 1, now) /\ Ends(hits'[j])
    BY <1>2, <1>7
  <2>1. CASE j = i
    <3>1. hits'[j] = e
      BY <1>1, <1>11, <2>1 DEF IsTable
    <3> QED BY <1>10, <3>1
  <2>2. CASE j # i
    <3>1. hits'[j] = hits[j]
      BY <1>1, <1>11, <2>2 DEF IsTable
    <3>2. EntryOK(hits[j], events, clock) /\ Ends(hits[j])
      BY DEF TableInv
    <3>3. EntryOK(hits[j], events + 1, now)
      BY <1>1, <1>4, <3>2, EntryIsOld
    <3> QED BY <3>1, <3>2, <3>3
  <2> QED BY <2>1, <2>2
<1>14. IsFiniteSet(CountedIn(hits')) /\ Cardinality(CountedIn(hits')) <= events + 1
  <2>1. IsFiniteSet(CountedIn(hits)) /\ Cardinality(CountedIn(hits)) <= events
    BY DEF TableInv
  <2> QED BY <1>1, <1>9, <1>10, <1>11, <2>1, CountedGrows
<1>15. cur' \in Threads /\ clock' \in 0 .. MaxClock /\ events' \in 0 .. MaxEvents
  BY <1>1, <1>2, <1>4, <1>7
<1>16. TableInv' <=>
        /\ IsTable(hits') /\ cur' \in Threads
        /\ clock' \in 0 .. MaxClock /\ events' \in 0 .. MaxEvents
        /\ \A j \in 1 .. MaxHits : EntryOK(hits'[j], events', clock') /\ Ends(hits'[j])
        /\ IsFiniteSet(CountedIn(hits')) /\ Cardinality(CountedIn(hits')) <= events'
  BY DEF TableInv
<1> QED BY <1>2, <1>12, <1>13, <1>14, <1>15, <1>16

(* What the other steps do to the table, its clock and its thread.         *)
LEMMA TableSteps ==
    ASSUME [Next]_vars, cur \in Threads
    PROVE  \/ VmRdtscEmulate
           \/ hits' = InitializeVcpuContext /\ UNCHANGED <<clock, events, cur>>
           \/ UNCHANGED timing /\ cur' \in Threads
<1> USE DEF timing, people
<1>1. CASE Launch
  BY <1>1 DEF Launch
<1>2. CASE SwitchThread
  BY <1>2 DEF SwitchThread
<1>3. CASE VmRdtscEmulate
  BY <1>3
<1>4. CASE WorkerExempts \/ Cpuid
  BY <1>4 DEF WorkerExempts, Cpuid
<1>5. CASE SingleStep \/ Stop \/ MovToCr4 \/ MovToCr3 \/ Xsetbv \/ Reflect
  BY <1>5 DEF SingleStep, Stop, MovToCr4, MovToCr3, Xsetbv, Reflect, Op
<1>6. CASE UnknownService \/ InstrInvdEmulate \/ HvmHandleMsrReadFsBase \/ InstrMsrEmulate \/ UnknownExit
  BY <1>6 DEF UnknownService, InstrInvdEmulate, HvmHandleMsrReadFsBase, InstrMsrEmulate, UnknownExit,
              Completes, Crashes, Op
<1>7. CASE VmxInstruction \/ OtherException
  BY <1>7 DEF VmxInstruction, OtherException, Injects, Op
<1>8. CASE UNCHANGED vars
  BY <1>8 DEF vars
<1> QED BY <1>1, <1>2, <1>3, <1>4, <1>5, <1>6, <1>7, <1>8 DEF Next, HvmpExitHandler, DsHvmExitHandler

LEMMA TableInvariant ==
    ASSUME NearAddresses
    PROVE  Spec => []TableInv
<1>1. Init => TableInv
  <2> SUFFICES ASSUME Init PROVE TableInv
    OBVIOUS
  <2>1. hits = InitializeVcpuContext /\ clock = 0 /\ events = 0 /\ cur \in Threads
    BY DEF Init
  <2>2. /\ IsTable(hits) /\ IsFiniteSet(CountedIn(hits)) /\ Cardinality(CountedIn(hits)) = 0
        /\ \A i \in 1 .. MaxHits : EntryOK(hits[i], events, clock) /\ Ends(hits[i])
    BY <2>1, EmptyTable
  <2> QED BY <2>1, <2>2, BoundAssumption DEF TableInv
<1>2. ASSUME TableInv, [Next]_vars PROVE TableInv'
  <2>1. cur \in Threads /\ clock \in Nat /\ events \in Nat
    BY <1>2 DEF TableInv
  <2>2. CASE VmRdtscEmulate
    BY <1>2, <2>2, RdtscKeepsTable
  <2>3. CASE hits' = InitializeVcpuContext /\ UNCHANGED <<clock, events, cur>>
    <3>1. /\ IsTable(hits') /\ IsFiniteSet(CountedIn(hits')) /\ Cardinality(CountedIn(hits')) = 0
          /\ \A i \in 1 .. MaxHits : EntryOK(hits'[i], events', clock') /\ Ends(hits'[i])
      BY <2>1, <2>3, EmptyTable
    <3>2. Cardinality(CountedIn(hits')) <= events'
      BY <2>1, <2>3, <3>1
    <3> QED BY <1>2, <2>3, <3>1, <3>2 DEF TableInv
  <2>4. CASE UNCHANGED timing /\ cur' \in Threads
    BY <1>2, <2>4 DEF TableInv, timing
  <2> QED BY <1>2, <2>1, <2>2, <2>3, <2>4, TableSteps
<1> QED BY <1>1, <1>2, PTL DEF Spec
-----------------------------------------------------------------------------
(* The types, on any machine.                                              *)

Outs == [done : BOOLEAN, event : {"none", "DB", "UD", "GP"}]
VmcsTyped == vmcs.cr4 \subseteq Cr4Bits /\ vmcs.host \subseteq Cr4Bits /\ vmcs.shadow \subseteq TSD
TypeInv ==
    /\ Shape /\ VmcsTyped /\ out \in Outs
    /\ vmx \in {"off", "guest", "crashed"}
    /\ vmx = "guest" => vmcs.cr3 \in Cr3s
    /\ feature \in {"enabled", "disabled", "unlocked"}
    /\ cur \in Threads /\ exempt \subseteq Threads /\ reports \subseteq Threads

LEMMA OutStays ==
    ASSUME out \in Outs, [Next]_vars
    PROVE  out' \in Outs
<1>1. InstrRipAdvance => out' \in Outs
  BY DEF InstrRipAdvance, Outs
<1>2. \A e \in {"UD", "GP"} : VmInject(e) => out' \in Outs
  BY DEF VmInject, Outs
<1>3. [done |-> TRUE, event |-> "none"] \in Outs /\ [done |-> FALSE, event |-> "none"] \in Outs
  BY DEF Outs
<1>4. Cpuid => InstrRipAdvance \/ out' = [done |-> FALSE, event |-> "none"]
  BY DEF Cpuid
<1>5. UNCHANGED vars => out' = out
  BY DEF vars
<1> QED BY <1>1, <1>2, <1>3, <1>4, <1>5, StepEnds

LEMMA TfStays ==
    ASSUME tf \in BOOLEAN, [Next]_vars
    PROVE  tf' \in BOOLEAN
<1> USE DEF InstrRipAdvance, VmInject
<1>1. CASE Launch \/ SingleStep \/ WorkerExempts \/ Stop \/ SwitchThread \/ VmRdtscEmulate \/ Reflect
  BY <1>1 DEF Launch, SingleStep, WorkerExempts, Stop, SwitchThread, VmRdtscEmulate, Reflect
<1>2. CASE MovToCr4 \/ MovToCr3 \/ Cpuid
  BY <1>2 DEF MovToCr4, MovToCr4Unseen, MovToCr4Exit, MovToCr3, Cpuid
<1>3. CASE Xsetbv
  BY <1>3 DEF Xsetbv, XsetbvEnd
<1>4. CASE UnknownService \/ InstrInvdEmulate \/ HvmHandleMsrReadFsBase \/ InstrMsrEmulate \/ UnknownExit
  BY <1>4 DEF UnknownService, InstrInvdEmulate, HvmHandleMsrReadFsBase, InstrMsrEmulate, UnknownExit,
              Completes, Crashes
<1>5. CASE VmxInstruction \/ OtherException
  BY <1>5 DEF VmxInstruction, OtherException, Injects
<1>6. CASE UNCHANGED vars
  BY <1>6 DEF vars
<1> QED BY <1>1, <1>2, <1>3, <1>4, <1>5, <1>6 DEF Next, HvmpExitHandler, DsHvmExitHandler

LEMMA CompliantIsTyped ==
    ASSUME Shape, NEW v, v \subseteq Cr4Bits
    PROVE  VmMakeCompliantCr4(v) \subseteq Cr4Bits
<1>1. VmMakeCompliantCr4(v) = (v \cap caps[Boot].Cr4Maybe1) \cup VMXE
  BY Compliant
<1> QED BY <1>1 DEF VMXE, Cr4Bits

LEMMA TrimIsTyped ==
    ASSUME Shape, VmcsTyped, NEW enable \in BOOLEAN, NEW v, v = HvmTrimTsdForQuantum(vmcs, enable)
    PROVE  /\ v = [cr3 |-> v.cr3, cr4 |-> v.cr4, mask |-> v.mask, shadow |-> v.shadow,
                   host |-> v.host, ctl |-> v.ctl]
           /\ v.cr3 = vmcs.cr3 /\ v.host = vmcs.host /\ v.shadow = vmcs.shadow
           /\ v.cr4 \subseteq Cr4Bits
<1> DEFINE c == VmMakeCompliantCr4(vmcs.cr4)
<1>1. c \subseteq Cr4Bits /\ TSD \subseteq Cr4Bits
  BY CompliantIsTyped DEF VmcsTyped, TSD, Cr4Bits
<1>2. \/ v = vmcs
      \/ v = [vmcs EXCEPT !.cr4 = c \ TSD]
      \/ v = [vmcs EXCEPT !.cr4 = c \cup TSD]
  BY DEF HvmTrimTsdForQuantum
<1> HIDE DEF c
<1>3. CASE v = vmcs
  BY <1>3 DEF Shape, VmcsTyped
<1>4. ASSUME NEW d, v = [vmcs EXCEPT !.cr4 = d], d \subseteq Cr4Bits
      PROVE  /\ v = [cr3 |-> v.cr3, cr4 |-> v.cr4, mask |-> v.mask, shadow |-> v.shadow,
                     host |-> v.host, ctl |-> v.ctl]
             /\ v.cr3 = vmcs.cr3 /\ v.host = vmcs.host /\ v.shadow = vmcs.shadow
             /\ v.cr4 \subseteq Cr4Bits
  BY <1>4 DEF Shape
<1>5. c \ TSD \subseteq Cr4Bits /\ c \cup TSD \subseteq Cr4Bits
  BY <1>1
<1> QED BY <1>2, <1>3, <1>4, <1>5

LEMMA LaunchIsTyped ==
    ASSUME TypeInv, Launch, tf' \in BOOLEAN, out' \in Outs
    PROVE  TypeInv'
<1>1. /\ vmx' = "guest" /\ feature' = "enabled" /\ vmcs' = HvmpEnterRoot(os) /\ asked' = Untouched(os)
      /\ UNCHANGED <<caps, os, cur, exempt, reports>>
  BY DEF Launch
<1>2. Shape
  BY DEF TypeInv
<1>3. /\ vmcs' = [cr3 |-> vmcs'.cr3, cr4 |-> vmcs'.cr4, mask |-> vmcs'.mask, shadow |-> vmcs'.shadow,
                  host |-> vmcs'.host, ctl |-> vmcs'.ctl]
      /\ vmcs'.cr3 = os.cr3 /\ vmcs'.cr4 = VmMakeCompliantCr4(os.cr4 \cup VMXE) \cup TSD
      /\ vmcs'.shadow = {} /\ vmcs'.host = os.cr4 \cup VMXE
  BY <1>1, <1>2, EnterRoot
<1>4. os.cr3 \in Cr3s /\ os.cr4 \subseteq Cr4Bits /\ VMXE \cup TSD \subseteq Cr4Bits
  BY <1>2 DEF Shape, Regs, VMXE, TSD, Cr4Bits
<1>5. VmMakeCompliantCr4(os.cr4 \cup VMXE) \subseteq Cr4Bits
  BY <1>2, <1>4, CompliantIsTyped
<1>6. VmcsTyped'
  BY <1>3, <1>4, <1>5 DEF VmcsTyped
<1>7. Shape'
  <2>1. asked' \in Written
    BY <1>1, <1>4 DEF Untouched, Written
  <2> QED BY <1>1, <1>2, <1>3, <2>1 DEF Shape
<1> QED BY <1>1, <1>3, <1>4, <1>6, <1>7 DEF TypeInv

LEMMA Cr4IsTyped ==
    ASSUME TypeInv, MovToCr4, tf' \in BOOLEAN, out' \in Outs
    PROVE  TypeInv'
<1>1. Shape /\ VmcsTyped /\ vmx = "guest" /\ vmcs.cr3 \in Cr3s
  BY DEF TypeInv, MovToCr4, Op
<1>2. UNCHANGED <<vmx, caps, feature, os, cur, exempt, reports>>
  BY DEF MovToCr4, machine, people
<1>3. PICK v \in SUBSET Cr4Bits : /\ asked' = [asked EXCEPT !.cr4 = v, !.written = TRUE]
                                  /\ MovToCr4Unseen(v) \/ MovToCr4Exit(v)
  BY DEF MovToCr4
<1>4. asked' \in Written
  BY <1>1, <1>3 DEF Shape, Written
<1>5. /\ vmcs' = [cr3 |-> vmcs'.cr3, cr4 |-> vmcs'.cr4, mask |-> vmcs'.mask, shadow |-> vmcs'.shadow,
                  host |-> vmcs'.host, ctl |-> vmcs'.ctl]
      /\ vmcs'.cr3 = vmcs.cr3 /\ VmcsTyped'
  <2>1. CASE MovToCr4Unseen(v)
    <3>1. vmcs' = [vmcs EXCEPT !.cr4 = (vmcs.cr4 \cap vmcs.mask) \cup (v \ vmcs.mask)]
      BY <2>1 DEF MovToCr4Unseen
    <3> QED BY <1>1, <3>1 DEF Shape, VmcsTyped
  <2>2. CASE MovToCr4Exit(v)
    <3> DEFINE new == VmMakeCompliantCr4(VmGetGuestVisibleCr4(v))
               h == IF ~OSXSAVE \subseteq new THEN vmcs.host \ OSXSAVE
                    ELSE IF IsXStateSupported THEN vmcs.host \cup OSXSAVE ELSE vmcs.host
    <3>1. VmGetGuestVisibleCr4(v) \subseteq Cr4Bits
      BY <1>1 DEF VmGetGuestVisibleCr4, VmcsTyped, TSD, Cr4Bits
    <3>2. new \subseteq Cr4Bits
      BY <1>1, <3>1, CompliantIsTyped
    <3>3. vmcs' = [vmcs EXCEPT !.cr4 = new \cup (vmcs.cr4 \cap TSD), !.host = h,
                               !.shadow = (vmcs.shadow \ TSD) \cup (v \cap TSD)]
      BY <2>2 DEF MovToCr4Exit, InstrCr4Emulate
    <3>4. h \subseteq Cr4Bits
      BY <1>1 DEF VmcsTyped, OSXSAVE, Cr4Bits
    <3> HIDE DEF new, h
    <3>5. /\ vmcs' = [cr3 |-> vmcs'.cr3, cr4 |-> vmcs'.cr4, mask |-> vmcs'.mask, shadow |-> vmcs'.shadow,
                      host |-> vmcs'.host, ctl |-> vmcs'.ctl]
          /\ vmcs'.cr3 = vmcs.cr3 /\ vmcs'.cr4 = new \cup (vmcs.cr4 \cap TSD) /\ vmcs'.host = h
          /\ vmcs'.shadow = (vmcs.shadow \ TSD) \cup (v \cap TSD)
      BY <1>1, <3>3 DEF Shape
    <3> QED BY <1>1, <3>2, <3>4, <3>5 DEF VmcsTyped
  <2> QED BY <1>3, <2>1, <2>2
<1>6. Shape'
  BY <1>1, <1>2, <1>4, <1>5 DEF Shape
<1> QED BY <1>1, <1>2, <1>5, <1>6 DEF TypeInv

LEMMA StopIsTyped ==
    ASSUME TypeInv, Stop, tf' \in BOOLEAN, out' \in Outs
    PROVE  TypeInv'
<1>1. Shape /\ VmcsTyped /\ vmcs.cr3 \in Cr3s
  BY DEF TypeInv, Stop, Op
<1>2. /\ os' = VmxpDisable(HvmpRestoreHostState(vmcs)) /\ vmx' = "off" /\ vmcs' = NoVmcs
      /\ UNCHANGED <<caps, feature, asked, cur, exempt, reports>>
  BY DEF Stop
<1>3. os' \in Regs
  BY <1>1, <1>2 DEF VmxpDisable, HvmpRestoreHostState, Regs, VmcsTyped
<1>4. VmcsTyped'
  BY <1>2 DEF NoVmcs, VmcsTyped
<1>5. Shape'
  BY <1>1, <1>2, <1>3 DEF Shape, NoVmcs
<1> QED BY <1>2, <1>4, <1>5 DEF TypeInv

LEMMA QuantumIsTyped ==
    ASSUME TypeInv, SwitchThread \/ VmRdtscEmulate, tf' \in BOOLEAN, out' \in Outs
    PROVE  TypeInv'
<1>1. Shape /\ VmcsTyped /\ vmx = "guest" /\ vmcs.cr3 \in Cr3s
  BY DEF TypeInv, SwitchThread, VmRdtscEmulate, Traps
<1>2. UNCHANGED <<vmx, caps, feature, os, asked, exempt>>
  BY DEF SwitchThread, VmRdtscEmulate, machine
<1>3. /\ UNCHANGED vmcs \/ \E enable \in BOOLEAN : vmcs' = HvmTrimTsdForQuantum(vmcs, enable)
      /\ cur' \in Threads /\ reports' \subseteq Threads
  <2>1. CASE SwitchThread
    <3>1. PICK t \in Threads \ {cur} : cur' = t /\ vmcs' = HvmTrimTsdForQuantum(vmcs, t \notin exempt)
      BY <2>1 DEF SwitchThread
    <3>2. (t \notin exempt) \in BOOLEAN
      OBVIOUS
    <3>3. reports' \subseteq Threads
      BY <2>1 DEF SwitchThread, TypeInv
    <3> QED BY <3>1, <3>2, <3>3, Zenon
  <2>2. CASE VmRdtscEmulate
    <3>1. \E r : Verdict(r)
      BY <2>2 DEF VmRdtscEmulate
    <3>2. PICK r : Verdict(r)
      BY <3>1
    <3>3. UNCHANGED cur /\ cur \in Threads /\ reports \subseteq Threads
      BY <2>2 DEF VmRdtscEmulate, TypeInv
    <3>4. /\ UNCHANGED vmcs \/ vmcs' = HvmTrimTsdForQuantum(vmcs, FALSE)
          /\ reports' = reports \/ reports' = reports \cup {cur}
      BY <3>2 DEF Verdict
    <3>5. reports' \subseteq Threads
      BY <3>3, <3>4
    <3> QED BY <3>3, <3>4, <3>5, Zenon
  <2> QED BY <2>1, <2>2
<1>4. /\ vmcs' = [cr3 |-> vmcs'.cr3, cr4 |-> vmcs'.cr4, mask |-> vmcs'.mask, shadow |-> vmcs'.shadow,
                  host |-> vmcs'.host, ctl |-> vmcs'.ctl]
      /\ vmcs'.cr3 = vmcs.cr3 /\ VmcsTyped'
  <2>1. CASE UNCHANGED vmcs
    BY <1>1, <2>1 DEF Shape, VmcsTyped
  <2>2. ASSUME NEW enable \in BOOLEAN, vmcs' = HvmTrimTsdForQuantum(vmcs, enable)
        PROVE  /\ vmcs' = [cr3 |-> vmcs'.cr3, cr4 |-> vmcs'.cr4, mask |-> vmcs'.mask,
                           shadow |-> vmcs'.shadow, host |-> vmcs'.host, ctl |-> vmcs'.ctl]
               /\ vmcs'.cr3 = vmcs.cr3 /\ VmcsTyped'
    <3>1. /\ vmcs' = [cr3 |-> vmcs'.cr3, cr4 |-> vmcs'.cr4, mask |-> vmcs'.mask,
                      shadow |-> vmcs'.shadow, host |-> vmcs'.host, ctl |-> vmcs'.ctl]
          /\ vmcs'.cr3 = vmcs.cr3 /\ vmcs'.host = vmcs.host /\ vmcs'.shadow = vmcs.shadow
          /\ vmcs'.cr4 \subseteq Cr4Bits
      BY <1>1, <2>2, TrimIsTyped
    <3> QED BY <1>1, <3>1 DEF VmcsTyped
  <2> QED BY <1>3, <2>1, <2>2
<1>5. Shape'
  BY <1>1, <1>2, <1>4 DEF Shape
<1>6. feature' \in {"enabled", "disabled", "unlocked"} /\ exempt' \subseteq Threads
  BY <1>2 DEF TypeInv
<1> QED BY <1>1, <1>2, <1>3, <1>4, <1>5, <1>6 DEF TypeInv

LEMMA OthersAreTyped ==
    ASSUME TypeInv, UNCHANGED <<caps, feature, os, vmcs, asked, cur>>, tf' \in BOOLEAN, out' \in Outs,
           exempt' \subseteq Threads, reports' \subseteq Threads, vmx' = vmx \/ vmx' = "crashed"
    PROVE  TypeInv'
BY DEF TypeInv, Shape, VmcsTyped

LEMMA TypesKept ==
    ASSUME TypeInv, [Next]_vars
    PROVE  TypeInv'
<1> USE DEF machine, people
<1>1. tf' \in BOOLEAN /\ out' \in Outs
  BY OutStays, TfStays DEF TypeInv, Shape
<1>2. exempt \subseteq Threads /\ reports \subseteq Threads
  BY DEF TypeInv
<1>3. CASE Launch \/ MovToCr4 \/ Stop \/ SwitchThread \/ VmRdtscEmulate
  BY <1>1, <1>3, LaunchIsTyped, Cr4IsTyped, StopIsTyped, QuantumIsTyped
<1>4. CASE MovToCr3
  <2>1. PICK v \in Cr3s : vmcs' = [vmcs EXCEPT !.cr3 = v] /\ asked' = [asked EXCEPT !.cr3 = v]
    BY <1>4 DEF MovToCr3
  <2>2. UNCHANGED <<vmx, caps, feature, os, cur, exempt, reports>>
    BY <1>4 DEF MovToCr3
  <2>3. /\ vmcs' = [cr3 |-> vmcs'.cr3, cr4 |-> vmcs'.cr4, mask |-> vmcs'.mask, shadow |-> vmcs'.shadow,
                    host |-> vmcs'.host, ctl |-> vmcs'.ctl]
        /\ vmcs'.cr3 = v /\ vmcs'.cr4 = vmcs.cr4 /\ vmcs'.host = vmcs.host /\ vmcs'.shadow = vmcs.shadow
    BY <2>1 DEF TypeInv, Shape
  <2>4. asked' \in Written
    BY <2>1 DEF TypeInv, Shape, Written
  <2>5. Shape' /\ VmcsTyped'
    BY <1>1, <2>2, <2>3, <2>4 DEF TypeInv, Shape, VmcsTyped
  <2> QED BY <1>1, <2>2, <2>3, <2>5 DEF TypeInv
<1>5. CASE WorkerExempts
  <2>1. exempt' \subseteq Threads /\ reports' \subseteq Threads
    BY <1>2, <1>5 DEF WorkerExempts
  <2> QED BY <1>1, <1>5, <2>1, OthersAreTyped DEF WorkerExempts
<1>6. CASE SingleStep
  BY <1>1, <1>2, <1>6, OthersAreTyped DEF SingleStep
<1>7. CASE UnknownService \/ InstrInvdEmulate \/ HvmHandleMsrReadFsBase \/ InstrMsrEmulate \/ UnknownExit
  BY <1>1, <1>2, <1>7, OthersAreTyped
     DEF UnknownService, InstrInvdEmulate, HvmHandleMsrReadFsBase, InstrMsrEmulate, UnknownExit,
         Completes, Crashes
<1>8. CASE VmxInstruction \/ OtherException \/ Reflect
  BY <1>1, <1>2, <1>8, OthersAreTyped DEF VmxInstruction, OtherException, Reflect, Injects
<1>9. CASE Cpuid
  BY <1>1, <1>2, <1>9, OthersAreTyped DEF Cpuid
<1>10. CASE Xsetbv
  <2>1. UNCHANGED <<caps, feature, os, vmcs, asked, cur, exempt, reports>>
    BY <1>10 DEF Xsetbv
  <2>2. vmx' = vmx \/ vmx' = "crashed"
    BY <1>10 DEF Xsetbv, XsetbvEnd
  <2> QED BY <1>1, <1>2, <2>1, <2>2, OthersAreTyped
<1>11. CASE UNCHANGED vars
  BY <1>1, <1>2, <1>11, OthersAreTyped DEF vars
<1> QED BY <1>3, <1>4, <1>5, <1>6, <1>7, <1>8, <1>9, <1>10, <1>11
        DEF Next, HvmpExitHandler, DsHvmExitHandler

LEMMA TypeInvariant == Spec => []TypeInv
<1>1. Init => TypeInv
  <2> SUFFICES ASSUME Init PROVE TypeInv
    OBVIOUS
  <2>1. /\ os.cr3 \in Cr3s /\ os = [cr3 |-> os.cr3, cr4 |-> os.cr4]
        /\ os.cr4 \subseteq TSD \cup IF "XSAVE" \in caps[Self].Features THEN OSXSAVE ELSE {}
    BY DEF Init
  <2>2. os.cr4 \subseteq Cr4Bits
    BY <2>1 DEF TSD, OSXSAVE, Cr4Bits
  <2>3. os \in Regs /\ asked \in Written
    BY <2>1, <2>2 DEF Init, Regs, Written, Untouched
  <2>4. Shape /\ VmcsTyped
    BY <2>3 DEF Init, Shape, VmcsTyped, NoVmcs
  <2>5. out \in Outs
    BY DEF Init, Outs
  <2> QED BY <2>4, <2>5 DEF Init, TypeInv
<1>2. TypeInv /\ [Next]_vars => TypeInv'
  BY TypesKept
<1> QED BY <1>1, <1>2, PTL DEF Spec

(* TdProcessTscEvent: for any number of slots, threads and RDTSC           *)
(* instructions, all within the range of an int, the table's pairs are in  *)
(* order and close together, nothing is counted twice, and a complete pair *)
(* with a measured difference is judged at the limit of its Before.        *)
THEOREM TableIsSound ==
    ASSUME NearAddresses
    PROVE  Spec => []TableSound
<1>1. TypeInv /\ TableInv => TableSound
  <2> SUFFICES ASSUME TypeInv, TableInv PROVE TableSound
    OBVIOUS
  <2>1. /\ clock \in 0 .. MaxClock /\ events \in 0 .. MaxEvents /\ MaxClock \in Nat /\ MaxEvents \in Nat
        /\ \A i \in 1 .. MaxHits : EntryOK(hits[i], events, clock) /\ Ends(hits[i])
    BY BoundAssumption DEF TableInv
  <2>2. \A h : h \in HitIn(events, clock) => h \in Hit
    BY <2>1 DEF HitIn, Hit
  <2>3. \A i \in 1 .. MaxHits : hits[i].before \in Hit /\ hits[i].after \in Hit
    BY <2>1, <2>2 DEF EntryOK
  <2>4. TypeOK
    BY <2>3 DEF TypeOK, TypeInv, Shape, VmcsTyped, Regs, Written, Outs
  <2>5. SiblingsInOrder
    BY <2>1 DEF SiblingsInOrder, EntryOK, InOrder
  <2>6. PairsAreJudged
    BY <2>1 DEF PairsAreJudged, Ends
  <2>7. CountsAreReal
    <3>1. UNION {{i} \X (1 .. Counted(i)) : i \in 1 .. MaxHits} = CountedIn(hits)
      BY DEF CountedIn, Counted, Total
    <3> QED BY <3>1 DEF CountsAreReal, TableInv
  <2> QED BY <2>4, <2>5, <2>6, <2>7 DEF TableSound
<1> QED BY <1>1, TypeInvariant, TableInvariant, PTL

(* TdCopySiblingMemory: for such code the assertion at tsc.c:548 holds,    *)
(* whatever is executed next.                                              *)
THEOREM CandidatesAreClose ==
    ASSUME NearAddresses
    PROVE  Spec => []DistanceAsserted
<1>1. TableInv => DistanceAsserted
  <2> SUFFICES ASSUME TableInv, NEW a \in Addresses, NEW d \in Deltas, NEW r,
                      r = TdProcessTscEvent(hits, cur, a, clock + d), r.verdict = "candidate"
               PROVE  r.sibling.after.addr - r.sibling.before.addr < DistanceLimit
    BY DEF DistanceAsserted
  <2>1. /\ clock \in Nat /\ events \in Nat /\ cur \in Threads /\ IsTable(hits)
        /\ \A i \in 1 .. MaxHits : EntryOK(hits[i], events, clock)
    BY DEF TableInv
  <2>2. clock + d \in Nat /\ clock <= clock + d
    BY <2>1, AddressAssumption
  <2>3. Handled(hits, r, events, clock + d)
    BY <2>1, <2>2, EventOK
  <2>4. InOrder(r.sibling) /\ TdIsTimingCandidate(r.sibling) = "candidate"
    BY <2>3 DEF Handled, EntryOK
  <2>5. ~IsOrphan(r.sibling)
    BY <2>4 DEF TdIsTimingCandidate
  <2> QED BY <2>4, <2>5 DEF InOrder
<1> QED BY <1>1, TableInvariant, PTL
=============================================================================
