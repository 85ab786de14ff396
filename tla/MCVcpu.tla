------------------------------- MODULE MCVcpu -------------------------------
(* Vcpu with capability MSRs of two kinds of processor.                    *)
EXTENDS Vcpu, TLC

Ctls(low, high) == [low |-> low, high |-> low \cup high]
Proc2 == {"EnableXsavesXrstors", "EnableInvpcid", "EnableRdtscp"}
Base(default, second) ==
    [pin |-> Ctls({"Reserved"}, {}), primary |-> Ctls(default, {"UseMsrBitmap"} \cup second),
     secondary |-> Ctls({}, Proc2 \ {"EnableXsavesXrstors"}), exit |-> Ctls({"Reserved"}, {"Ia32eHost"}),
     entry |-> Ctls({"Reserved"}, {"Ia32eGuest"})]

(* With TRUE capability MSRs MOV to CR3 need not exit.                     *)
Modern == [TrueControls |-> TRUE, Revision |-> 1, Features |-> {"XSAVE", "EnableInvpcid"},
           Std |-> Base({"Cr3LoadExiting"}, {"SecondaryControl"}), True |-> Base({}, {"SecondaryControl"}),
           Cr4Maybe0 |-> {"VMXE"}, Cr4Maybe1 |-> Cr4Bits]
Older == [Modern EXCEPT !.TrueControls = FALSE, !.Std = Base({"Cr3LoadExiting"}, {}), !.Features = {},
                        !.Cr4Maybe1 = {"VMXE", "TSD"}]
AllCaps == {Modern, Older}
OneCap == {Modern}

Symmetric == Permutations(Threads) \cup Permutations(Cr3s)
=============================================================================
