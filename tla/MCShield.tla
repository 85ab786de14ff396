------------------------------ MODULE MCShield ------------------------------
(***************************************************************************)
(* Instances of Shield for TLC, and what an assertion of dshvm.c says that *)
(* the code does not keep.                                                 *)
(***************************************************************************)
EXTENDS Shield

(* Launching fails on every processor or on none (VMX locked by firmware). *)
TogetherOnly == {{}, Cpus}

(* Any processors may fail to launch (one has VMX in use already).         *)
AnySubset == SUBSET Cpus

(* dshvm.c:184, NT_ASSERT( FALSE == DsIsHvmLaunched() ): an HVM that is    *)
(* finalized has been launched on no processor, or has been stopped there. *)
FinalizedWhenStopped ==
    \A t \in Callers : pc[t] = "finalize" /\ gHvm # NULL => \A p \in Cpus : vmx[p] # gHvm
=============================================================================
