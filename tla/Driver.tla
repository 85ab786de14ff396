------------------------------- MODULE Driver -------------------------------
(***************************************************************************)
(* The life of the driver (src/src/driver.c): DriverEntry, which acquires  *)
(* one resource after the other and gives all back when one is refused,    *)
(* the shield started and stopped by the service and by the power callback *)
(* (src/src/power.c), and DriverUnload; around the process monitor, whose  *)
(* callbacks, worker and exits go on meanwhile.                            *)
(***************************************************************************)
EXTENDS ProcessMonitor

VARIABLES
    absent,     \* DSH_VMX_ABSENT( &gVmxFeature )
    res,        \* resources the driver holds
    noted,      \* those a flag or a variable says are held
    undone,     \* how many of Releases have been worked off
    suspended,  \* DSH_GFL_SHIELD_SUSPENDED
    late        \* history: what runs was started by a resume after DriverUnload's stop

driverVars == <<absent, res, noted, undone, suspended, late>>
allVars == <<vars, driverVars>>

(* What CPUID, the system and the firmware report.                         *)
Platforms == [intel : BOOLEAN, hvci : BOOLEAN, hyperv : BOOLEAN, vmx : BOOLEAN,
              firmware : {"enabled", "unlocked", "locked"}]

(* A multi-character constant has its first character in the highest byte, *)
(* a CPUID register has it in the lowest.                                  *)
Register(word) == [i \in 1 .. 4 |-> word[5 - i]]
Vendor(P) == IF P.hyperv THEN <<"M", "i", "c", "r">> ELSE <<"K", "V", "M", "K">>

DsCheckMicrosoftHyperV(P) == Register(Vendor(P)) # <<"M", "i", "c", "r">>

(* An unlocked absent register is written so that VMX can be used.        *)
DsCheckVmxFirmwareState(P) == P.firmware # "locked"

(* Some reason in gVmxFeature not to use VMX.                              *)
DsInitializeVmxFeature(P) ==
    \/ ~P.intel
    \/ P.hvci \/ ~DsCheckMicrosoftHyperV(P)
    \/ ~P.vmx
    \/ ~DsCheckVmxFirmwareState(P)

(* In the order in which DriverEntry asks for them.                        *)
Mandatory == <<"pool", "mailbox", "key", "device", "link">>
Resources == {Mandatory[i] : i \in DOMAIN Mandatory} \cup {"wpp", "power"}

(* Mutant: the pool goes before the mailbox, whose ring is in it.          *)
ReleasesPoolFirst == <<"power", "link", "device", "key", "pool", "mailbox", "wpp">>

(* In the order in which they are given back.                              *)
Releases == <<"power", "link", "device", "key", "mailbox", "pool", "wpp">>

DInit ==
    /\ Init
    /\ absent = FALSE
    /\ res = {}
    /\ noted = {}
    /\ undone = 0
    /\ suspended = FALSE
    /\ late = FALSE

EntryGoto(stage) ==
    /\ Goto(Entry, stage)
    /\ UNCHANGED <<cpuVars, target, lock, treeVars, otherVars, fault>>
-----------------------------------------------------------------------------
(***************************************************************************)
(* DriverEntry.                                                            *)
(***************************************************************************)
Detect ==
    /\ pc[Entry] = "load"
    /\ res = {}
    /\ \E P \in Platforms : absent' = DsInitializeVmxFeature(P)
    /\ res' = {"wpp"}
    /\ UNCHANGED <<vars, noted, undone, suspended, late>>

(* The next mandatory resource; the pool's refusal returns at once.        *)
Wanted(r) == \E i \in DOMAIN Mandatory :
    r = Mandatory[i] /\ r \notin res /\ \A j \in 1 .. i - 1 : Mandatory[j] \in res

Acquire ==
    /\ pc[Entry] = "load"
    /\ res # {}
    /\ \E i \in DOMAIN Mandatory :
         /\ Wanted(Mandatory[i])
         /\ res' = res \cup {Mandatory[i]}
         /\ noted' = noted \cup ({Mandatory[i]} \ {"pool"})
    /\ UNCHANGED <<vars, absent, undone, suspended, late>>

Refused ==
    /\ pc[Entry] = "load"
    /\ res # {}
    /\ \E i \in DOMAIN Mandatory : Wanted(Mandatory[i])
    /\ EntryGoto(IF "pool" \in res THEN "failed" ELSE "returned")
    /\ UNCHANGED driverVars

(* DsRegisterPowerChangeCallback is allowed to fail.                       *)
RegisterPower ==
    /\ pc[Entry] = "load"
    /\ \A i \in DOMAIN Mandatory : Mandatory[i] \in res
    /\ \E got \in SUBSET {"power"} : res' = res \cup got /\ noted' = noted \cup got
    /\ EntryGoto("procmon")
    /\ UNCHANGED <<absent, undone, suspended, late>>

(* The process monitor has started; then DsInitializeShield, the mappings  *)
(* of Mmu, whose failure DriverEntry ignores: whether they are there shows *)
(* only when DriverUnload gives them back.                                 *)
Started ==
    /\ pc[Entry] = "monitored"
    /\ noted' = noted \cup {"procmon"}
    /\ EntryGoto("up")
    /\ UNCHANGED <<absent, res, undone, suspended, late>>
-----------------------------------------------------------------------------
(***************************************************************************)
(* The service starts and stops the shield (DsCtlShieldControl); stopping  *)
(* takes every processor out of root mode first.                           *)
(***************************************************************************)
InGuest == \A c \in Cpus : pc[c] = "guest"

Shield(on) ==
    /\ shielded' = on
    /\ tsd' = [c \in Cpus |-> IF on THEN "set" ELSE "unshielded"]
    /\ UNCHANGED <<cpuVars, target, lock, treeVars, hooked, todo, life, msg, reports, found,
                   fault>>

StartShield ==
    /\ pc[Entry] = "up"
    /\ ~shielded
    /\ ~absent
    /\ Shield(TRUE)
    /\ UNCHANGED <<pc, driverVars>>

StopShield ==
    /\ pc[Entry] = "up"
    /\ shielded
    /\ InGuest
    /\ Shield(FALSE)
    /\ UNCHANGED <<pc, driverVars>>

(***************************************************************************)
(* DsPowerChangeCallback, called by the system as long as it is            *)
(* registered, at whatever point DriverEntry or DriverUnload is.           *)
(***************************************************************************)
SuspendShield ==
    /\ "power" \in res
    /\ shielded
    /\ InGuest
    /\ Shield(FALSE)
    /\ suspended' = TRUE
    /\ late' = FALSE
    /\ UNCHANGED <<pc, absent, res, noted, undone>>

(* The flag is cleared whether the shield can be started or not.           *)
ResumeShield ==
    /\ "power" \in res
    /\ ~shielded
    /\ suspended
    /\ suspended' = FALSE
    /\ \/ Shield(TRUE) /\ late' = (pc[Entry] # "up")
       \/ UNCHANGED <<shielded, tsd, cpuVars, target, lock, treeVars, hooked, todo, life, msg,
                      reports, found, fault, late>>
    /\ UNCHANGED <<pc, absent, res, noted, undone>>
-----------------------------------------------------------------------------

(* Mutant: the hypervisor runs on while the tree is deleted.               *)
UnloadKeepsShield ==
    /\ pc[Entry] = "up"
    /\ EntryGoto("stopped")
    /\ UNCHANGED driverVars

(***************************************************************************)
(* DriverUnload: the shield, the mappings, the process monitor, then the   *)
(* rest.                                                                   *)
(***************************************************************************)
Unload ==
    /\ pc[Entry] = "up"
    /\ shielded => InGuest
    /\ Shield(FALSE)
    /\ Goto(Entry, "stopped")
    /\ UNCHANGED driverVars

(* DsFinalizeShield, if there are mappings; the monitor, if it has started.*)
FinalizeShield ==
    /\ pc[Entry] = "stopped"
    /\ noted' = noted \ {"procmon"}
    /\ EntryGoto(IF "procmon" \in noted THEN "f_unhook" ELSE "down")
    /\ UNCHANGED <<absent, res, undone, suspended, late>>

Releasing == pc[Entry] \in {"failed", "down"} /\ undone < Len(Releases)

(* What comes next is given back: by DriverUnload without asking, but for  *)
(* the power callback; on the failure path, but for the pool and WPP, only *)
(* if a flag or a variable says it is held.                                *)
GivenBack ==
    LET r == Releases[undone + 1]
    IN  IF r \in noted \cup {"pool", "wpp"} \/ (pc[Entry] = "down" /\ r # "power")
        THEN {r} ELSE {}

(* The rest of DriverUnload, and the failure path of DriverEntry, where    *)
(* neither the shield nor the process monitor has been started.            *)
(* RtlMailboxDestroy ends the worker; records that are left are dropped.   *)
GiveBack ==
    /\ Releasing
    /\ "mailbox" \in GivenBack => pc[Worker] = "idle" /\ ~shielded
    /\ res' = res \ GivenBack
    /\ noted' = noted \ GivenBack
    /\ undone' = undone + 1
    /\ msg' = IF "mailbox" \in GivenBack THEN Null ELSE msg
    /\ Goto(Entry, IF undone' < Len(Releases) THEN pc[Entry]
                   ELSE IF pc[Entry] = "failed" THEN "returned" ELSE "gone")
    /\ UNCHANGED <<cpuVars, target, lock, treeVars, hooked, todo, life, shielded, tsd, reports,
                   found, fault, absent, suspended, late>>

(* The mappings or the mailbox of a hypervisor that runs are given back.   *)
UnloadFault ==
    /\ shielded
    /\ \/ pc[Entry] = "stopped"
       \/ Releasing /\ "mailbox" \in GivenBack
    /\ Fault("unload")
    /\ UNCHANGED driverVars

(* DriverEntry and DriverUnload run in the entry thread.                   *)
LifeStep(c) ==
    /\ fault = "none"
    /\ On(c, Entry)
    /\ \/ Detect
       \/ Acquire
       \/ Refused
       \/ RegisterPower
       \/ Started
       \/ StartShield
       \/ StopShield
       \/ Unload
       \/ FinalizeShield
       \/ GiveBack
       \/ UnloadFault

PowerStep ==
    /\ fault = "none"
    /\ SuspendShield \/ ResumeShield

CpuStep(c) == LifeStep(c) \/ (Step(c) /\ UNCHANGED driverVars)

DNext ==
    \/ \E c \in Cpus : CpuStep(c)
    \/ PowerStep
    \/ Environment /\ UNCHANGED driverVars

DSpec == DInit /\ [][DNext]_allVars

-----------------------------------------------------------------------------
TypeOK ==
    /\ run \in [Cpus -> Threads \cup {Null}]
    /\ irql \in [Cpus -> {PASSIVE, HIGH}]
    /\ OldIrql \in [Cpus -> {PASSIVE, HIGH}]
    /\ target \in Procs \cup {Null}
    /\ lock \in [Locks -> [held : BOOLEAN, OldIrql : {PASSIVE, HIGH}, Owner : Contexts \cup {Null}]]
    /\ gProcessTree \in {"null", "live", "freed"}
    /\ entries \subseteq Procs
    /\ blocks \in 0 .. MaxReports
    /\ \A p \in Procs : life[p] \in 0 .. MaxLives[p]
    /\ msg \in Procs \cup {Null}
    /\ res \subseteq Resources
    /\ fault \in {"none", "worker", "tree", "root", "assert_table", "unload"}

HasLock(x) == \E l \in Locks : lock[l].held /\ lock[l].Owner = x

(* DsAcquireSpinLock, DsReleaseSpinLock (spinlock.c:70-101): whoever holds *)
(* a lock is on a processor at HIGH_LEVEL, in spite of nested locks whose  *)
(* release restores an IRQL that another context's acquisition has found;  *)
(* so no holder is switched out, and no exit handler meets a lock that is  *)
(* held on its own processor.  Outside the locks the IRQL is what it was.  *)
HoldersRunAtHigh ==
    /\ \A x \in Contexts : HasLock(x) => \E c \in Cpus : On(c, x) /\ irql[c] = HIGH
    /\ \A c \in Cpus : pc[c] = "guest" /\ (run[c] = Null \/ pc[run[c]] \in {"user", "idle", "enum", "up"})
                         => irql[c] = PASSIVE

(* idxlist.c, PmExcludeThread, PmCleanupThreadExclusionList: the list of   *)
(* every entry is in good order, and a walk by UniqueId finds every        *)
(* exclusion in it.                                                        *)
ListsInOrder ==
    \A p \in entries :
      /\ WellLinked(table[p])
      /\ \A i \in Used(table[p]) :
           /\ table[p].NodeList[i].Data.UniqueId = i
           /\ PmIsThreadExcluded(table[p], table[p].NodeList[i].Data.Thread)

Excluded(p) == {table[p].NodeList[i].Data.Thread : i \in Used(table[p])}

InFlight == IF pc[Worker] \in {"w_take", "w_release", "w_check"}
               /\ found.id = 0 THEN 1 ELSE 0

(* PmExcludeThread and PmDestroyThreadExclusionList (process.c:755-838):   *)
(* every exclusion block is in the list of one entry or with the worker,   *)
(* and is freed once; the others have been put into a list that was being  *)
(* deleted.                                                                *)
BlocksAccounted ==
    blocks = Cardinality(UNION {{p} \X Used(table[p]) : p \in Procs}) + InFlight + lost

(* What is left of them when the driver is gone has been lost that way.    *)
NoBlockLeft == pc[Entry] \in {"returned", "gone"} /\ pc[Worker] = "idle" => blocks = lost

(* The worker's PmExcludeThread, the notify callbacks and the unload, on   *)
(* two processors, leave every exclusion list in order and account for     *)
(* every block, up to the end.                                             *)
ListsSound == TypeOK /\ ListsInOrder /\ BlocksAccounted /\ NoBlockLeft

(* DsProcessNotifyCallback, PmGetClientTrustLevel: whoever takes           *)
(* gProcessTreeLock finds the tree and the entries it looks up alive, from *)
(* DriverEntry to DriverUnload, with two exceptions: the monitor fails to  *)
(* start after it has registered its callback (process.c:1151-1165), or a    *)
(* resume starts the shield again behind DriverUnload's back, which stops  *)
(* it first and takes the power callback off last (driver.c:270-293).      *)
LockedUsersAreSafe ==
    fault \in {"tree", "assert_table", "root"} =>
        \/ fault = "root" /\ late
        \/ /\ fault # "root"
           /\ pc[Entry] \in {"undo", "undo_null", "undo_hook", "d_list", "d_unlist", "d_delete"}
           /\ hooked

(* DriverEntry and DriverUnload (driver.c:218-256, 270-319): the pool of   *)
(* the driver is there before all that is made in it and outlives it, WPP  *)
(* outlives both; a load that is refused at any point and an unload leave  *)
(* no resource, no tree, no entry, no routine and no hypervisor behind,    *)
(* but for WPP when the pool is refused.  Nothing the hypervisor uses is   *)
(* given back while it runs, unless a resume has started it meanwhile.     *)
NothingStays ==
    /\ res # {} => "wpp" \in res
    /\ "pool" \notin res =>
         /\ res \subseteq {"wpp"}
         /\ gProcessTree = "null" /\ entries = {} /\ ~hooked /\ ~shielded
    /\ pc[Entry] \in {"returned", "gone"} => "pool" \notin res /\ (undone # 0 => res = {})
    /\ fault = "unload" => late

(* PmGetClientTrustLevel, HvmTrimTsdForQuantum (hvm_root.c:115-152): a     *)
(* thread is let run with CR4.TSD clear for more than a time slice only if *)
(* the list of its process still has it, and has it because the detector   *)
(* reported its id; unless a resume has started the shield during          *)
(* DriverUnload, which deletes the lists.                                  *)
ExemptAreListed ==
    \A c \in Cpus, p \in Procs :
      run[c] = p /\ pc[p] = "user" /\ pc[c] = "guest" /\ tsd[c] = "exempt" =>
        \/ late
        \/ /\ p \in entries
           /\ <<p, life[p]>> \in Excluded(p)
           /\ reports[p] > 0
=============================================================================
