--------------------------- MODULE ProcessMonitor ---------------------------
(***************************************************************************)
(* The process monitor (src/src/process.c) on the spin lock of the driver  *)
(* (src/src/spinlock.c): the tree of process entries under                 *)
(* gProcessTreeLock, the list of excluded threads of every entry under a   *)
(* lock of its own, and everybody who uses them.                           *)
(*                                                                         *)
(* A context is a thread, which needs a processor to run, or a processor   *)
(* in root mode.  A context switch on a processor whose IRQL allows it     *)
(* loads FS and so exits to root mode, where the exit handler looks up     *)
(* whether the new thread is exempt.  Threads are those of the processes,  *)
(* of DriverEntry and DriverUnload, and the mailbox worker.                *)
(*                                                                         *)
(* What a lock protects is done in the step that takes it.  Touching       *)
(* memory that has been freed, or a NULL tree, is a fault and ends the     *)
(* behaviour.                                                              *)
(***************************************************************************)
EXTENDS IdxList, Sequences

CONSTANTS Cpus,         \* processors
          Affinity,     \* Affinity[x]: the processors thread x may run on
          Procs,        \* process ids, each with the id of its one thread
          Entry,        \* the thread that runs DriverEntry and DriverUnload
          Worker,       \* the mailbox worker
          MaxLives,     \* MaxLives[p]: how often the id p is used
          MaxReports    \* false positives reported

ASSUME ActorsAssumption ==
    /\ Cpus # {} /\ Procs # {} /\ IsFiniteSet(Procs)
    /\ MaxLives \in [Procs -> Nat] /\ MaxReports \in Nat
    /\ Affinity \in [Procs \cup {Entry, Worker} -> SUBSET Cpus]
    /\ Entry # Worker /\ {Entry, Worker} \cap (Procs \cup Cpus) = {} /\ Procs \cap Cpus = {}
    /\ Null \notin Procs \cup Cpus \cup {Entry, Worker}
    /\ Null \notin [Thread : Procs \X Nat, UniqueId : Nat]

PASSIVE == 0
HIGH == 15

Threads == Procs \cup {Entry, Worker}
Contexts == Threads \cup Cpus
Tree == "tree"
Locks == Procs \cup {Tree}

ASSUME TreeAssumption == Tree \notin Procs

VARIABLES
    run,        \* run[c]: the thread processor c runs, or Null
    irql,       \* irql[c]: the IRQL of c
    OldIrql,    \* OldIrql[c]: the local variable of the lock routine c is in
    pc,         \* pc[x]: where context x is
    target,     \* the process DriverEntry or DriverUnload is at, or Null
    lock,       \* lock[l]: gProcessTreeLock and the lock of each entry
    gProcessTree, \* "null", "live" or "freed"
    entries,    \* the processes that have an entry
    gen,        \* gen[p]: entries made for p so far, to tell them apart
    table,      \* table[p]: ThreadList.Table of the entry of p
    blocks,     \* exclusion blocks allocated
    lost,       \* those among them that DestroyIdxList has dropped
    hooked,     \* the notify routine is registered
    todo,       \* snapshot of the processes DriverEntry enumerates
    life,       \* life[p]: lives of p so far
    shielded,   \* the hypervisor runs: switches exit
    tsd,        \* tsd[c]: CR4.TSD is set on c, or why it is clear
    msg,        \* process of the false positive in the mailbox, or Null
    reports,    \* reports[p]: false positives posted about p
    found,      \* entry the worker has found, and UniqueId of its block
    fault       \* what has gone wrong

cpuVars == <<run, irql, OldIrql>>
treeVars == <<gProcessTree, entries, gen, table, blocks, lost>>
otherVars == <<hooked, todo, life, shielded, tsd, msg, reports, found>>
vars == <<cpuVars, pc, target, lock, treeVars, otherVars, fault>>

Nothing == [p |-> Null, gen |-> 0, id |-> 0]
FreeLock == [held |-> FALSE, OldIrql |-> PASSIVE, Owner |-> Null]

Init ==
    /\ run = [c \in Cpus |-> Null]
    /\ irql = [c \in Cpus |-> PASSIVE]
    /\ OldIrql = [c \in Cpus |-> PASSIVE]
    /\ pc = [x \in Contexts |-> CASE x \in Procs -> "none"
                                  [] x = Entry -> "load"
                                  [] x = Worker -> "idle"
                                  [] OTHER -> "guest"]
    /\ target = Null
    /\ lock = [l \in Locks |-> FreeLock]
    /\ gProcessTree = "null"
    /\ entries = {}
    /\ gen = [p \in Procs |-> 0]
    /\ table = [p \in Procs |-> EmptyIdxList]
    /\ blocks = 0
    /\ lost = 0
    /\ hooked = FALSE
    /\ todo = <<>>
    /\ life = [p \in Procs |-> 0]
    /\ shielded = FALSE
    /\ tsd = [c \in Cpus |-> "unshielded"]
    /\ msg = Null
    /\ reports = [p \in Procs |-> 0]
    /\ found = Nothing
    /\ fault = "none"

(* A processor executes its thread, unless it is in root mode.             *)
On(c, x) == x = IF pc[c] = "guest" THEN run[c] ELSE c

(* The process the call of context x is about.                             *)
Of(x) == CASE x \in Procs -> x
           [] x \in Cpus -> run[x]
           [] x = Worker -> found.p
           [] x = Entry -> target

Goto(x, stage) == pc' = [pc EXCEPT ![x] = stage]

Fault(what) ==
    /\ fault' = what
    /\ UNCHANGED <<cpuVars, pc, target, lock, treeVars, otherVars>>
-----------------------------------------------------------------------------
(***************************************************************************)
(* DsAcquireSpinLock and DsReleaseSpinLock.                                *)
(***************************************************************************)
Raise(c) ==
    /\ OldIrql' = [OldIrql EXCEPT ![c] = irql[c]]
    /\ irql' = [irql EXCEPT ![c] = HIGH]

(* Mutant: the IRQL found is not kept with the lock.                       *)
TakeBare(c, x, l) ==
    /\ ~lock[l].held
    /\ lock' = [lock EXCEPT ![l] = [held |-> TRUE, OldIrql |-> PASSIVE, Owner |-> x]]

(* The fields are written by the context that has set the lock bit.        *)
Take(c, x, l) ==
    /\ ~lock[l].held
    /\ lock' = [lock EXCEPT ![l] = [held |-> TRUE, OldIrql |-> OldIrql[c], Owner |-> x]]

(* The IRQL is taken out of the lock before it is released.                *)
Release(c, l) ==
    /\ lock' = [lock EXCEPT ![l] = FreeLock]
    /\ irql' = [irql EXCEPT ![c] = lock[l].OldIrql]
    /\ OldIrql' = [OldIrql EXCEPT ![c] = PASSIVE]

ReleaseStages == {"c_release", "d_release", "f_release", "w_release", "r_release",
                  "d_unlist", "r_unlist"}

(* The lock of the worker's entry is gone when the entry is.               *)
Stale(x) == x = Worker /\ ~(found.p \in entries /\ gen[found.p] = found.gen)

LockOf(x) == IF pc[x] \in {"w_release", "d_unlist", "r_unlist"} THEN Of(x) ELSE Tree

ReleaseStep(c, x) ==
    /\ pc[x] \in ReleaseStages
    /\ ~Stale(x)
    /\ pc[x] = "d_unlist" => table[Of(x)].NodeCount = 0
    /\ Release(c, LockOf(x))
    /\ Goto(x, CASE pc[x] = "c_release" -> IF x = Entry THEN "enum" ELSE "user"
                 [] pc[x] = "d_release" -> "none"
                 [] pc[x] = "f_release" -> "down"
                 [] pc[x] = "w_release" -> "w_check"
                 [] pc[x] = "r_release" -> "guest"
                 [] pc[x] = "d_unlist" -> "d_delete"
                 [] pc[x] = "r_unlist" -> "r_release")
    /\ run' = [run EXCEPT ![c] = IF pc[x] = "d_release" THEN Null ELSE @]
    /\ UNCHANGED <<target, treeVars, otherVars, fault>>
-----------------------------------------------------------------------------
(***************************************************************************)
(* DsProcessCreationCallback, called by the system for a new process in    *)
(* the context of its creator, or by DriverEntry for one it has found.     *)
(***************************************************************************)

(* The image name and the security identifier, and the memory for them.    *)
CreateDescribe(c, x) ==
    /\ pc[x] = "c_name"
    /\ \/ pc[Of(x)] # "none" /\ Raise(c) /\ Goto(x, "c_take")
       \/ Goto(x, IF x = Entry THEN "enum" ELSE "user") /\ UNCHANGED <<irql, OldIrql>>
    /\ UNCHANGED <<run, target, lock, treeVars, otherVars, fault>>

(* PmCreateProcessEntry: an entry that is there already stays as it is.    *)
CreateInsert(c, x) ==
    /\ pc[x] = "c_take"
    /\ gProcessTree = "live"
    /\ Take(c, x, Tree)
    /\ IF Of(x) \in entries
       THEN UNCHANGED <<entries, table, gen>>
       ELSE /\ entries' = entries \cup {Of(x)}
            /\ table' = [table EXCEPT ![Of(x)] = EmptyIdxList]
            /\ gen' = [gen EXCEPT ![Of(x)] = @ + 1]
    /\ Goto(x, "c_release")
    /\ UNCHANGED <<cpuVars, target, gProcessTree, blocks, lost, otherVars, fault>>

(* RtlInsertElementGenericTableAvl finds no memory for the node.           *)
CreateNoNode(c, x) ==
    /\ pc[x] = "c_take"
    /\ gProcessTree = "live"
    /\ Of(x) \notin entries
    /\ Take(c, x, Tree)
    /\ Goto(x, "c_release")
    /\ UNCHANGED <<cpuVars, target, treeVars, otherVars, fault>>

CreateFault(c, x) ==
    /\ pc[x] = "c_take"
    /\ ~lock[Tree].held
    /\ \/ gProcessTree = "null" /\ Fault("assert_table")
       \/ gProcessTree = "freed" /\ Fault("tree")
-----------------------------------------------------------------------------
(***************************************************************************)
(* DsProcessDeletionCallback, in the context of the process that exits,    *)
(* and PmClearProcessTable, which deletes one entry after the other.       *)
(***************************************************************************)
DeleteLookup(c, x) ==
    /\ pc[x] = "d_take"
    /\ gProcessTree = "live"
    /\ Take(c, x, Tree)
    /\ IF Of(x) \in entries
       THEN Raise(c) /\ Goto(x, "d_list")
       ELSE UNCHANGED <<irql, OldIrql>> /\ Goto(x, "d_release")
    /\ UNCHANGED <<run, target, treeVars, otherVars, fault>>

(* Mutant: the blocks in the list are not freed.                           *)
DeleteCleanupLeak(c, x) ==
    /\ pc[x] = "d_list"
    /\ Of(x) \in entries
    /\ Take(c, x, Of(x))
    /\ Goto(x, "d_unlist")
    /\ table' = [table EXCEPT ![Of(x)] = EmptyIdxList]
    /\ UNCHANGED <<cpuVars, target, gProcessTree, entries, gen, blocks, lost, otherVars, fault>>

(* PmCleanupThreadExclusionList takes the lock of the list, ...            *)
DeleteCleanup(c, x) ==
    /\ pc[x] = "d_list"
    /\ Of(x) \in entries
    /\ Take(c, x, Of(x))
    /\ Goto(x, "d_unlist")
    /\ UNCHANGED <<cpuVars, target, treeVars, otherVars, fault>>

(* ... removes and frees one block after the other while NodeCount is not  *)
(* 0, and releases the lock.                                               *)
DeleteBlock(c, x) ==
    /\ pc[x] = "d_unlist"
    /\ table[Of(x)].NodeCount # 0
    /\ table' = [table EXCEPT ![Of(x)] = RemoveHeadIdxList(@)]
    /\ blocks' = blocks - (table[Of(x)].NodeCount - table'[Of(x)].NodeCount)
    /\ UNCHANGED <<cpuVars, pc, target, lock, gProcessTree, entries, gen, lost, otherVars, fault>>

(* The rest of PmDeleteProcessEntry: DestroyIdxList and the node.  A block *)
(* the worker has put into the list since its cleanup is lost.             *)
DeleteEntry(c, x) ==
    /\ pc[x] = "d_delete"
    /\ gProcessTree = "live"
    /\ Of(x) \in entries
    /\ lost' = lost + table[Of(x)].NodeCount
    /\ table' = [table EXCEPT ![Of(x)] = EmptyIdxList]
    /\ entries' = entries \ {Of(x)}
    /\ Goto(x, CASE x \in Procs -> "d_release"
                 [] x = Entry /\ hooked -> "undo"
                 [] x = Entry /\ ~hooked -> "f_clear")
    /\ UNCHANGED <<cpuVars, target, lock, gProcessTree, gen, blocks, otherVars, fault>>

DeleteFault(c, x) ==
    /\ pc[x] \in {"d_take", "d_list", "d_delete"}
    /\ pc[x] = "d_take" => ~lock[Tree].held
    /\ gProcessTree # "live" \/ (pc[x] # "d_take" /\ Of(x) \notin entries)
    /\ Fault("tree")
-----------------------------------------------------------------------------
(***************************************************************************)
(* PmInitializeProcessMonitor and PmFinalizeProcessMonitor.                *)
(***************************************************************************)
Notifying(p) == pc[p] \notin {"none", "user"}

PmInitialize(c) ==
    /\ pc[Entry] = "procmon"
    /\ \/ /\ gProcessTree' = "live"
          /\ \/ hooked' = TRUE /\ Goto(Entry, "query")
             \/ UNCHANGED hooked /\ Goto(Entry, "undo")
       \/ UNCHANGED <<gProcessTree, hooked>> /\ Goto(Entry, "failed")
    /\ UNCHANGED <<cpuVars, target, lock, entries, gen, table, blocks,
                   lost, todo, life, shielded, tsd, msg, reports, found, fault>>

(* PmEnumerareProcesses: the loop leaves the last process of the snapshot  *)
(* out.  Any order of the processes that exist may be reported.            *)
Orders(S) == {s \in [1 .. Cardinality(S) -> S] : \A i, j \in DOMAIN s : s[i] = s[j] => i = j}

Query(c) ==
    /\ pc[Entry] = "query"
    /\ \/ /\ \E s \in Orders({p \in Procs : pc[p] # "none"}) :
               todo' = IF s = <<>> THEN s ELSE SubSeq(s, 1, Len(s) - 1)
          /\ Goto(Entry, "enum")
       \/ UNCHANGED todo /\ Goto(Entry, "undo")
    /\ UNCHANGED <<cpuVars, target, lock, treeVars, hooked, life, shielded, tsd, msg, reports,
                   found, fault>>

Enumerate(c) ==
    /\ pc[Entry] = "enum"
    /\ IF todo = <<>>
       THEN target' = Null /\ UNCHANGED todo /\ Goto(Entry, "monitored")
       ELSE /\ target' = Head(todo)
            /\ todo' = Tail(todo)
            /\ Goto(Entry, "c_name")
    /\ UNCHANGED <<cpuVars, lock, treeVars, hooked, life, shielded, tsd, msg, reports,
                   found, fault>>

(* PmClearProcessTable takes the first entry; the lock of its list is      *)
(* raised for here.                                                        *)
ClearNext(c) ==
    /\ pc[Entry] \in {"undo", "f_clear"}
    /\ entries # {}
    /\ target' \in entries
    /\ Raise(c)
    /\ Goto(Entry, "d_list")
    /\ UNCHANGED <<run, lock, treeVars, otherVars, fault>>

(* The failure path of PmInitializeProcessMonitor deletes the tree without *)
(* its lock, clears gProcessTree and only then removes the routine.        *)
UndoFree(c) ==
    /\ pc[Entry] = "undo"
    /\ entries = {}
    /\ gProcessTree' = "freed"
    /\ Goto(Entry, "undo_null")
    /\ target' = Null
    /\ UNCHANGED <<cpuVars, lock, entries, gen, table, blocks, lost, otherVars, fault>>

UndoNull(c) ==
    /\ pc[Entry] = "undo_null"
    /\ gProcessTree' = "null"
    /\ Goto(Entry, "undo_hook")
    /\ UNCHANGED <<cpuVars, target, lock, entries, gen, table, blocks, lost, otherVars, fault>>

(* Removing the routine waits for the callbacks that are under way.        *)
Unhook(c) ==
    /\ pc[Entry] \in {"undo_hook", "f_unhook"}
    /\ \A p \in Procs : ~Notifying(p)
    /\ hooked' = FALSE
    /\ IF pc[Entry] = "f_unhook"
       THEN Raise(c) /\ Goto(Entry, "f_take")
       ELSE UNCHANGED <<irql, OldIrql>> /\ Goto(Entry, "failed")
    /\ UNCHANGED <<run, target, lock, treeVars, todo, life, shielded, tsd, msg, reports,
                   found, fault>>

FinalizeTake(c) ==
    /\ pc[Entry] = "f_take"
    /\ Take(c, Entry, Tree)
    /\ Goto(Entry, "f_clear")
    /\ UNCHANGED <<cpuVars, target, treeVars, otherVars, fault>>

FinalizeFree(c) ==
    /\ pc[Entry] = "f_clear"
    /\ entries = {}
    /\ gProcessTree' = "null"
    /\ Goto(Entry, "f_release")
    /\ target' = Null
    /\ UNCHANGED <<cpuVars, lock, entries, gen, table, blocks, lost, otherVars, fault>>
-----------------------------------------------------------------------------
(***************************************************************************)
(* The mailbox worker dispatches a false positive: it looks the entry up   *)
(* without the lock of the tree and excludes the thread.                   *)
(***************************************************************************)
WorkerLookup(c) ==
    /\ pc[Worker] = "idle"
    /\ msg # Null
    /\ gProcessTree = "live"
    /\ msg' = Null
    /\ IF msg \in entries
       THEN /\ found' = [p |-> msg, gen |-> gen[msg], id |-> 0]
            /\ Goto(Worker, "w_alloc")
       ELSE UNCHANGED <<found, pc>>
    /\ UNCHANGED <<cpuVars, target, lock, treeVars, hooked, todo, life, shielded, tsd, reports,
                   fault>>

(* No memory, or the thread is gone; the block is given back.              *)
WorkerGiveUp(c) ==
    /\ pc[Worker] = "w_alloc"
    /\ found' = Nothing
    /\ Goto(Worker, "idle")
    /\ UNCHANGED <<cpuVars, target, lock, treeVars, hooked, todo, life, shielded, tsd, msg,
                   reports, fault>>

WorkerAllocate(c) ==
    /\ pc[Worker] = "w_alloc"
    /\ pc[found.p] # "none"
    /\ blocks' = blocks + 1
    /\ Raise(c)
    /\ Goto(Worker, "w_take")
    /\ UNCHANGED <<run, target, lock, gProcessTree, entries, gen, table, lost, otherVars, fault>>

Exclusion(p, id) == [Thread |-> <<p, life[p]>>, UniqueId |-> id]

WorkerInsert(c) ==
    LET p == found.p
    IN  /\ pc[Worker] = "w_take"
        /\ ~Stale(Worker)
        /\ Take(c, Worker, p)
        /\ table' = [table EXCEPT ![p] = InsertHeadIdxList(@, Exclusion(p, InsertIdx(@)))]
        /\ found' = [found EXCEPT !.id = InsertIdx(table[p])]
        /\ Goto(Worker, "w_release")
        /\ UNCHANGED <<cpuVars, target, gProcessTree, entries, gen, blocks, lost, hooked, todo, life,
                       shielded, tsd, msg, reports, fault>>

(* InsertHeadIdxList cannot extend the table and returns 0.                *)
WorkerNoRoom(c) ==
    /\ pc[Worker] = "w_take"
    /\ ~Stale(Worker)
    /\ MustExtend(table[found.p])
    /\ Take(c, Worker, found.p)
    /\ Goto(Worker, "w_release")
    /\ UNCHANGED <<cpuVars, target, treeVars, otherVars, fault>>

(* UniqueId is read from the block again, after the lock is released; the  *)
(* block is given back when it is 0.                                       *)
Linked == IF Stale(Worker) THEN FALSE ELSE table[found.p].NodeList[found.id].Data # Null

WorkerCheck(c) ==
    /\ pc[Worker] = "w_check"
    /\ found.id = 0 \/ Linked
    /\ blocks' = IF found.id = 0 THEN blocks - 1 ELSE blocks
    /\ found' = Nothing
    /\ Goto(Worker, "idle")
    /\ UNCHANGED <<cpuVars, target, lock, gProcessTree, entries, gen, table, lost, hooked, todo,
                   life, shielded, tsd, msg, reports, fault>>

WorkerFault(c) ==
    \/ pc[Worker] \in {"w_take", "w_release"} /\ Stale(Worker) /\ Fault("worker")
    \/ pc[Worker] = "w_check" /\ found.id # 0 /\ ~Linked /\ Fault("worker")
    \/ pc[Worker] = "idle" /\ msg # Null /\ gProcessTree # "live" /\ Fault("worker")
-----------------------------------------------------------------------------
(***************************************************************************)
(* Root mode: HvmHandleMsrWriteFsBase calls PmGetClientTrustLevel and      *)
(* HvmTrimTsdForQuantum.                                                   *)
(***************************************************************************)

(* PmIsThreadExcluded: from the head on, by UniqueId, until Null.          *)
PmIsThreadExcluded(T, thread) ==
    LET blocksOf == {T.NodeList[i].Data : i \in DOMAIN T.NodeList} \ {Null}
        walks == {C \in SUBSET (blocksOf \cup {Null}) :
                    /\ GetHeadNodeIdxList(T) \in C
                    /\ \A b \in C \ {Null} : GetNextNodeIdxList(T, b.UniqueId) \in C}
    IN  \E b \in blocksOf : b.Thread = thread /\ \A C \in walks : b \in C

(* Mutant: a process without an entry is exempt.                           *)
RootLookupTrusts(c) ==
    /\ pc[c] = "r_take"
    /\ gProcessTree = "live"
    /\ Take(c, c, Tree)
    /\ IF run[c] \in entries
       THEN /\ Raise(c)
            /\ Goto(c, "r_list")
            /\ UNCHANGED tsd
       ELSE /\ tsd' = [tsd EXCEPT ![c] = "exempt"]
            /\ Goto(c, "r_release")
            /\ UNCHANGED <<irql, OldIrql>>
    /\ UNCHANGED <<run, target, treeVars, hooked, todo, life, shielded, msg, reports, found,
                   fault>>

RootLookup(c) ==
    /\ pc[c] = "r_take"
    /\ gProcessTree = "live"
    /\ Take(c, c, Tree)
    /\ IF run[c] \in entries
       THEN /\ Raise(c)
            /\ Goto(c, "r_list")
            /\ UNCHANGED tsd
       ELSE /\ tsd' = [tsd EXCEPT ![c] = "set"]
            /\ Goto(c, "r_release")
            /\ UNCHANGED <<irql, OldIrql>>
    /\ UNCHANGED <<run, target, treeVars, hooked, todo, life, shielded, msg, reports, found,
                   fault>>

RootWalk(c) ==
    /\ pc[c] = "r_list"
    /\ Of(c) \in entries
    /\ Take(c, c, Of(c))
    /\ tsd' = [tsd EXCEPT ![c] = IF PmIsThreadExcluded(table[Of(c)], <<run[c], life[run[c]]>>)
                                 THEN "exempt" ELSE "set"]
    /\ Goto(c, "r_unlist")
    /\ UNCHANGED <<cpuVars, target, treeVars, hooked, todo, life, shielded, msg, reports,
                   found, fault>>

RootFault(c) ==
    /\ \/ pc[c] = "r_take" /\ ~lock[Tree].held /\ gProcessTree # "live"
       \/ pc[c] = "r_list" /\ Of(c) \notin entries
    /\ Fault("root")
-----------------------------------------------------------------------------
(***************************************************************************)
(* The system around it.                                                   *)
(***************************************************************************)

Ready(x) ==
    CASE x = Worker -> pc[x] # "idle" \/ msg # Null
      [] x = Entry -> pc[x] \notin {"returned", "gone"}
      [] OTHER -> pc[x] # "none"

(* Processor c switches to another thread that has something to do.        *)
Switch(c, x) ==
    /\ pc[c] = "guest"
    /\ irql[c] = PASSIVE
    /\ \A d \in Cpus : run[d] # x
    /\ Ready(x) /\ c \in Affinity[x]
    /\ run' = [run EXCEPT ![c] = x]
    /\ IF shielded
       THEN Raise(c) /\ Goto(c, "r_take")
       ELSE UNCHANGED <<irql, OldIrql, pc>>
    /\ UNCHANGED <<target, lock, treeVars, otherVars, fault>>

(* A process starts: the callback runs before its thread does.             *)
ProcessStart(p) ==
    /\ pc[p] = "none"
    /\ life[p] < MaxLives[p]
    /\ life' = [life EXCEPT ![p] = @ + 1]
    /\ Goto(p, IF hooked THEN "c_name" ELSE "user")
    /\ UNCHANGED <<cpuVars, target, lock, treeVars, hooked, todo, shielded, tsd, msg, reports,
                   found, fault>>

ProcessExit(c, p) ==
    /\ run[c] = p
    /\ pc[p] = "user"
    /\ pc[c] = "guest"
    /\ IF hooked
       THEN Raise(c) /\ Goto(p, "d_take") /\ UNCHANGED run
       ELSE Goto(p, "none") /\ run' = [run EXCEPT ![c] = Null] /\ UNCHANGED <<irql, OldIrql>>
    /\ UNCHANGED <<target, lock, treeVars, otherVars, fault>>

(* The detector gives up on the thread it watches for the rest of its time *)
(* slice, and posts a false positive if it was a candidate.                *)
Watched(c, p) == run[c] = p /\ pc[p] = "user" /\ pc[c] = "guest" /\ tsd[c] = "set"
Posted == {r \in Procs \X (1 .. MaxReports) : r[2] <= reports[r[1]]}

Trim(c, p) ==
    /\ Watched(c, p)
    /\ tsd' = [tsd EXCEPT ![c] = "trimmed"]
    /\ \/ UNCHANGED <<msg, reports>>
       \/ /\ msg = Null
          /\ Cardinality(Posted) < MaxReports
          /\ reports' = [reports EXCEPT ![p] = @ + 1]
          /\ msg' = p
    /\ UNCHANGED <<cpuVars, pc, target, lock, treeVars, hooked, todo, life, shielded, found, fault>>

(* What the running context of processor c does next.                      *)
CallbackStep(c, x) ==
    \/ CreateDescribe(c, x)
    \/ CreateInsert(c, x)
    \/ CreateNoNode(c, x)
    \/ CreateFault(c, x)
    \/ DeleteLookup(c, x)
    \/ DeleteCleanup(c, x)
    \/ DeleteBlock(c, x)
    \/ DeleteEntry(c, x)
    \/ DeleteFault(c, x)

MonitorStep(c) ==
    \/ PmInitialize(c)
    \/ Query(c)
    \/ Enumerate(c)
    \/ ClearNext(c)
    \/ UndoFree(c)
    \/ UndoNull(c)
    \/ Unhook(c)
    \/ FinalizeTake(c)
    \/ FinalizeFree(c)

WorkerStep(c) ==
    \/ WorkerLookup(c)
    \/ WorkerGiveUp(c)
    \/ WorkerAllocate(c)
    \/ WorkerInsert(c)
    \/ WorkerNoRoom(c)
    \/ WorkerCheck(c)
    \/ WorkerFault(c)

RootStep(c) ==
    \/ RootLookup(c)
    \/ RootWalk(c)
    \/ RootFault(c)

Step(c) ==
    /\ fault = "none"
    /\ \E x \in Contexts :
         /\ On(c, x)
         /\ \/ ReleaseStep(c, x)
            \/ CallbackStep(c, x)
            \/ x = Entry /\ MonitorStep(c)
            \/ x = Worker /\ WorkerStep(c)
            \/ x = c /\ RootStep(c)

Environment ==
    /\ fault = "none"
    /\ \/ \E c \in Cpus, x \in Threads : Switch(c, x)
       \/ \E p \in Procs : ProcessStart(p)
       \/ \E c \in Cpus, p \in Procs : ProcessExit(c, p) \/ Trim(c, p)
=============================================================================
